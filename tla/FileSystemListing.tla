-------------------------- MODULE FileSystemListing --------------------------
(***************************************************************************)
(* Proofs that the file system of FileSystem shows the tree: what was read *)
(* of it lists the tree between two updates, and the walk from the root    *)
(* finds every file with its current content.                              *)
(*                                                                         *)
(* While events wait, the registry shows the tree as it was before them.   *)
(* So the invariant speaks of the trees that there were: the first is the  *)
(* one before the first waiting event, each event makes the next one of    *)
(* the one before, and the last is the tree.  An event that is dispatched  *)
(* makes of the registry what it made of the first tree.                   *)
(***************************************************************************)
EXTENDS FileSystemProofs

-----------------------------------------------------------------------------
(* Trees and what an event makes of one *)

\* Names of one message.
Alike(m, n) ==
  m = n \/ (m \in Names /\ n \in Names /\ MessageOf[m] = MessageOf[n])

Touched(w) == {w.name, w.entry.name}

\* A directory has one entry of a message.
OneOfEach(E) == \A e, f \in E : Alike(e.name, f.name) => e = f

EventShape(w) ==
  /\ w.entry \in AllEntries /\ w.kind \in {"new", "update", "remove"}
  /\ Alike(w.name, w.entry.name)
  /\ w.kind # "update" => w.entry.name = w.name

\* What the event says of the directory is so.
Told(w, E) ==
  /\ w.kind # "remove" => w.entry \in E
  /\ w.kind = "remove" \/ w.entry.name # w.name => \A e \in E : e.name # w.name

\* The event w makes the entries D of the entries E of its directory.
Changes(E, D, w) ==
  /\ D \subseteq AllEntries /\ OneOfEach(D)
  /\ \A e \in AllEntries : e.name \notin Touched(w) => (e \in E <=> e \in D)
  /\ EventShape(w) /\ Told(w, D)
  /\ w.kind = "new" <=> \A e \in E : e.name # w.name
  /\ w.entry.name # w.name => \A e \in E : e.name # w.entry.name

\* Entries, of the directory d of a tree "of".
EntriesIn(of, d) ==
  {FileEntry(n, of[d][n]) : n \in DOMAIN of[d]}
    \cup IF d = Top THEN {DirEntry(e) : e \in DOMAIN of \ {Top}} ELSE {}

\* The event that removes a directory.
Removes(w, d) == w.kind = "remove" /\ w.dir = Top /\ w.name = d

\* The event w makes the tree "then" of the tree "of".
Effect(of, w, then) ==
  /\ w.dir \in DOMAIN of /\ w.dir \in DOMAIN then
  /\ \A d \in DOMAIN then :
       \/ /\ d \in DOMAIN of /\ d # w.dir
          /\ EntriesIn(then, d) = EntriesIn(of, d)
       \/ /\ d \in DOMAIN of /\ d = w.dir
          /\ Changes(EntriesIn(of, d), EntriesIn(then, d), w)
       \/ /\ d \notin DOMAIN of /\ w.kind = "new" /\ w.dir = Top /\ w.name = d
          /\ EntriesIn(then, d) = {}
  /\ \A d : d \in DOMAIN of \ DOMAIN then => Removes(w, d)
  /\ \A d \in DOMAIN then : ~Removes(w, d)

GoodTree(of) ==
  /\ Top \in DOMAIN of /\ DOMAIN of \subseteq Dirs \cup {Top}
  /\ \A d \in DOMAIN of :
       EntriesIn(of, d) \subseteq AllEntries /\ OneOfEach(EntriesIn(of, d))

LEMMA EffectIsGood ==
  ASSUME NEW of, NEW w, NEW then, GoodTree(of), Effect(of, w, then),
         Top \in DOMAIN then, DOMAIN then \subseteq Dirs \cup {Top}
  PROVE  GoodTree(then)
<1>1. ASSUME NEW d \in DOMAIN then
      PROVE  EntriesIn(then, d) \subseteq AllEntries /\ OneOfEach(EntriesIn(then, d))
  <2>1. CASE d \in DOMAIN of /\ EntriesIn(then, d) = EntriesIn(of, d)
    BY <2>1 DEF GoodTree
  <2>2. CASE Changes(EntriesIn(of, d), EntriesIn(then, d), w)
    BY <2>2 DEF Changes
  <2>3. CASE EntriesIn(then, d) = {}
    BY <2>3 DEF OneOfEach
  <2>4. QED
    BY <2>1, <2>2, <2>3 DEF Effect
<1>2. QED
  BY <1>1 DEF GoodTree

LEMMA AlikeTrans ==
  ASSUME NEW l, NEW m, NEW n, Alike(l, m), Alike(m, n)
  PROVE  Alike(l, n)
BY DEF Alike

LEMMA AlikeSymmetric ==
  ASSUME NEW m, NEW n, Alike(m, n)
  PROVE  Alike(n, m)
BY DEF Alike

\* What the entries of a directory are.
LEMMA EntryIn ==
  ASSUME NEW of, DOMAIN of \subseteq Dirs \cup {Top}, NEW d,
         DOMAIN of[d] \subseteq Names, of[d] \in [DOMAIN of[d] -> Versions]
  PROVE  /\ EntriesIn(of, d) \subseteq AllEntries
         /\ \A e \in AllEntries :
              e \in EntriesIn(of, d) <=>
                \/ e.kind = "file" /\ e.name \in DOMAIN of[d] /\ e.version = of[d][e.name]
                \/ e.kind = "dir" /\ d = Top /\ e.name \in DOMAIN of \ {Top}
<1> DEFINE ofFiles == {FileEntry(n, of[d][n]) : n \in DOMAIN of[d]}
           ofDirs  == {DirEntry(e) : e \in DOMAIN of \ {Top}}
<1>1. ofFiles \subseteq FileEntries /\ ofDirs \subseteq DirEntries
  BY DEF FileEntry, DirEntry, FileEntries, DirEntries
<1>2. \A e \in FileEntries : e \in ofFiles <=> e.name \in DOMAIN of[d] /\ e.version = of[d][e.name]
  <2> SUFFICES ASSUME NEW e \in FileEntries
               PROVE  e \in ofFiles <=> e.name \in DOMAIN of[d] /\ e.version = of[d][e.name]
    OBVIOUS
  <2>1. e = FileEntry(e.name, e.version)
    BY DEF FileEntries, FileEntry
  <2>2. ASSUME e.name \in DOMAIN of[d], e.version = of[d][e.name] PROVE e \in ofFiles
    BY <2>1, <2>2
  <2>3. ASSUME e \in ofFiles PROVE e.name \in DOMAIN of[d] /\ e.version = of[d][e.name]
    BY <2>3 DEF FileEntry
  <2>4. QED
    BY <2>2, <2>3
<1>3. \A e \in DirEntries : e \in ofDirs <=> e.name \in DOMAIN of \ {Top}
  <2> SUFFICES ASSUME NEW e \in DirEntries
               PROVE  e \in ofDirs <=> e.name \in DOMAIN of \ {Top}
    OBVIOUS
  <2>1. e = DirEntry(e.name)
    BY DEF DirEntries, DirEntry
  <2>2. QED
    BY <2>1 DEF DirEntry
<1>4. EntriesIn(of, d) = ofFiles \cup (IF d = Top THEN ofDirs ELSE {})
  BY DEF EntriesIn
<1>5. \A e \in FileEntries : e.kind = "file"
  BY DEF FileEntries
<1>6. \A e \in DirEntries : e.kind = "dir"
  BY DEF DirEntries
<1> HIDE DEF ofFiles, ofDirs
<1>7. \A e \in FileEntries : e \notin ofDirs
  BY <1>1, <1>5, <1>6
<1>8. \A e \in DirEntries : e \notin ofFiles
  BY <1>1, <1>5, <1>6
<1>9. QED
  BY <1>1, <1>2, <1>3, <1>4, <1>5, <1>6, <1>7, <1>8 DEF AllEntries

\* The entries have names of the tree, one each.
LEMMA EntriesByName ==
  ASSUME TreeInv, GoodTree(tree), NEW d \in DOMAIN tree
  PROVE  /\ \A n \in DOMAIN tree[d] : \E e \in EntriesIn(tree, d) : e.name = n
         /\ \A m, n \in DOMAIN tree[d] : MessageOf[m] = MessageOf[n] => m = n
<1>1. \A n \in DOMAIN tree[d] : /\ FileEntry(n, tree[d][n]) \in EntriesIn(tree, d)
                                 /\ FileEntry(n, tree[d][n]).name = n
  BY DEF EntriesIn, FileEntry
<1>2. DOMAIN tree[d] \subseteq Names
  BY DEF TreeInv
<1>3. OneOfEach(EntriesIn(tree, d))
  BY DEF GoodTree
<1>4. ASSUME NEW m \in DOMAIN tree[d], NEW n \in DOMAIN tree[d],
             MessageOf[m] = MessageOf[n]
      PROVE  m = n
  <2>1. Alike(m, n)
    BY <1>2, <1>4 DEF Alike
  <2>2. QED
    BY <1>1, <1>3, <2>1 DEF OneOfEach
<1>5. QED
  BY <1>1, <1>4

\* One change of the tree, and the event that tells it.
ChangeOf(event) ==
  /\ event \in AllEvents
  /\ pending' = Append(pending, event)
  /\ Effect(tree, event, tree')
  /\ UNCHANGED <<registry, crossed, lost, stray>>

\* A change of the files of a directory.
LEMMA FilesTold ==
  ASSUME TreeInv, GoodTree(tree), NEW d \in DOMAIN tree, NEW files,
         DOMAIN files \subseteq Names, files \in [DOMAIN files -> Versions],
         NEW event \in FileEvents, event.dir = d,
         Change([tree EXCEPT ![d] = files], event), EventShape(event),
         UNCHANGED stray,
         \A m, n \in DOMAIN files : MessageOf[m] = MessageOf[n] => m = n,
         \A m \in Names \ Touched(event) :
           /\ m \in DOMAIN files <=> m \in DOMAIN tree[d]
           /\ m \in DOMAIN files => files[m] = tree[d][m],
         event.kind # "remove" =>
           /\ event.entry.name \in DOMAIN files
           /\ files[event.entry.name] = event.entry.version,
         event.kind = "remove" \/ event.entry.name # event.name =>
           event.name \notin DOMAIN files,
         event.kind = "new" <=> event.name \notin DOMAIN tree[d],
         event.entry.name # event.name => event.entry.name \notin DOMAIN tree[d]
  PROVE  ChangeOf(event)
<1> DEFINE E == EntriesIn(tree, d)
           D == EntriesIn(tree', d)
<1>1. /\ tree' = [tree EXCEPT ![d] = files] /\ pending' = Append(pending, event)
      /\ UNCHANGED <<registry, crossed, lost, stray>>
  BY DEF Change
<1>2. /\ DOMAIN tree' = DOMAIN tree /\ tree'[d] = files
      /\ \A e \in DOMAIN tree \ {d} : tree'[e] = tree[e]
  BY <1>1
<1>3. DOMAIN tree \subseteq Dirs \cup {Top} /\ tree[d] \in [DOMAIN tree[d] -> Versions]
      /\ DOMAIN tree[d] \subseteq Names
  BY DEF TreeInv
<1>4. /\ E \subseteq AllEntries
      /\ \A e \in AllEntries :
           e \in E <=>
             \/ e.kind = "file" /\ e.name \in DOMAIN tree[d] /\ e.version = tree[d][e.name]
             \/ e.kind = "dir" /\ d = Top /\ e.name \in DOMAIN tree \ {Top}
  BY <1>3, EntryIn
<1>5. /\ D \subseteq AllEntries
      /\ \A e \in AllEntries :
           e \in D <=>
             \/ e.kind = "file" /\ e.name \in DOMAIN files /\ e.version = files[e.name]
             \/ e.kind = "dir" /\ d = Top /\ e.name \in DOMAIN tree \ {Top}
  <2>1. DOMAIN tree' \subseteq Dirs \cup {Top} /\ DOMAIN tree'[d] \subseteq Names
        /\ tree'[d] \in [DOMAIN tree'[d] -> Versions]
    BY <1>2, <1>3
  <2> DEFINE of == tree'
  <2>2. DOMAIN of \subseteq Dirs \cup {Top} /\ DOMAIN of[d] \subseteq Names
        /\ of[d] \in [DOMAIN of[d] -> Versions]
    BY <2>1
  <2> HIDE DEF of
  <2>3. /\ EntriesIn(of, d) \subseteq AllEntries
        /\ \A e \in AllEntries :
             e \in EntriesIn(of, d) <=>
               \/ e.kind = "file" /\ e.name \in DOMAIN of[d] /\ e.version = of[d][e.name]
               \/ e.kind = "dir" /\ d = Top /\ e.name \in DOMAIN of \ {Top}
    BY <2>2, EntryIn
  <2>4. QED
    BY <1>2, <2>3 DEF of
<1> HIDE DEF E, D
<1>6. \A e \in AllEntries : /\ e.kind = "file" <=> e.name \in Names
                            /\ e.kind = "dir" <=> e.name \in Dirs
                            /\ e.kind = "file" => e = FileEntry(e.name, e.version)
                            /\ e.kind = "dir" => e = DirEntry(e.name)
  BY NamesAssumption DEF AllEntries, FileEntries, DirEntries, FileEntry, DirEntry
<1>7. /\ event.name \in Names /\ event.entry \in AllEntries
      /\ event.entry.kind = "file" /\ event.entry.name \in Names
  BY DEF FileEvents, FileEntries, AllEntries
<1>8. OneOfEach(D)
  <2> SUFFICES ASSUME NEW e \in D, NEW f \in D, Alike(e.name, f.name) PROVE e = f
    BY DEF OneOfEach
  <2>1. e.name = f.name
    BY <1>5, <1>6 DEF Alike
  <2>2. e.kind = f.kind
    BY <1>5, <1>6, <2>1, NamesAssumption
  <2>3. e.kind = "file" => e.version = f.version
    <3>1. \A g \in D : g.kind = "file" => g.version = files[g.name]
      BY <1>5
    <3>2. ASSUME e.kind = "file" PROVE e.version = f.version
      <4>1. e.version = files[e.name]
        BY <3>1, <3>2
      <4>2. f.version = files[f.name]
        BY <2>2, <3>1, <3>2
      <4>3. QED
        BY <2>1, <4>1, <4>2
    <3>3. QED
      BY <3>2
  <2>4. QED
    BY <1>5, <1>6, <2>1, <2>2, <2>3
<1>9. \A e \in AllEntries : e.name \notin Touched(event) => (e \in E <=> e \in D)
  BY <1>4, <1>5, <1>6
<1>10. Told(event, D)
  <2>1. event.kind # "remove" => event.entry \in D
    BY <1>5, <1>7
  <2>2. event.kind = "remove" \/ event.entry.name # event.name =>
          \A e \in D : e.name # event.name
    BY <1>5, <1>6, <1>7, NamesAssumption
  <2>3. QED
    BY <2>1, <2>2 DEF Told
<1>11. \A n \in Names : (\A e \in E : e.name # n) <=> n \notin DOMAIN tree[d]
  <2>1. \A n \in DOMAIN tree[d] : \E e \in E : e.name = n
    BY EntriesByName DEF E
  <2>2. \A e \in E : e.name \in Names => e.name \in DOMAIN tree[d]
    BY <1>4, <1>6, NamesAssumption
  <2>3. QED
    BY <2>1, <2>2
<1>12. Changes(E, D, event)
  BY <1>5, <1>7, <1>8, <1>9, <1>10, <1>11 DEF Changes
<1>13. ASSUME NEW e \in DOMAIN tree', e # d PROVE EntriesIn(tree', e) = EntriesIn(tree, e)
  BY <1>2, <1>13 DEF EntriesIn
<1>14. event \in AllEvents /\ ~ \E e \in DOMAIN tree' : Removes(event, e)
  <2>1. DOMAIN tree' \cap Names = {}
    BY <1>2, <1>3, NamesAssumption
  <2>2. QED
    BY <1>7, <2>1 DEF AllEvents, Removes
<1>15. Effect(tree, event, tree')
  BY <1>2, <1>12, <1>13, <1>14 DEF Effect, D, E
<1>16. QED
  BY <1>1, <1>14, <1>15 DEF ChangeOf

\* A directory comes to the root, or goes.
LEMMA DirsTold ==
  ASSUME TreeInv, GoodTree(tree), NEW d \in Dirs, NEW newTree, NEW event \in DirEvents,
         Change(newTree, event), UNCHANGED stray, event.dir = Top, event.name = d,
         event.entry = DirEntry(d),
         DOMAIN tree' = IF event.kind = "new" THEN DOMAIN tree \cup {d}
                                              ELSE DOMAIN tree \ {d},
         event.kind = "new" <=> d \notin DOMAIN tree,
         \A e \in DOMAIN tree \ {d} : tree'[e] = tree[e],
         event.kind = "new" => DOMAIN (tree'[d]) = {}
  PROVE  ChangeOf(event)
<1> DEFINE E == EntriesIn(tree, Top)
           D == EntriesIn(tree', Top)
<1>1. /\ pending' = Append(pending, event)
      /\ UNCHANGED <<registry, crossed, lost, stray>>
  BY DEF Change
<1>2. /\ d # Top /\ d \notin Names /\ Top \in DOMAIN tree /\ Top \in DOMAIN tree'
      /\ tree'[Top] = tree[Top]
  BY NamesAssumption DEF TreeInv
<1>3. event.kind \in {"new", "remove"} /\ event.entry.name = d
  BY DEF DirEvents, DirEntry
<1>4. /\ DOMAIN tree \subseteq Dirs \cup {Top} /\ tree[Top] \in [DOMAIN tree[Top] -> Versions]
      /\ DOMAIN tree[Top] \subseteq Names
  BY <1>2 DEF TreeInv
<1>5. /\ E \subseteq AllEntries
      /\ \A e \in AllEntries :
           e \in E <=>
             \/ e.kind = "file" /\ e.name \in DOMAIN tree[Top] /\ e.version = tree[Top][e.name]
             \/ e.kind = "dir" /\ e.name \in DOMAIN tree \ {Top}
  BY <1>4, EntryIn
<1>6. /\ D \subseteq AllEntries
      /\ \A e \in AllEntries :
           e \in D <=>
             \/ e.kind = "file" /\ e.name \in DOMAIN tree[Top] /\ e.version = tree[Top][e.name]
             \/ e.kind = "dir" /\ e.name \in DOMAIN tree' \ {Top}
  <2> DEFINE of == tree'
  <2>1. DOMAIN of \subseteq Dirs \cup {Top} /\ DOMAIN of[Top] \subseteq Names
        /\ of[Top] \in [DOMAIN of[Top] -> Versions] /\ of[Top] = tree[Top]
    BY <1>2, <1>4
  <2> HIDE DEF of
  <2>2. /\ EntriesIn(of, Top) \subseteq AllEntries
        /\ \A e \in AllEntries :
             e \in EntriesIn(of, Top) <=>
               \/ e.kind = "file" /\ e.name \in DOMAIN of[Top] /\ e.version = of[Top][e.name]
               \/ e.kind = "dir" /\ e.name \in DOMAIN of \ {Top}
    BY <2>1, EntryIn
  <2>3. QED
    BY <2>1, <2>2 DEF of
<1> HIDE DEF E, D
<1>7. \A e \in AllEntries : /\ e.kind = "file" => e.name \in Names
                            /\ e.kind = "dir" => e.name \in Dirs /\ e = DirEntry(e.name)
                            /\ e.kind \in {"file", "dir"}
  BY DEF AllEntries, FileEntries, DirEntries, DirEntry
<1>8. \A n \in DOMAIN tree' : n # d => n \in DOMAIN tree
  OBVIOUS
<1>9. \A n \in DOMAIN tree : n # d => n \in DOMAIN tree'
  OBVIOUS
<1>10. \A e \in AllEntries : e.name # d => (e \in E <=> e \in D)
  BY <1>5, <1>6, <1>8, <1>9
<1>11. event.entry \in AllEntries /\ event.entry.kind = "dir"
  BY DEF DirEvents, AllEntries, DirEntry
<1>12. event.entry \in E <=> d \in DOMAIN tree
  BY <1>2, <1>3, <1>5, <1>11
<1>13. event.entry \in D <=> d \in DOMAIN tree'
  BY <1>2, <1>3, <1>6, <1>11
<1>14. \A e \in AllEntries : e \in E \cup D /\ e.name = d => e = event.entry
  BY <1>2, <1>4, <1>5, <1>6, <1>7
<1>15. OneOfEach(E)
  BY <1>2 DEF GoodTree, E
<1>16. OneOfEach(D)
  <2> SUFFICES ASSUME NEW e \in D, NEW f \in D, Alike(e.name, f.name) PROVE e = f
    BY DEF OneOfEach
  <2>1. CASE e.name # d /\ f.name # d
    <3>1. e \in E /\ f \in E
      BY <1>6, <1>10, <2>1
    <3>2. QED
      BY <1>15, <3>1 DEF OneOfEach
  <2>2. CASE e.name = d \/ f.name = d
    <3>1. e.name = d /\ f.name = d
      BY <1>2, <2>2 DEF Alike
    <3>2. QED
      BY <1>6, <1>14, <3>1
  <2>3. QED
    BY <2>1, <2>2
<1>17. d \in DOMAIN tree' <=> event.kind = "new"
  OBVIOUS
<1>18. Told(event, D)
  <2>1. event.kind = "remove" => \A e \in D : e.name # d
    BY <1>6, <1>13, <1>14, <1>17
  <2>2. QED
    BY <1>3, <1>13, <1>17, <2>1 DEF Told
<1>19. event.kind = "new" <=> \A e \in E : e.name # d
  BY <1>3, <1>5, <1>12, <1>14
<1>20. EventShape(event)
  BY <1>3, <1>11 DEF EventShape, Alike
<1>21. Changes(E, D, event)
  BY <1>3, <1>6, <1>10, <1>16, <1>18, <1>19, <1>20 DEF Changes, Touched
<1>22. ASSUME NEW e \in DOMAIN tree', e # Top, e # d
       PROVE  e \in DOMAIN tree /\ EntriesIn(tree', e) = EntriesIn(tree, e)
  BY <1>8, <1>22 DEF EntriesIn
<1>23. d \in DOMAIN tree' =>
         d \notin DOMAIN tree /\ EntriesIn(tree', d) = {} /\ event.kind = "new"
  BY <1>2, <1>17 DEF EntriesIn
<1>24. \A e : e \in DOMAIN tree \ DOMAIN tree' => Removes(event, e)
  BY <1>3, <1>9, <1>17 DEF Removes
<1>25. \A e \in DOMAIN tree' : ~Removes(event, e)
  BY <1>17 DEF Removes
<1>26. event \in AllEvents
  BY DEF AllEvents
<1>27. ASSUME NEW e \in DOMAIN tree'
       PROVE  \/ /\ e \in DOMAIN tree /\ e # event.dir
                 /\ EntriesIn(tree', e) = EntriesIn(tree, e)
              \/ /\ e \in DOMAIN tree /\ e = event.dir
                 /\ Changes(EntriesIn(tree, e), EntriesIn(tree', e), event)
              \/ /\ e \notin DOMAIN tree /\ event.kind = "new" /\ event.dir = Top
                 /\ event.name = e /\ EntriesIn(tree', e) = {}
  <2>1. CASE e = Top
    BY <1>2, <1>21, <2>1 DEF E, D
  <2>2. CASE e = d
    BY <1>23, <2>2
  <2>3. CASE e # Top /\ e # d
    BY <1>22, <2>3
  <2>4. QED
    BY <2>1, <2>2, <2>3
<1>28. Effect(tree, event, tree')
  BY <1>2, <1>24, <1>25, <1>27 DEF Effect
<1>29. QED
  BY <1>1, <1>26, <1>28 DEF ChangeOf

\* Each change of the tree is one that its event tells.
LEMMA ProducersTold ==
  ASSUME TreeInv, GoodTree(tree), Producers, ~stray'
  PROVE  \E event \in AllEvents : ChangeOf(event)
<1> USE DEF Touched
<1>1. ASSUME NEW d \in DOMAIN tree, NEW n \in Names, NEW v \in Versions,
             PutFile(d, n, v)
      PROVE  \E event \in AllEvents : ChangeOf(event)
  <2> DEFINE files == [m \in DOMAIN tree[d] \cup {n} |-> IF m = n THEN v ELSE tree[d][m]]
             event == Event("new", d, n, FileEntry(n, v))
  <2>1. /\ Change([tree EXCEPT ![d] = files], event) /\ UNCHANGED stray
        /\ \A m \in DOMAIN tree[d] : MessageOf[m] # MessageOf[n]
    BY <1>1 DEF PutFile
  <2>2. /\ event \in FileEvents /\ event.dir = d /\ event.kind = "new"
        /\ event.name = n /\ event.entry.name = n /\ event.entry.version = v
    BY DEF TreeInv, Event, FileEntry, FileEvents, FileEntries
  <2>3. EventShape(event)
    BY <2>2 DEF EventShape, FileEvents, AllEntries, Alike
  <2>4. DOMAIN tree[d] \subseteq Names /\ tree[d] \in [DOMAIN tree[d] -> Versions]
    BY DEF TreeInv
  <2>5. /\ DOMAIN files = DOMAIN tree[d] \cup {n} /\ files \in [DOMAIN files -> Versions]
        /\ DOMAIN files \subseteq Names /\ files[n] = v
        /\ \A m \in DOMAIN tree[d] \ {n} : files[m] = tree[d][m]
    BY <2>4
  <2>6. \A k, m \in DOMAIN tree[d] : MessageOf[k] = MessageOf[m] => k = m
    BY EntriesByName
  <2> HIDE DEF files, event
  <2>7. \A k, m \in DOMAIN files : MessageOf[k] = MessageOf[m] => k = m
    BY <2>1, <2>5, <2>6
  <2>8. n \notin DOMAIN tree[d]
    BY <2>1
  <2>9. ChangeOf(event)
    BY <2>1, <2>2, <2>3, <2>5, <2>7, <2>8, FilesTold
  <2>10. QED
    BY <2>2, <2>9 DEF AllEvents
<1>2. ASSUME NEW d \in DOMAIN tree, NEW n \in Names, NEW m \in Names,
             NEW v \in Versions, UpdateFile(d, n, m, v)
      PROVE  \E event \in AllEvents : ChangeOf(event)
  <2> DEFINE files == [k \in (DOMAIN tree[d] \ {n}) \cup {m} |->
                         IF k = m THEN v ELSE tree[d][k]]
             event == Event("update", d, n, FileEntry(m, v))
  <2>1. /\ Change([tree EXCEPT ![d] = files], event) /\ UNCHANGED stray
        /\ n \in DOMAIN tree[d] /\ MessageOf[m] = MessageOf[n]
    BY <1>2 DEF UpdateFile
  <2>2. /\ event \in FileEvents /\ event.dir = d /\ event.kind = "update"
        /\ event.name = n /\ event.entry.name = m /\ event.entry.version = v
    BY DEF TreeInv, Event, FileEntry, FileEvents, FileEntries
  <2>3. EventShape(event)
    BY <2>1, <2>2 DEF EventShape, FileEvents, AllEntries, Alike
  <2>4. DOMAIN tree[d] \subseteq Names /\ tree[d] \in [DOMAIN tree[d] -> Versions]
    BY DEF TreeInv
  <2>5. /\ DOMAIN files = (DOMAIN tree[d] \ {n}) \cup {m}
        /\ files \in [DOMAIN files -> Versions]
        /\ DOMAIN files \subseteq Names /\ files[m] = v
        /\ \A k \in DOMAIN files \ {m} : files[k] = tree[d][k]
    BY <2>4
  <2>6. \A k, l \in DOMAIN tree[d] : MessageOf[k] = MessageOf[l] => k = l
    BY EntriesByName
  <2> HIDE DEF files, event
  <2>7. \A k, l \in DOMAIN files : MessageOf[k] = MessageOf[l] => k = l
    BY <2>1, <2>5, <2>6
  <2>8. m # n => m \notin DOMAIN tree[d] /\ n \notin DOMAIN files
    BY <2>1, <2>5, <2>6
  <2>9. ChangeOf(event)
    BY <2>1, <2>2, <2>3, <2>5, <2>7, <2>8, FilesTold
  <2>10. QED
    BY <2>2, <2>9 DEF AllEvents
<1>3. ASSUME NEW d \in DOMAIN tree, NEW n \in Names, RemoveFile(d, n)
      PROVE  \E event \in AllEvents : ChangeOf(event)
  <2> DEFINE files == Restrict(tree[d], DOMAIN tree[d] \ {n})
             event == Event("remove", d, n, FileEntry(n, tree[d][n]))
  <2>1. /\ Change([tree EXCEPT ![d] = files], event) /\ UNCHANGED stray
        /\ n \in DOMAIN tree[d]
    BY <1>3 DEF RemoveFile
  <2>2. DOMAIN tree[d] \subseteq Names /\ tree[d] \in [DOMAIN tree[d] -> Versions]
    BY DEF TreeInv
  <2>3. /\ event \in FileEvents /\ event.dir = d /\ event.kind = "remove"
        /\ event.name = n /\ event.entry.name = n
    BY <2>1, <2>2 DEF TreeInv, Event, FileEntry, FileEvents, FileEntries
  <2>4. EventShape(event)
    BY <2>3 DEF EventShape, FileEvents, AllEntries, Alike
  <2>5. /\ DOMAIN files = DOMAIN tree[d] \ {n} /\ files \in [DOMAIN files -> Versions]
        /\ DOMAIN files \subseteq Names
        /\ \A k \in DOMAIN files : files[k] = tree[d][k]
    BY <2>2 DEF Restrict
  <2>6. \A k, l \in DOMAIN tree[d] : MessageOf[k] = MessageOf[l] => k = l
    BY EntriesByName
  <2> HIDE DEF files, event
  <2>7. \A k, l \in DOMAIN files : MessageOf[k] = MessageOf[l] => k = l
    BY <2>5, <2>6
  <2>8. ChangeOf(event)
    BY <2>1, <2>3, <2>4, <2>5, <2>7, FilesTold
  <2>9. QED
    BY <2>3, <2>8 DEF AllEvents
<1>4. ASSUME NEW d \in Dirs, CreateDir(d) PROVE \E event \in AllEvents : ChangeOf(event)
  <2> DEFINE newTree == [e \in DOMAIN tree \cup {d} |-> IF e = d THEN <<>> ELSE tree[e]]
             event   == Event("new", Top, d, DirEntry(d))
  <2>1. Change(newTree, event) /\ d \notin DOMAIN tree /\ UNCHANGED stray
    BY <1>4 DEF CreateDir
  <2>2. /\ event \in DirEvents /\ event.dir = Top /\ event.kind = "new"
        /\ event.name = d /\ event.entry = DirEntry(d)
    BY DEF Event, DirEntry, DirEvents, DirEntries
  <2>3. /\ DOMAIN tree' = DOMAIN tree \cup {d} /\ tree'[d] = <<>>
        /\ \A e \in DOMAIN tree : tree'[e] = tree[e]
    BY <2>1 DEF Change
  <2> HIDE DEF event
  <2>4. DOMAIN (tree'[d]) = {}
    BY <2>3
  <2> HIDE DEF newTree
  <2>5. ChangeOf(event)
    BY <2>1, <2>2, <2>3, <2>4, DirsTold
  <2>6. QED
    BY <2>2, <2>5 DEF AllEvents
<1>5. ASSUME NEW d \in Dirs, RemoveDir(d) PROVE \E event \in AllEvents : ChangeOf(event)
  <2> DEFINE newTree == Restrict(tree, DOMAIN tree \ {d})
             event   == Event("remove", Top, d, DirEntry(d))
  <2>1. Change(newTree, event) /\ d \in DOMAIN tree /\ UNCHANGED stray
    BY <1>5 DEF RemoveDir
  <2>2. /\ event \in DirEvents /\ event.dir = Top /\ event.kind = "remove"
        /\ event.name = d /\ event.entry = DirEntry(d)
    BY DEF Event, DirEntry, DirEvents, DirEntries
  <2>3. /\ DOMAIN tree' = DOMAIN tree \ {d}
        /\ \A e \in DOMAIN tree \ {d} : tree'[e] = tree[e]
    BY <2>1 DEF Change, Restrict
  <2> HIDE DEF event, newTree
  <2>4. ChangeOf(event)
    BY <2>1, <2>2, <2>3, DirsTold
  <2>5. QED
    BY <2>2, <2>4 DEF AllEvents
<1>6. \A d \in DOMAIN tree, n, m \in Names, v \in Versions : ~UpdateNothing(d, n, m, v)
  BY DEF UpdateNothing
<1>7. QED
  BY <1>1, <1>2, <1>3, <1>4, <1>5, <1>6 DEF Producers

LEMMA InitGood == Init => GoodTree(tree)
<1> SUFFICES ASSUME Init PROVE GoodTree(tree)
  OBVIOUS
<1>1. DOMAIN <<>> = {} /\ DOMAIN tree = {Top} /\ TreeInv
  <2>1. TreeInv
    BY InitIInv DEF IInv
  <2>2. DOMAIN tree = {Top}
    BY DEF Init
  <2>3. QED
    BY <2>1, <2>2
<1>2. tree[Top] \in {<<>>} \cup UNION {[{n} -> Versions] : n \in Names}
  BY DEF Init
<1>3. \A m, n \in DOMAIN tree[Top] : m = n
  <2>1. CASE tree[Top] = <<>>
    BY <1>1, <2>1
  <2>2. CASE tree[Top] \in UNION {[{n} -> Versions] : n \in Names}
    <3>1. PICK n \in Names : tree[Top] \in [{n} -> Versions]
      BY <2>2
    <3>2. DOMAIN tree[Top] = {n}
      BY <3>1
    <3>3. QED
      BY <3>2
  <2>3. QED
    BY <1>2, <2>1, <2>2
<1>4. EntriesIn(tree, Top) \subseteq AllEntries
  BY <1>1, EntryIn DEF TreeInv
<1>5. EntriesIn(tree, Top) = {FileEntry(n, tree[Top][n]) : n \in DOMAIN tree[Top]}
  BY <1>1 DEF EntriesIn
<1>6. \A e, f \in EntriesIn(tree, Top) : e = f
  BY <1>3, <1>5
<1>7. QED
  BY <1>1, <1>4, <1>6 DEF GoodTree, OneOfEach

-----------------------------------------------------------------------------
(* The trees that there were *)

\* The tree before each event that waits, and the tree after them all.
IsHistory(ts) ==
  /\ DOMAIN ts = 1..(Len(pending) + 1)
  /\ ts[Len(pending) + 1] = tree
  /\ \A k \in 1..(Len(pending) + 1) : GoodTree(ts[k])
  /\ \A k \in 1..Len(pending) : Effect(ts[k], pending[k], ts[k + 1])

LEMMA HistoryStarts ==
  ASSUME pending = <<>>, GoodTree(tree)
  PROVE  \E ts : IsHistory(ts) /\ ts[1] = tree
<1> DEFINE ts == [k \in 1..1 |-> tree]
<1>1. Len(pending) = 0
  OBVIOUS
<1>2. ts[1] = tree /\ DOMAIN ts = 1..(Len(pending) + 1)
  BY <1>1
<1>3. \A k \in 1..(Len(pending) + 1) : k = 1
  BY <1>1
<1>4. \A k \in 1..Len(pending) : FALSE
  BY <1>1
<1> HIDE DEF ts
<1>5. IsHistory(ts)
  BY <1>1, <1>2, <1>3, <1>4 DEF IsHistory
<1>6. QED
  BY <1>2, <1>5

\* A change of the tree adds one.
LEMMA HistoryGrows ==
  ASSUME IInv, NEW ts, IsHistory(ts), NEW event, ChangeOf(event), GoodTree(tree')
  PROVE  \E us : /\ IsHistory(us)' /\ DOMAIN ts \subseteq DOMAIN us
                 /\ \A k \in DOMAIN ts : us[k] = ts[k]
<1> DEFINE n == Len(pending) + 1
<1>1. PICK new : new = tree'
  OBVIOUS
<1>0. PICK us : us = [k \in 1..(n + 1) |-> IF k = n + 1 THEN new ELSE ts[k]]
  OBVIOUS
<1>2. /\ pending \in Seq(AllEvents) /\ pending' = Append(pending, event)
      /\ Effect(tree, event, new) /\ GoodTree(new)
  BY <1>1 DEF IInv, PendingInv, ChangeOf
<1>3. /\ n \in Nat /\ n >= 1 /\ Len(pending') = n /\ pending'[n] = event
      /\ \A k \in 1..(n - 1) : pending'[k] = pending[k]
      /\ Len(pending) = n - 1
  BY <1>2
<1>4. /\ DOMAIN ts = 1..n /\ ts[n] = tree
      /\ \A k \in 1..n : GoodTree(ts[k])
      /\ \A k \in 1..(n - 1) : Effect(ts[k], pending[k], ts[k + 1])
  BY <1>3 DEF IsHistory
<1> HIDE DEF n
<1>5. /\ DOMAIN us = 1..(n + 1) /\ us[n + 1] = new
      /\ \A k \in 1..n : k \in DOMAIN us /\ us[k] = ts[k]
  BY <1>0, <1>3
<1>6. \A k \in 1..(n + 1) : GoodTree(us[k])
  <2>1. \A k \in 1..(n + 1) : k \in 1..n \/ k = n + 1
    BY <1>3
  <2>2. QED
    BY <1>2, <1>4, <1>5, <2>1
<1>7. ASSUME NEW k \in 1..n PROVE Effect(us[k], pending'[k], us[k + 1])
  <2>1. CASE k = n
    BY <1>2, <1>3, <1>4, <1>5, <2>1
  <2>2. CASE k # n
    <3>1. k \in 1..(n - 1) /\ k + 1 \in 1..n
      BY <1>3, <2>2
    <3>2. QED
      BY <1>3, <1>4, <1>5, <3>1
  <2>3. QED
    BY <2>1, <2>2
<1>8. IsHistory(us)'
  BY <1>1, <1>3, <1>5, <1>6, <1>7 DEF IsHistory
<1>9. QED
  BY <1>4, <1>5, <1>8

\* A dispatch leaves the first one behind.
LEMMA HistoryShifts ==
  ASSUME IInv, NEW ts, IsHistory(ts), Dispatch
  PROVE  \E us : /\ IsHistory(us)'
                 /\ \A k \in DOMAIN us : k + 1 \in DOMAIN ts /\ us[k] = ts[k + 1]
                 /\ \A k \in DOMAIN ts : k = 1 \/ (k - 1 \in DOMAIN us /\ us[k - 1] = ts[k])
                 /\ 1 \in DOMAIN us /\ 1 \in DOMAIN ts
                 /\ GoodTree(ts[1]) /\ GoodTree(us[1])
                 /\ Effect(ts[1], Head(pending), us[1])
<1> DEFINE n  == Len(pending)
<1>0. PICK us : us = [k \in 1..n |-> ts[k + 1]]
  OBVIOUS
<1>1. /\ pending # <<>> /\ pending \in Seq(AllEvents) /\ pending' = Tail(pending)
      /\ tree' = tree
  BY DEF Dispatch, IInv, PendingInv, producers
<1>2. /\ n \in Nat /\ n >= 1 /\ Len(pending') = n - 1 /\ Head(pending) = pending[1]
      /\ \A k \in 1..(n - 1) : pending'[k] = pending[k + 1]
  BY <1>1
<1>3. /\ DOMAIN ts = 1..(n + 1) /\ ts[n + 1] = tree
      /\ \A k \in 1..(n + 1) : GoodTree(ts[k])
      /\ \A k \in 1..n : Effect(ts[k], pending[k], ts[k + 1])
  BY DEF IsHistory
<1>4. DOMAIN us = 1..n /\ \A k \in 1..n : us[k] = ts[k + 1]
  BY <1>0
<1> HIDE DEF n
<1>5. \A k \in 1..n : k + 1 \in 1..(n + 1)
  BY <1>2
<1>6. /\ us[(n - 1) + 1] = tree /\ 1..((n - 1) + 1) = 1..n
      /\ 1 \in 1..n /\ 1 \in 1..(n + 1) /\ 1 + 1 = 2
  <2>1. (n - 1) + 1 = n /\ n \in 1..n
    BY <1>2
  <2>2. QED
    BY <1>2, <1>3, <1>4, <2>1
<1>7. \A k \in 1..(n + 1) : k = 1 \/ (k - 1 \in 1..n /\ us[k - 1] = ts[k])
  <2> SUFFICES ASSUME NEW k \in 1..(n + 1), k # 1
               PROVE  k - 1 \in 1..n /\ us[k - 1] = ts[k]
    OBVIOUS
  <2>1. k - 1 \in 1..n /\ (k - 1) + 1 = k
    BY <1>2
  <2>2. QED
    BY <1>4, <2>1
<1>8. ASSUME NEW k \in 1..(n - 1) PROVE Effect(us[k], pending'[k], us[k + 1])
  <2>1. k \in 1..n /\ k + 1 \in 1..n
    BY <1>2
  <2>2. us[k] = ts[k + 1] /\ us[k + 1] = ts[(k + 1) + 1] /\ pending'[k] = pending[k + 1]
    BY <1>2, <1>4, <2>1
  <2>3. QED
    BY <1>3, <2>1, <2>2
<1>9. \A k \in 1..n : GoodTree(us[k])
  BY <1>3, <1>4, <1>5
<1>10. IsHistory(us)'
  BY <1>1, <1>2, <1>4, <1>6, <1>8, <1>9 DEF IsHistory
<1>11. Effect(ts[1], Head(pending), us[1])
  BY <1>2, <1>3, <1>4, <1>6
<1>12. QED
  BY <1>3, <1>4, <1>5, <1>6, <1>7, <1>9, <1>10, <1>11

\* A directory that no waiting event is about, and that is not removed, was
\* what it is all the time.
LEMMA SteadyDirs ==
  ASSUME IInv, NEW ts, IsHistory(ts), NEW d, d \in DOMAIN ts[1],
         \A k \in DOMAIN pending : pending[k].dir # d /\ ~Removes(pending[k], d)
  PROVE  d \in DOMAIN tree /\ EntriesIn(tree, d) = EntriesIn(ts[1], d)
<1> DEFINE n     == Len(pending) + 1
           Same(k) == d \in DOMAIN ts[k] /\ EntriesIn(ts[k], d) = EntriesIn(ts[1], d)
           other == {k \in 1..n : ~Same(k)}
<1>1. /\ n \in Nat /\ n >= 1 /\ DOMAIN pending = 1..(n - 1) /\ Len(pending) = n - 1
  BY DEF IInv, PendingInv
<1>2. ts[n] = tree /\ \A k \in 1..(n - 1) : Effect(ts[k], pending[k], ts[k + 1])
  BY <1>1 DEF IsHistory
<1> HIDE DEF n
<1>3. SUFFICES ASSUME other # {} PROVE FALSE
  <2>1. n \in 1..n
    BY <1>1
  <2>2. QED
    BY <1>2, <1>3, <2>1
<1>4. PICK k \in other : \A l \in other : k <= l
  <2>1. other \subseteq Nat
    BY <1>1
  <2> HIDE DEF other
  <2>2. QED
    BY <1>3, <2>1, NatMin
<1>5. k # 1
  BY <1>4
<1>6. k - 1 \in 1..(n - 1) /\ k - 1 \in 1..n /\ (k - 1) + 1 = k /\ ~(k <= k - 1)
  BY <1>1, <1>4, <1>5
<1>7. Same(k - 1)
  BY <1>4, <1>6
<1>8. Effect(ts[k - 1], pending[k - 1], ts[k])
  BY <1>2, <1>6
<1>9. d # pending[k - 1].dir /\ ~Removes(pending[k - 1], d)
  BY <1>1, <1>6
<1>10. Same(k)
  BY <1>7, <1>8, <1>9 DEF Effect
<1>11. QED
  BY <1>4, <1>10

-----------------------------------------------------------------------------
(* What an event does to the registry *)

\* Children and PathOf, of a registry f.
KidsOf(f, p) == {i \in DOMAIN f : f[i].parent = p}

PathIn(f, p) == IF p = Root THEN Top ELSE f[p].entry.name

\* Item i, the latest one, comes under p.
AddsKid(p, entry, i) ==
  /\ i = lastInode + 1 /\ i \notin DOMAIN inodes
  /\ DOMAIN inodes' = DOMAIN inodes \cup {i}
  /\ inodes'[i].parent = p /\ inodes'[i].entry = entry
  /\ \A j \in DOMAIN inodes : inodes'[j] = inodes[j]
  /\ \A q : KidsOf(inodes', q) = IF q = p THEN KidsOf(inodes, q) \cup {i}
                                          ELSE KidsOf(inodes, q)
  /\ contentRead' = contentRead

\* The file i under p has another entry.
ReplacesKid(p, entry, i) ==
  /\ i \in KidsOf(inodes, p) /\ inodes[i].entry.kind = "file"
  /\ DOMAIN inodes' = DOMAIN inodes
  /\ inodes'[i].parent = p /\ inodes'[i].entry = entry
  /\ \A j \in DOMAIN inodes \ {i} : inodes'[j] = inodes[j]
  /\ \A q : KidsOf(inodes', q) = KidsOf(inodes, q)
  /\ contentRead' = contentRead

\* Item i under p goes, with what is below it.
RemovesKid(p, i) ==
  /\ i \in KidsOf(inodes, p)
  /\ DOMAIN inodes' = DOMAIN inodes \ WithChildren(i)
  /\ \A j \in DOMAIN inodes' : inodes'[j] = inodes[j]
  /\ \A q \in {Root} \cup DOMAIN inodes' : KidsOf(inodes', q) = KidsOf(inodes, q) \ {i}
  /\ contentRead' = contentRead \ {i}

\* The event w of the directory with inode p, i being its child of that name.
Applied(w, p, i) ==
  \/ /\ w.kind = "new" \/ (w.kind = "update" /\ i = NoInode)
     /\ p # NoInode /\ p \in contentRead
     /\ AddsKid(p, w.entry, lastInode + 1)
  \/ /\ w.kind = "update" /\ i # NoInode
     /\ p # NoInode /\ p \in contentRead
     /\ ReplacesKid(p, w.entry, i)
  \/ /\ w.kind = "remove" /\ i # NoInode
     /\ p # NoInode /\ p \in contentRead
     /\ RemovesKid(p, i)
  \/ /\ UNCHANGED <<inodes, contentRead>>
     /\ IF w.kind = "remove" THEN i = NoInode ELSE p = NoInode \/ p \notin contentRead

LEMMA ApplyApplied ==
  ASSUME IInv, NEW w \in AllEvents, Apply(w), NEW p, p = DirInode(w.dir),
         NEW i, i = IF p = NoInode THEN NoInode ELSE Child(p, w.name)
  PROVE  /\ Applied(w, p, i)
         /\ i # NoInode => i \in KidsOf(inodes, p) /\ inodes[i].entry.name = w.name
<1>1. i # NoInode => /\ i \in DOMAIN inodes /\ inodes[i].parent = p
                     /\ inodes[i].entry.name = w.name /\ p # NoInode
  BY ChildFound DEF IInv, Children
<1>2. /\ lastInode \in Nat /\ lastInode + 1 \notin DOMAIN inodes
      /\ Root \notin DOMAIN inodes
  BY DEF IInv, RegistryInv, Root
<1>3. i # NoInode => p \in contentRead
  BY <1>1 DEF IInv, InodesConnected
<1>4. CASE ReadDir(p) /\ AddSubitem(p, w.entry)
           /\ (w.kind = "new" \/ (w.kind = "update" /\ i = NoInode))
  <2> DEFINE n == lastInode + 1
  <2>1. /\ n \notin DOMAIN inodes /\ contentRead' = contentRead
        /\ inodes' = [j \in DOMAIN inodes \cup {n} |->
                        IF j = n THEN Item(n, n, p, w.entry) ELSE inodes[j]]
    BY <1>2, <1>4 DEF AddSubitem, NewInode
  <2>2. /\ DOMAIN inodes' = DOMAIN inodes \cup {n}
        /\ inodes'[n].parent = p /\ inodes'[n].entry = w.entry
        /\ \A j \in DOMAIN inodes : inodes'[j] = inodes[j]
    BY <2>1 DEF Item
  <2> HIDE DEF n
  <2>3. \A q : KidsOf(inodes', q) = IF q = p THEN KidsOf(inodes, q) \cup {n}
                                             ELSE KidsOf(inodes, q)
    BY <2>1, <2>2 DEF KidsOf
  <2>4. AddsKid(p, w.entry, n)
    BY <2>1, <2>2, <2>3 DEF AddsKid, n
  <2>5. QED
    BY <1>1, <1>4, <2>4 DEF Applied, ReadDir, KidsOf, n
<1>5. CASE w.kind = "update" /\ ReadDir(p) /\ i # NoInode /\ UpdateSubitem(p, i, w.entry)
  <2>1. (DOMAIN inodes \ {i}) \cup {i} = DOMAIN inodes
    BY <1>1, <1>5
  <2>2. /\ contentRead' = contentRead
        /\ inodes' = [j \in DOMAIN inodes |->
                        IF j = i THEN Item(j, lastInode + 1, p, w.entry) ELSE inodes[j]]
    BY <1>5, <2>1 DEF UpdateSubitem, KeepsInode, NewInode
  <2>3. /\ DOMAIN inodes' = DOMAIN inodes
        /\ inodes'[i].parent = p /\ inodes'[i].entry = w.entry
        /\ \A j \in DOMAIN inodes \ {i} : inodes'[j] = inodes[j]
    BY <1>1, <1>5, <2>2 DEF Item
  <2>4. \A q : KidsOf(inodes', q) = KidsOf(inodes, q)
    BY <1>1, <1>5, <2>3 DEF KidsOf
  <2>5. inodes[i].entry.kind = "file"
    <3>1. w.name \in Names
      BY <1>5 DEF AllEvents, FileEvents, DirEvents
    <3>2. QED
      BY <1>1, <1>5, <3>1, KindByName DEF IInv
  <2>6. ReplacesKid(p, w.entry, i)
    BY <1>1, <1>5, <2>2, <2>3, <2>4, <2>5 DEF ReplacesKid, KidsOf
  <2>7. QED
    BY <1>1, <1>5, <2>6 DEF Applied, ReadDir, KidsOf
<1>6. CASE w.kind = "remove" /\ i # NoInode /\ RemoveItem(i)
  <2>1. /\ inodes' = Restrict(inodes, DOMAIN inodes \ WithChildren(i))
        /\ contentRead' = contentRead \ {i}
    BY <1>6 DEF RemoveItem
  <2>2. /\ DOMAIN inodes' = DOMAIN inodes \ WithChildren(i)
        /\ \A j \in DOMAIN inodes' : inodes'[j] = inodes[j]
    BY <2>1 DEF Restrict
  <2>3. ASSUME NEW q \in {Root} \cup DOMAIN inodes'
        PROVE  KidsOf(inodes', q) = KidsOf(inodes, q) \ {i}
    <3>1. q = Root \/ (q # i /\ q \notin Children(i))
      BY <2>2 DEF WithChildren, Descendants
    <3>2. i # Root /\ Root \notin Children(i)
      BY <1>1, <1>2, <1>6 DEF Children
    <3>3. q # i /\ q \notin Children(i)
      BY <3>1, <3>2
    <3>4. \A j \in KidsOf(inodes, q) : j \in WithChildren(i) => j = i
      BY <3>3 DEF WithChildren, Descendants, Children, KidsOf
    <3>5. i \in WithChildren(i)
      BY DEF WithChildren
    <3>6. QED
      BY <2>2, <3>4, <3>5 DEF KidsOf
  <2>4. RemovesKid(p, i)
    BY <1>1, <1>6, <2>1, <2>2, <2>3 DEF RemovesKid, KidsOf
  <2>5. QED
    BY <1>1, <1>3, <1>6, <2>4 DEF Applied, KidsOf
<1>7. CASE /\ UNCHANGED <<inodes, contentRead>>
           /\ IF w.kind = "remove" THEN i = NoInode ELSE ~ReadDir(p)
  BY <1>1, <1>7 DEF Applied, ReadDir, KidsOf
<1>8. QED
  BY <1>4, <1>5, <1>6, <1>7 DEF Apply, registry

\* The entries E of the directory with inode p come under it, each once.
ReadsInto(p, E) ==
  /\ p \notin contentRead /\ contentRead' = contentRead \cup {p}
  /\ DOMAIN inodes' = DOMAIN inodes \cup KidsOf(inodes', p)
  /\ \A j \in DOMAIN inodes : inodes'[j] = inodes[j]
  /\ \A j \in KidsOf(inodes', p) :
       j \in Nat /\ j > lastInode /\ j \notin DOMAIN inodes /\ inodes'[j].entry \in E
  /\ \A e \in E : \E j \in KidsOf(inodes', p) : inodes'[j].entry = e
  /\ \A i, j \in KidsOf(inodes', p) : inodes'[i].entry = inodes'[j].entry => i = j
  /\ \A q : q # p => KidsOf(inodes', q) = KidsOf(inodes, q)

LEMMA ContentReadsInto ==
  ASSUME IInv, NEW p, ReadDirContent(p)
  PROVE  ReadsInto(p, EntriesIn(tree, PathOf(p))) /\ PathOf(p) \in DOMAIN tree
<1> DEFINE d       == PathOf(p)
           S       == Entries(d)
           n       == Cardinality(S)
           entries == SetToSeq(S)
           new     == (lastInode + 1)..(lastInode + Len(entries))
<1>1. /\ d \in DOMAIN tree /\ p \notin contentRead
      /\ inodes' = [i \in DOMAIN inodes \cup new |->
                      IF i \in new THEN Item(i, i, p, entries[i - lastInode])
                                   ELSE inodes[i]]
      /\ contentRead' = contentRead \cup {p}
  BY DEF ReadDirContent
<1>2. IsFiniteSet(S) /\ S = EntriesIn(tree, d)
  <2>1. S = EntriesIn(tree, d)
    BY DEF Entries, EntriesIn
  <2>2. IsFiniteSet(S)
    BY <1>1, EntriesAreEntries DEF IInv
  <2>3. QED
    BY <2>1, <2>2
<1>3. /\ entries \in [1..n -> S] /\ n \in Nat
      /\ \A k, l \in 1..n : entries[k] = entries[l] => k = l
      /\ \A e \in S : \E k \in 1..n : entries[k] = e
  <2> HIDE DEF S
  <2>1. QED
    BY <1>2, EachOnce
<1> HIDE DEF entries, n, S
<1>4. new = (lastInode + 1)..(lastInode + n) /\ lastInode \in Nat
  BY <1>3 DEF IInv, RegistryInv
<1>5. \A i \in new : i \in Nat /\ i > lastInode /\ i \notin DOMAIN inodes /\ i - lastInode \in 1..n
  BY <1>3, <1>4 DEF IInv, RegistryInv, Root
<1>6. \A k \in 1..n : lastInode + k \in new /\ (lastInode + k) - lastInode = k
  BY <1>3, <1>4
<1>7. \A i, j \in new : i - lastInode = j - lastInode => i = j
  BY <1>4, <1>5
<1> HIDE DEF new
<1>8. /\ DOMAIN inodes' = DOMAIN inodes \cup new
      /\ \A j \in DOMAIN inodes : inodes'[j] = inodes[j]
      /\ \A j \in new : inodes'[j].parent = p /\ inodes'[j].entry = entries[j - lastInode]
  BY <1>1, <1>5 DEF Item
<1>9. \A j \in DOMAIN inodes : inodes[j].parent # p
  BY <1>1 DEF IInv, InodesConnected
<1>10. KidsOf(inodes', p) = new
  BY <1>8, <1>9 DEF KidsOf
<1>11. \A q : q # p => KidsOf(inodes', q) = KidsOf(inodes, q)
  BY <1>8 DEF KidsOf
<1>12. \A e \in S : \E j \in new : inodes'[j].entry = e
  <2> SUFFICES ASSUME NEW e \in S PROVE \E j \in new : inodes'[j].entry = e
    OBVIOUS
  <2>1. PICK k \in 1..n : entries[k] = e
    BY <1>3
  <2>2. lastInode + k \in new /\ inodes'[lastInode + k].entry = entries[(lastInode + k) - lastInode]
    BY <1>6, <1>8
  <2>3. QED
    BY <1>6, <2>1, <2>2
<1>13. \A i, j \in new : inodes'[i].entry = inodes'[j].entry => i = j
  <2> SUFFICES ASSUME NEW i \in new, NEW j \in new, inodes'[i].entry = inodes'[j].entry
               PROVE  i = j
    OBVIOUS
  <2>1. entries[i - lastInode] = entries[j - lastInode]
    BY <1>8
  <2>2. i - lastInode = j - lastInode
    BY <1>3, <1>5, <2>1
  <2>3. QED
    BY <1>7, <2>2
<1>14. \A j \in new : inodes'[j].entry \in S
  BY <1>3, <1>5, <1>8
<1>15. ReadsInto(p, S)
  BY <1>1, <1>5, <1>8, <1>10, <1>11, <1>12, <1>13, <1>14 DEF ReadsInto
<1>16. QED
  BY <1>1, <1>2, <1>15

-----------------------------------------------------------------------------
(* What was read lists the tree *)

\* The items S of the registry f list the entries E, each once.
Exactly(S, f, E) ==
  /\ \A i \in S : f[i].entry \in E
  /\ \A e \in E : \E i \in S : f[i].entry = e
  /\ \A i, j \in S : f[i].entry = f[j].entry => i = j

LEMMA KidNames ==
  ASSUME NEW S, NEW f, NEW E, Exactly(S, f, E), OneOfEach(E)
  PROVE  \A i, j \in S : f[i].entry.name = f[j].entry.name => i = j
BY DEF Exactly, OneOfEach, Alike

\* The entry of the event is there instead of what had its name.
LEMMA ChangeMade ==
  ASSUME NEW E, NEW D, NEW w, E \subseteq AllEntries, Changes(E, D, w)
  PROVE  /\ \A e \in E : e.name # w.name => e \in D /\ e # w.entry
         /\ \A e \in D : e \in E \/ (w.kind # "remove" /\ e = w.entry)
         /\ \A e \in D : e.name = w.name => w.kind # "remove" /\ e = w.entry
         /\ w.kind # "remove" => w.entry \in D
         /\ w.kind # "new" => \E e \in E : e.name = w.name
<1>1. /\ D \subseteq AllEntries /\ OneOfEach(D) /\ EventShape(w) /\ Told(w, D)
      /\ \A e \in AllEntries : e.name # w.name /\ e.name # w.entry.name => (e \in E <=> e \in D)
      /\ w.kind = "new" <=> \A e \in E : e.name # w.name
      /\ w.entry.name # w.name => \A e \in E : e.name # w.entry.name
  BY DEF Changes, Touched
<1>2. w.kind # "remove" => w.entry \in D
  BY <1>1 DEF Told
<1>3. ASSUME NEW e \in D, e.name = w.name \/ e.name = w.entry.name
      PROVE  w.kind # "remove" /\ e = w.entry
  <2>1. w.kind # "remove" /\ e.name = w.entry.name
    BY <1>1, <1>3 DEF Told, EventShape
  <2>2. QED
    BY <1>1, <1>2, <2>1 DEF OneOfEach, Alike
<1>4. ASSUME NEW e \in E, e.name # w.name PROVE e.name # w.entry.name
  BY <1>1, <1>4
<1>5. QED
  BY <1>1, <1>2, <1>3, <1>4

LEMMA AddExactly ==
  ASSUME NEW S, NEW f, NEW g, NEW E, NEW D, NEW w, E \subseteq AllEntries,
         Changes(E, D, w), w.kind = "new", Exactly(S, f, E),
         NEW i, i \notin S, g[i].entry = w.entry, \A j \in S : g[j] = f[j]
  PROVE  Exactly(S \cup {i}, g, D)
<1>1. \A e \in E : e.name # w.name
  BY DEF Changes
<1>2. /\ \A e \in E : e \in D /\ e # w.entry
      /\ \A e \in D : e \in E \/ e = w.entry
      /\ w.entry \in D
  BY <1>1, ChangeMade
<1>3. /\ \A j \in S : g[j].entry \in E
      /\ \A e \in E : \E j \in S : g[j].entry = e
      /\ \A j, k \in S : g[j].entry = g[k].entry => j = k
  BY DEF Exactly
<1>4. QED
  BY <1>2, <1>3 DEF Exactly

LEMMA ReplaceExactly ==
  ASSUME NEW S, NEW f, NEW g, NEW E, NEW D, NEW w, E \subseteq AllEntries,
         OneOfEach(E), Changes(E, D, w), w.kind = "update", Exactly(S, f, E),
         NEW i \in S, f[i].entry.name = w.name, g[i].entry = w.entry,
         \A j \in S \ {i} : g[j] = f[j]
  PROVE  Exactly(S, g, D)
<1>1. /\ \A e \in E : e.name # w.name => e \in D /\ e # w.entry
      /\ \A e \in D : e \in E \/ e = w.entry
      /\ \A e \in D : e.name = w.name => e = w.entry
      /\ w.entry \in D
  BY ChangeMade
<1>0. \A j, k \in S : f[j].entry.name = f[k].entry.name => j = k
  BY KidNames
<1>2. \A j \in S \ {i} : /\ g[j].entry = f[j].entry /\ f[j].entry \in E
                          /\ f[j].entry.name # w.name
  BY <1>0 DEF Exactly
<1>3. \A j \in S : g[j].entry \in D
  BY <1>1, <1>2
<1>4. ASSUME NEW e \in D PROVE \E j \in S : g[j].entry = e
  <2>1. CASE e = w.entry
    BY <2>1
  <2>2. CASE e # w.entry
    <3>1. e \in E /\ e.name # w.name
      BY <1>1, <2>2
    <3>2. PICK j \in S : f[j].entry = e
      BY <3>1 DEF Exactly
    <3>3. QED
      BY <1>2, <3>1, <3>2
  <2>3. QED
    BY <2>1, <2>2
<1>5. ASSUME NEW j \in S, NEW k \in S, g[j].entry = g[k].entry PROVE j = k
  <2>1. CASE j # i /\ k # i
    BY <1>2, <1>5, <2>1 DEF Exactly
  <2>2. CASE j = i \/ k = i
    BY <1>1, <1>2, <1>5, <2>2
  <2>3. QED
    BY <2>1, <2>2
<1>6. QED
  BY <1>3, <1>4, <1>5 DEF Exactly

LEMMA RemoveExactly ==
  ASSUME NEW S, NEW f, NEW g, NEW E, NEW D, NEW w, E \subseteq AllEntries,
         OneOfEach(E), Changes(E, D, w), w.kind = "remove", Exactly(S, f, E),
         NEW i \in S, f[i].entry.name = w.name, \A j \in S \ {i} : g[j] = f[j]
  PROVE  Exactly(S \ {i}, g, D)
<1>1. /\ \A e \in E : e.name # w.name => e \in D
      /\ \A e \in D : e \in E /\ e.name # w.name
  BY ChangeMade
<1>0. \A j, k \in S : f[j].entry.name = f[k].entry.name => j = k
  BY KidNames
<1>2. \A j \in S \ {i} : /\ g[j].entry = f[j].entry /\ f[j].entry \in E
                          /\ f[j].entry.name # w.name
  BY <1>0 DEF Exactly
<1>3. ASSUME NEW e \in D PROVE \E j \in S \ {i} : g[j].entry = e
  <2>1. e \in E /\ e.name # w.name
    BY <1>1
  <2>2. PICK j \in S : f[j].entry = e
    BY <2>1 DEF Exactly
  <2>3. QED
    BY <1>2, <2>1, <2>2
<1>4. QED
  BY <1>1, <1>2, <1>3 DEF Exactly

ReadAreDirs == \A p \in contentRead : Present(p) => IsDir(p)

\* A directory whose removal waits.
Doomed(d) == \E k \in DOMAIN pending : Removes(pending[k], d)

\* The directories that were read list what they had in the tree "of".
Listed(of) ==
  \A p \in contentRead : Present(p) =>
    LET d == PathIn(inodes, p)
    IN  \/ Doomed(d)
        \/ d \in DOMAIN of /\ Exactly(KidsOf(inodes, p), inodes, EntriesIn(of, d))

\* The root is not removed.
LEMMA RootStays == ASSUME IInv PROVE ~Doomed(Top)
<1>1. SUFFICES ASSUME NEW k \in DOMAIN pending, pending[k].name = Top PROVE FALSE
  BY DEF Doomed, Removes
<1>2. pending[k] \in AllEvents
  BY DEF IInv, PendingInv
<1>3. QED
  BY <1>1, <1>2, NamesAssumption DEF AllEvents, FileEvents, DirEvents

LEMMA RootExact ==
  ASSUME IInv, NEW of, Listed(of), Root \in contentRead
  PROVE  Exactly(KidsOf(inodes, Root), inodes, EntriesIn(of, Top))
BY RootStays DEF Listed, Present, PathIn

\* A child without others of its name is found by it.
LEMMA OnlyChild ==
  ASSUME RegistryInv, NEW p, NEW i \in KidsOf(inodes, p),
         \A j \in KidsOf(inodes, p) : inodes[j].entry.name = inodes[i].entry.name => j = i
  PROVE  Child(p, inodes[i].entry.name) = i
<1> DEFINE named == {j \in Children(p) : inodes[j].entry.name = inodes[i].entry.name}
<1>1. named = {i}
  BY DEF Children, KidsOf
<1>2. i \in Nat
  BY DEF RegistryInv, KidsOf, Root
<1>3. Max({i}) = i
  BY <1>2 DEF Max
<1>4. QED
  BY <1>1, <1>3 DEF Child

\* Without one, nothing has the name.
LEMMA ChildMissing ==
  ASSUME RegistryInv, NEW p, NEW n, Child(p, n) = NoInode
  PROVE  \A j \in KidsOf(inodes, p) : inodes[j].entry.name # n
<1> DEFINE named == {i \in Children(p) : inodes[i].entry.name = n}
<1>1. SUFFICES ASSUME named # {} PROVE FALSE
  BY DEF Children, KidsOf
<1>2. named \subseteq 0..lastInode /\ lastInode \in Nat /\ 0 \notin named
  BY DEF RegistryInv, Children, Root
<1>3. \E x \in named : \A y \in named : x >= y
  BY <1>1, <1>2, NatMax, Zenon
<1>4. Max(named) \in named
  BY <1>3 DEF Max
<1>5. QED
  BY <1>1, <1>2, <1>4 DEF Child, NoInode

\* Each path is that of one directory that was read.
LEMMA OneOfPath ==
  ASSUME IInv, ReadAreDirs, NEW of, GoodTree(of), Listed(of),
         NEW p \in contentRead, Present(p)
  PROVE  /\ PathOf(p) \in Dirs \cup {Top} /\ p # NoInode
         /\ DirInode(PathOf(p)) = p /\ (PathOf(p) = Top <=> p = Root)
<1>1. IsDir(p)
  BY DEF ReadAreDirs
<1>2. PathOf(p) \in Dirs \cup {Top} /\ (PathOf(p) = Top <=> p = Root)
  BY <1>1, PathOfDir DEF IInv, PathOf
<1>3. p # NoInode
  BY DEF IInv, RegistryInv, NoInode
<1>4. CASE p = Root
  BY <1>2, <1>3, <1>4 DEF DirInode
<1>5. CASE p # Root
  <2>1. p \in DOMAIN inodes /\ inodes[p].parent = Root /\ inodes[p].entry.name = PathOf(p)
    BY <1>1, <1>5 DEF IInv, RegistryInv, Present, IsDir, PathOf
  <2>2. Root \in contentRead
    BY <2>1 DEF IInv, InodesConnected
  <2>3. Exactly(KidsOf(inodes, Root), inodes, EntriesIn(of, Top))
    BY <2>2, RootExact
  <2>4. \A i, j \in KidsOf(inodes, Root) :
          inodes[i].entry.name = inodes[j].entry.name => i = j
    BY <2>3, KidNames DEF GoodTree
  <2>5. Child(Root, inodes[p].entry.name) = p
    BY <2>1, <2>4, OnlyChild DEF IInv, KidsOf
  <2>6. QED
    BY <1>2, <1>3, <1>5, <2>1, <2>5 DEF DirInode
<1>6. QED
  BY <1>4, <1>5

\* The kernel reads a directory, or leaves the registry and the tree as they are.
LEMMA KernelReads ==
  ASSUME IInv, Kernel
  PROVE  /\ UNCHANGED <<tree, pending, lost, stray>>
         /\ \/ \E p \in {Root} \cup DOMAIN inodes : IsDir(p) /\ ReadDirContent(p)
            \/ UNCHANGED <<inodes, contentRead, crossed>>
<1>1. ASSUME NEW i \in {Root} \cup DOMAIN inodes, Lookup(i) \/ Opendir(i) \/ Open(i)
      PROVE  /\ UNCHANGED <<tree, pending, lost, stray>>
             /\ \/ \E p \in {Root} \cup DOMAIN inodes : IsDir(p) /\ ReadDirContent(p)
                \/ UNCHANGED <<inodes, contentRead, crossed>>
  BY <1>1 DEF Lookup, Opendir, Open, producers, registry, history
<1>2. ASSUME NEW request \in opening, Opened(request)
      PROVE  UNCHANGED <<tree, pending, lost, stray, inodes, contentRead, crossed>>
  BY <1>2 DEF Opened, producers, registry, history
<1>3. ASSUME NEW fh \in held, Release(fh)
      PROVE  UNCHANGED <<tree, pending, lost, stray, inodes, contentRead, crossed>>
  BY <1>3 DEF Release, producers, registry, history
<1>4. ASSUME NEW fh \in held, Readdir(fh)
      PROVE  /\ UNCHANGED <<tree, pending, lost, stray>>
             /\ \E p \in {Root} \cup DOMAIN inodes : IsDir(p) /\ ReadDirContent(p)
  <2>1. /\ UNCHANGED <<tree, pending, lost, stray>>
        /\ fh \in DOMAIN fhs /\ fhs[fh].entry.kind = "dir"
        /\ Present(fhs[fh].inode) /\ ReadDirContent(fhs[fh].inode)
    BY <1>4 DEF Readdir, producers
  <2>2. IsDir(fhs[fh].inode)
    BY <2>1 DEF IInv, HandleInv, Present, IsDir
  <2>3. QED
    BY <2>1, <2>2 DEF Present
<1>5. QED
  BY <1>1, <1>2, <1>3, <1>4 DEF Kernel

\* Producers leave the registry to the dispatch.
LEMMA ProducersLeave == Producers => UNCHANGED <<inodes, contentRead, crossed>>
<1>1. SUFFICES ASSUME ~UNCHANGED <<inodes, contentRead, crossed>> PROVE ~Producers
  OBVIOUS
<1>2. ASSUME NEW newTree, NEW event PROVE ~Change(newTree, event)
  BY <1>1 DEF Change, registry
<1>3. QED
  BY <1>2, Zenon DEF Producers, PutFile, UpdateFile, UpdateNothing, RemoveFile, CreateDir,
                     RemoveDir

LEMMA NextReadAreDirs == IInv /\ ReadAreDirs /\ [Next]_vars => ReadAreDirs'
<1> SUFFICES ASSUME IInv, ReadAreDirs, [Next]_vars PROVE ReadAreDirs'
  OBVIOUS
<1>1. \A p : PathOf(p) = PathIn(inodes, p)
  BY DEF PathOf, PathIn
<1>2. contentRead \subseteq Nat /\ Root \notin DOMAIN inodes /\ lastInode \in Nat
      /\ contentRead \subseteq 1..lastInode
  BY DEF IInv, RegistryInv, Root
<1>3. CASE Dispatch
  <2> DEFINE w == Head(pending)
             p == DirInode(w.dir)
             i == IF p = NoInode THEN NoInode ELSE Child(p, w.name)
  <2>1. w \in AllEvents /\ Apply(w)
    BY <1>3 DEF Dispatch, IInv, PendingInv
  <2>2. Applied(w, p, i)
    <3> HIDE DEF w
    <3>1. QED
      BY <2>1, ApplyApplied
  <2>3. w.kind = "update" => w.entry.kind = "file"
    BY <2>1 DEF AllEvents, FileEvents, DirEvents, FileEntries
  <2> HIDE DEF w, p, i
  <2>4. CASE AddsKid(p, w.entry, lastInode + 1)
    BY <1>2, <2>4 DEF AddsKid, ReadAreDirs, Present, IsDir
  <2>5. CASE w.kind = "update" /\ ReplacesKid(p, w.entry, i)
    BY <1>2, <2>3, <2>5 DEF ReplacesKid, ReadAreDirs, Present, IsDir
  <2>6. CASE RemovesKid(p, i)
    BY <1>2, <2>6 DEF RemovesKid, ReadAreDirs, Present, IsDir
  <2>7. CASE UNCHANGED <<inodes, contentRead>>
    BY <2>7 DEF ReadAreDirs, Present, IsDir
  <2>8. QED
    BY <2>2, <2>4, <2>5, <2>6, <2>7 DEF Applied
<1>4. ASSUME NEW p, Present(p), IsDir(p), ReadDirContent(p) PROVE ReadAreDirs'
  <2>1. ReadsInto(p, EntriesIn(tree, PathOf(p)))
    BY <1>4, ContentReadsInto
  <2>2. \A q \in contentRead : Present(q)' => Present(q)
    BY <1>2, <2>1 DEF ReadsInto, Present
  <2>3. contentRead' = contentRead \cup {p} /\ \A j \in DOMAIN inodes : inodes'[j] = inodes[j]
    BY <2>1 DEF ReadsInto
  <2>4. ASSUME NEW q \in contentRead', Present(q)' PROVE IsDir(q)'
    <3>1. Present(q) /\ IsDir(q)
      BY <1>4, <2>2, <2>3, <2>4 DEF ReadAreDirs
    <3>2. QED
      BY <2>3, <3>1 DEF Present, IsDir
  <2>5. QED
    BY <2>4 DEF ReadAreDirs
<1>5. CASE UNCHANGED <<inodes, contentRead>>
  BY <1>5 DEF ReadAreDirs, Present, IsDir
<1>6. CASE Producers
  BY <1>5, <1>6, ProducersLeave
<1>7. CASE Kernel
  <2>1. CASE UNCHANGED <<inodes, contentRead, crossed>>
    BY <1>5, <2>1
  <2>2. CASE \E p \in {Root} \cup DOMAIN inodes : IsDir(p) /\ ReadDirContent(p)
    <3>1. PICK p \in {Root} \cup DOMAIN inodes : IsDir(p) /\ ReadDirContent(p)
      BY <2>2
    <3>2. Present(p)
      BY DEF Present
    <3>3. QED
      BY <1>4, <3>1, <3>2
  <2>3. QED
    BY <1>7, <2>1, <2>2, KernelReads
<1>8. QED
  BY <1>3, <1>5, <1>6, <1>7 DEF Next, FailHandler, vars, registry

\* p is the inode that the path d leads to.
IsInodeOf(f, p, d) ==
  IF d = Top THEN p = Root
  ELSE /\ p \in KidsOf(f, Root) /\ f[p].entry.name = d
       /\ \A j \in KidsOf(f, Root) : f[j].entry.name = d => j <= p

\* The latest of a name is found by it.
LEMMA LatestFound ==
  ASSUME RegistryInv, NEW p, NEW i \in KidsOf(inodes, p),
         \A j \in KidsOf(inodes, p) : inodes[j].entry.name = inodes[i].entry.name => j <= i
  PROVE  Child(p, inodes[i].entry.name) = i
<1> DEFINE n     == inodes[i].entry.name
           named == {j \in Children(p) : inodes[j].entry.name = n}
<1>1. i \in named /\ named \subseteq Nat /\ \A j \in named : j <= i
  BY DEF Children, KidsOf, RegistryInv, Root
<1> HIDE DEF named, n
<1>2. \A j \in named : i >= j
  BY <1>1
<1>3. Max(named) \in named /\ Max(named) >= i
  BY <1>1, <1>2 DEF Max
<1>4. Max(named) = i
  <2>1. i \in Nat /\ Max(named) \in Nat /\ Max(named) <= i
    BY <1>1, <1>3
  <2>2. QED
    BY <1>3, <2>1
<1>5. Child(p, n) = i
  BY <1>1, <1>4 DEF Child, named
<1>6. QED
  BY <1>5 DEF n

\* What is found by a name is the latest of it.
LEMMA FoundLatest ==
  ASSUME RegistryInv, NEW p, NEW n, Child(p, n) # NoInode
  PROVE  \A j \in KidsOf(inodes, p) : inodes[j].entry.name = n => j <= Child(p, n)
<1> DEFINE named == {i \in Children(p) : inodes[i].entry.name = n}
<1>1. named \subseteq 0..lastInode /\ lastInode \in Nat
  BY DEF RegistryInv, Children, Root
<1>2. named # {} /\ Child(p, n) = Max(named)
  BY DEF Child
<1> HIDE DEF named
<1>3. \E x \in named : \A y \in named : x >= y
  BY <1>1, <1>2, NatMax, Zenon
<1>4. Max(named) \in named /\ \A y \in named : Max(named) >= y
  BY <1>3 DEF Max
<1>5. \A y \in named : y <= Max(named)
  BY <1>1, <1>4
<1>6. QED
  BY <1>2, <1>5 DEF named, Children, KidsOf

LEMMA InodeOfPath ==
  ASSUME RegistryInv, NEW p, NEW d, p # NoInode
  PROVE  DirInode(d) = p <=> IsInodeOf(inodes, p, d)
<1>1. CASE d = Top
  BY <1>1 DEF DirInode, IsInodeOf
<1>2. CASE d # Top
  <2>1. ASSUME Child(Root, d) = p PROVE IsInodeOf(inodes, p, d)
    <3>1. p \in KidsOf(inodes, Root) /\ inodes[p].entry.name = d
      BY <2>1, ChildFound DEF Children, KidsOf
    <3>2. \A j \in KidsOf(inodes, Root) : inodes[j].entry.name = d => j <= p
      BY <2>1, FoundLatest
    <3>3. QED
      BY <1>2, <3>1, <3>2 DEF IsInodeOf
  <2>2. ASSUME IsInodeOf(inodes, p, d) PROVE Child(Root, d) = p
    BY <1>2, <2>2, LatestFound DEF IsInodeOf
  <2>3. QED
    BY <1>2, <2>1, <2>2 DEF DirInode
<1>3. QED
  BY <1>1, <1>2

\* The event that is dispatched, and what it leaves.
LEMMA DispatchSteps ==
  ASSUME IInv, Dispatch, NEW w, w = Head(pending), NEW p, p = DirInode(w.dir),
         NEW i, i = IF p = NoInode THEN NoInode ELSE Child(p, w.name)
  PROVE  /\ w \in AllEvents /\ Applied(w, p, i)
         /\ i # NoInode => i \in KidsOf(inodes, p) /\ inodes[i].entry.name = w.name
         /\ \A d : Removes(w, d) => Doomed(d)
         /\ \A d : Doomed(d) => Removes(w, d) \/ Doomed(d)'
<1>1. /\ w \in AllEvents /\ Apply(w) /\ pending \in Seq(AllEvents) /\ pending # <<>>
      /\ pending' = Tail(pending)
  BY DEF Dispatch, IInv, PendingInv
<1>2. /\ 1 \in DOMAIN pending /\ w = pending[1]
      /\ \A k \in DOMAIN pending :
           k = 1 \/ (k - 1 \in DOMAIN pending' /\ pending'[k - 1] = pending[k])
  BY <1>1
<1>3. Applied(w, p, i) /\ (i # NoInode => i \in KidsOf(inodes, p) /\ inodes[i].entry.name = w.name)
  BY <1>1, ApplyApplied
<1>4. QED
  BY <1>1, <1>2, <1>3 DEF Doomed

\* A directory that was read, and is read still, was there.
LEMMA DispatchLeavesRead ==
  ASSUME IInv, ReadAreDirs, NEW w \in AllEvents, NEW p0, NEW i, Applied(w, p0, i),
         NEW p \in contentRead', Present(p)'
  PROVE  /\ p \in contentRead /\ Present(p)
         /\ PathIn(inodes', p) = PathIn(inodes, p)
<1>1. /\ lastInode + 1 \notin contentRead /\ contentRead' \subseteq contentRead
      /\ p \in contentRead
  BY DEF Applied, AddsKid, ReplacesKid, RemovesKid, IInv, RegistryInv
<1>2. Present(p)
  BY <1>1 DEF Applied, AddsKid, ReplacesKid, RemovesKid, Present
<1>3. p # Root => inodes[p].entry.kind = "dir"
  BY <1>1, <1>2 DEF ReadAreDirs, IsDir
<1>4. p # Root => inodes'[p] = inodes[p]
  BY <1>1, <1>2, <1>3 DEF Applied, AddsKid, ReplacesKid, RemovesKid, Present
<1>5. QED
  BY <1>1, <1>2, <1>4 DEF PathIn

\* The children of a directory that the event is not about.
LEMMA OtherKidsStay ==
  ASSUME IInv, NEW w, NEW p0, p0 = DirInode(w.dir), NEW i, Applied(w, p0, i),
         i # NoInode => i \in KidsOf(inodes, p0),
         NEW p, Present(p)', p # p0 \/ p0 = NoInode,
         p0 = NoInode => i = NoInode
  PROVE  /\ KidsOf(inodes', p) = KidsOf(inodes, p)
         /\ \A j \in KidsOf(inodes, p) : inodes'[j] = inodes[j]
<1>1. i # NoInode => i \notin KidsOf(inodes, p)
  BY DEF KidsOf
<1>2. p \in {Root} \cup DOMAIN inodes'
  BY DEF Present
<1>3. CASE p0 # NoInode /\ AddsKid(p0, w.entry, lastInode + 1)
  BY <1>3 DEF AddsKid, KidsOf
<1>4. CASE i # NoInode /\ ReplacesKid(p0, w.entry, i)
  BY <1>1, <1>4 DEF ReplacesKid, KidsOf
<1>5. CASE i # NoInode /\ RemovesKid(p0, i)
  <2>1. KidsOf(inodes', p) = KidsOf(inodes, p)
    BY <1>1, <1>2, <1>5 DEF RemovesKid
  <2>2. KidsOf(inodes', p) \subseteq DOMAIN inodes'
    BY DEF KidsOf
  <2>3. QED
    BY <1>5, <2>1, <2>2 DEF RemovesKid
<1>6. CASE UNCHANGED <<inodes, contentRead>>
  BY <1>6
<1>7. QED
  BY <1>3, <1>4, <1>5, <1>6 DEF Applied

LEMMA SameExactly ==
  ASSUME NEW S, NEW f, NEW g, NEW E, Exactly(S, f, E), \A j \in S : g[j] = f[j]
  PROVE  Exactly(S, g, E)
BY DEF Exactly

LEMMA DispatchKeepsListed ==
  ASSUME IInv, ReadAreDirs, Dispatch, NEW of, NEW then, GoodTree(of), Listed(of),
         Effect(of, Head(pending), then)
  PROVE  Listed(then)'
<1>1. PICK w : w = Head(pending)
  OBVIOUS
<1>2. PICK p0 : p0 = DirInode(w.dir)
  OBVIOUS
<1>3. PICK i : i = IF p0 = NoInode THEN NoInode ELSE Child(p0, w.name)
  OBVIOUS
<1>4. /\ w \in AllEvents /\ Applied(w, p0, i)
      /\ i # NoInode => i \in KidsOf(inodes, p0) /\ inodes[i].entry.name = w.name
      /\ \A d : Removes(w, d) => Doomed(d)
      /\ \A d : Doomed(d) => Removes(w, d) \/ Doomed(d)'
  BY <1>1, <1>2, <1>3, DispatchSteps
<1>5. SUFFICES ASSUME NEW p \in contentRead', Present(p)', NEW d, d = PathIn(inodes', p)
               PROVE  \/ Doomed(d)'
                      \/ /\ d \in DOMAIN then
                         /\ Exactly(KidsOf(inodes', p), inodes', EntriesIn(then, d))
  BY DEF Listed
<1>6. p \in contentRead /\ Present(p) /\ d = PathIn(inodes, p) /\ d = PathOf(p)
  BY <1>4, <1>5, DispatchLeavesRead DEF PathIn, PathOf
<1>7. /\ d \in Dirs \cup {Top} /\ p # NoInode /\ DirInode(d) = p
      /\ d = Top <=> p = Root
  BY <1>6, OneOfPath
<1>8. CASE Removes(w, d)
  <2>1. w.kind = "remove" /\ w.dir = Top /\ w.name = d /\ d # Top
    BY <1>4, <1>8, RootStays DEF Removes
  <2>2. p0 = Root /\ p0 # NoInode
    BY <1>2, <2>1 DEF DirInode, Root, NoInode
  <2>3. i = p
    BY <1>3, <1>7, <2>1, <2>2 DEF DirInode
  <2>4. RemovesKid(p0, i)
    BY <1>4, <1>7, <2>1, <2>3 DEF Applied
  <2>5. QED
    BY <1>5, <2>3, <2>4 DEF RemovesKid
<1>9. CASE Doomed(d) /\ ~Removes(w, d)
  BY <1>4, <1>9
<1>10. CASE ~Doomed(d)
  <2> DEFINE S == KidsOf(inodes, p)
             E == EntriesIn(of, d)
             D == EntriesIn(then, d)
  <2>1. d \in DOMAIN of /\ Exactly(S, inodes, E)
    BY <1>6, <1>10 DEF Listed
  <2>2. E \subseteq AllEntries /\ OneOfEach(E)
    BY <2>1 DEF GoodTree
  <2>3. d \in DOMAIN then
    BY <1>1, <1>4, <1>10, <2>1 DEF Effect
  <2>4. CASE d # w.dir
    <3>1. p # p0 \/ p0 = NoInode
      <4>1. p0 # NoInode => IsInodeOf(inodes, p0, w.dir)
        BY <1>2, InodeOfPath DEF IInv
      <4>2. IsInodeOf(inodes, p, d) /\ Root \notin DOMAIN inodes
        BY <1>7, InodeOfPath DEF IInv, RegistryInv, Root
      <4>3. QED
        BY <2>4, <4>1, <4>2 DEF IsInodeOf, KidsOf
    <3>2. /\ KidsOf(inodes', p) = S
          /\ \A j \in S : inodes'[j] = inodes[j]
      BY <1>2, <1>3, <1>4, <1>5, <3>1, OtherKidsStay
    <3>3. D = E
      BY <1>1, <2>1, <2>3, <2>4 DEF Effect
    <3> HIDE DEF S, E, D
    <3>4. Exactly(S, inodes', E)
      BY <2>1, <3>2, SameExactly
    <3>5. QED
      BY <2>3, <3>2, <3>3, <3>4 DEF D
  <2>5. CASE d = w.dir
    <3>1. p0 = p /\ i = Child(p, w.name)
      BY <1>2, <1>3, <1>7, <2>5
    <3>2. Changes(E, D, w)
      BY <1>1, <2>1, <2>3, <2>5 DEF Effect
    <3>3. w.kind \in {"new", "update", "remove"}
      BY <3>2 DEF Changes, EventShape
    <3>4. lastInode + 1 \notin DOMAIN inodes
      BY DEF IInv, RegistryInv
    <3>5. w.kind # "new" => i # NoInode
      <4>1. SUFFICES ASSUME w.kind # "new", i = NoInode PROVE FALSE
        OBVIOUS
      <4>2. \A j \in S : inodes[j].entry.name # w.name
        BY <3>1, <4>1, ChildMissing DEF IInv
      <4>3. \E e \in E : e.name = w.name
        BY <2>2, <3>2, <4>1, ChangeMade
      <4>4. QED
        BY <2>1, <4>2, <4>3 DEF Exactly
    <3>6. CASE w.kind = "new"
      <4> DEFINE new == lastInode + 1
      <4>1. AddsKid(p, w.entry, new)
        BY <1>4, <1>6, <1>7, <3>1, <3>6 DEF Applied
      <4>2. /\ KidsOf(inodes', p) = S \cup {new} /\ new \notin S
            /\ inodes'[new].entry = w.entry /\ \A j \in S : inodes'[j] = inodes[j]
        BY <3>4, <4>1 DEF AddsKid, KidsOf
      <4> HIDE DEF S, E, D, new
      <4>3. Exactly(S \cup {new}, inodes', D)
        BY <2>1, <2>2, <3>2, <3>6, <4>2, AddExactly
      <4>4. QED
        BY <2>3, <4>2, <4>3 DEF D
    <3>7. CASE w.kind = "update"
      <4>1. ReplacesKid(p, w.entry, i) /\ inodes[i].entry.name = w.name
        BY <1>4, <1>6, <1>7, <3>1, <3>5, <3>7 DEF Applied
      <4>2. /\ KidsOf(inodes', p) = S /\ i \in S
            /\ inodes'[i].entry = w.entry /\ \A j \in S \ {i} : inodes'[j] = inodes[j]
        BY <4>1 DEF ReplacesKid, KidsOf
      <4> HIDE DEF S, E, D
      <4>3. Exactly(S, inodes', D)
        BY <2>1, <2>2, <3>2, <3>7, <4>1, <4>2, ReplaceExactly
      <4>4. QED
        BY <2>3, <4>2, <4>3 DEF D
    <3>8. CASE w.kind = "remove"
      <4>1. RemovesKid(p, i) /\ inodes[i].entry.name = w.name
        BY <1>4, <3>1, <3>5, <3>8 DEF Applied
      <4>2. i \in S /\ KidsOf(inodes', p) = S \ {i}
        BY <1>5, <4>1 DEF RemovesKid, Present
      <4>3. \A j \in S \ {i} : inodes'[j] = inodes[j]
        <5>1. KidsOf(inodes', p) \subseteq DOMAIN inodes'
          BY DEF KidsOf
        <5>2. QED
          BY <4>1, <4>2, <5>1 DEF RemovesKid
      <4> HIDE DEF S, E, D
      <4>4. Exactly(S \ {i}, inodes', D)
        BY <2>1, <2>2, <3>2, <3>8, <4>1, <4>2, <4>3, RemoveExactly
      <4>5. QED
        BY <2>3, <4>2, <4>4 DEF D
    <3>9. QED
      BY <3>3, <3>6, <3>7, <3>8
  <2>6. QED
    BY <2>4, <2>5
<1>11. QED
  BY <1>8, <1>9, <1>10

\* A directory that is read while no event of it waits lists what it had before
\* the first of those that wait.
LEMMA ReadKeepsListed ==
  ASSUME IInv, NEW ts, IsHistory(ts), Listed(ts[1]), GoodTree(ts[1]),
         NEW q, Present(q), IsDir(q), ReadDirContent(q), ~crossed', pending' = pending
  PROVE  Listed(ts[1])'
<1>1. ReadsInto(q, EntriesIn(tree, PathOf(q))) /\ PathOf(q) \in DOMAIN tree
  BY ContentReadsInto
<1>2. /\ contentRead \subseteq 1..lastInode /\ Root \notin DOMAIN inodes /\ lastInode \in Nat
  BY DEF IInv, RegistryInv, Root
<1>3. PICK of : of = ts[1]
  OBVIOUS
<1>4. SUFFICES ASSUME NEW p \in contentRead', Present(p)', NEW d, d = PathIn(inodes', p),
                      ~Doomed(d)
               PROVE  /\ d \in DOMAIN of
                      /\ Exactly(KidsOf(inodes', p), inodes', EntriesIn(of, d))
  BY <1>3 DEF Listed, Doomed
<1>5. CASE p = q
  <2>1. d = PathOf(q) /\ (q # Root => q \in DOMAIN inodes)
    BY <1>1, <1>4, <1>5 DEF ReadsInto, Present, PathIn, PathOf
  <2>2. \A k \in DOMAIN pending : pending[k].dir # d
    BY <2>1 DEF ReadDirContent
  <2>3. d \in DOMAIN of
    <3>1. CASE q = Root
      BY <1>3, <2>1, <3>1 DEF GoodTree, PathOf
    <3>2. CASE q # Root
      <4>1. /\ inodes[q].entry.kind = "dir" /\ inodes[q].entry.name = d
            /\ inodes[q].parent = Root /\ Root \in contentRead
        BY <2>1, <3>2 DEF IsDir, PathOf, IInv, RegistryInv, InodesConnected
      <4>2. Exactly(KidsOf(inodes, Root), inodes, EntriesIn(of, Top))
        BY <1>3, <4>1, RootExact
      <4>3. inodes[q].entry \in EntriesIn(of, Top)
        BY <2>1, <3>2, <4>1, <4>2 DEF Exactly, KidsOf
      <4>4. PICK e \in DOMAIN of : inodes[q].entry = DirEntry(e)
        BY <4>1, <4>3 DEF EntriesIn, FileEntry
      <4>5. QED
        BY <4>1, <4>4 DEF DirEntry
    <3>3. QED
      BY <3>1, <3>2
  <2>4. EntriesIn(tree, d) = EntriesIn(of, d)
    BY <1>3, <1>4, <2>2, <2>3, SteadyDirs DEF Doomed
  <2>5. Exactly(KidsOf(inodes', p), inodes', EntriesIn(tree, d))
    BY <1>1, <1>5, <2>1 DEF ReadsInto, Exactly
  <2>6. QED
    BY <2>3, <2>4, <2>5
<1>6. CASE p # q
  <2>1. p \in contentRead
    BY <1>1, <1>6 DEF ReadsInto
  <2>2. Present(p)
    BY <1>1, <1>2, <1>4, <2>1 DEF ReadsInto, Present
  <2>3. d = PathIn(inodes, p)
    BY <1>1, <1>4, <2>2 DEF ReadsInto, Present, PathIn
  <2>4. d \in DOMAIN of /\ Exactly(KidsOf(inodes, p), inodes, EntriesIn(of, d))
    BY <1>3, <1>4, <2>1, <2>2, <2>3 DEF Listed
  <2>5. KidsOf(inodes', p) = KidsOf(inodes, p) /\ \A j \in KidsOf(inodes, p) : inodes'[j] = inodes[j]
    BY <1>1, <1>6 DEF ReadsInto, KidsOf
  <2>6. Exactly(KidsOf(inodes, p), inodes', EntriesIn(of, d))
    BY <2>4, <2>5, SameExactly
  <2>7. QED
    BY <2>4, <2>5, <2>6
<1>7. QED
  BY <1>5, <1>6

-----------------------------------------------------------------------------
(* What a walk finds *)

\* Child i is the latest one of its message.
Latest(S, f, i) ==
  \A j \in S : Alike(f[j].entry.name, f[i].entry.name) => j <= i

\* The entry of the message of m is the latest child of it.
Found(S, f, E, m) ==
  \A e \in E : Alike(e.name, m) => \E i \in S : f[i].entry = e /\ Latest(S, f, i)

\* The entry of the message of m is the only child of it.
ReadAt(S, f, E, m) ==
  /\ \A i, j \in S : Alike(f[i].entry.name, m) /\ Alike(f[j].entry.name, m) => i = j
  /\ \A e \in E : Alike(e.name, m) => \E i \in S : f[i].entry = e

\* Of each message the walk finds what was there before the events that wait,
\* or all that it finds is what was read since.
Walked(ts) ==
  \A d \in DOMAIN ts[1] : \A p \in contentRead : IsInodeOf(inodes, p, d) =>
    \A m \in Names \cup Dirs :
      LET S == KidsOf(inodes, p)
      IN  \/ Found(S, inodes, EntriesIn(ts[1], d), m)
          \/ \E k \in DOMAIN ts : ReadAt(S, inodes, EntriesIn(ts[k], d), m)

LEMMA ReadFound ==
  ASSUME NEW S, S \subseteq Nat, NEW f, NEW E, NEW m, ReadAt(S, f, E, m)
  PROVE  Found(S, f, E, m)
<1> SUFFICES ASSUME NEW e \in E, Alike(e.name, m)
             PROVE  \E i \in S : f[i].entry = e /\ Latest(S, f, i)
  BY DEF Found
<1>1. PICK i \in S : f[i].entry = e
  BY DEF ReadAt
<1>2. ASSUME NEW j \in S, Alike(f[j].entry.name, f[i].entry.name) PROVE j <= i
  <2>1. Alike(f[j].entry.name, m)
    BY <1>1, <1>2, AlikeTrans
  <2>2. j = i
    BY <1>1, <2>1 DEF ReadAt
  <2>3. QED
    BY <2>2
<1>3. QED
  BY <1>1, <1>2 DEF Latest

\* As long as the children of the message stay what they are.
LEMMA SameFound ==
  ASSUME NEW S, NEW T, NEW f, NEW g, NEW E, NEW D, NEW m, Found(S, f, E, m),
         \A e \in D : Alike(e.name, m) => e \in E,
         \A j \in S : Alike(f[j].entry.name, m) => j \in T /\ g[j] = f[j],
         \A j \in T : Alike(g[j].entry.name, m) => j \in S /\ g[j] = f[j]
  PROVE  Found(T, g, D, m)
<1> SUFFICES ASSUME NEW e \in D, Alike(e.name, m)
             PROVE  \E i \in T : g[i].entry = e /\ Latest(T, g, i)
  BY DEF Found
<1>1. PICK i \in S : f[i].entry = e /\ Latest(S, f, i)
  BY DEF Found
<1>2. i \in T /\ g[i] = f[i]
  BY <1>1
<1>3. ASSUME NEW j \in T, Alike(g[j].entry.name, g[i].entry.name) PROVE j <= i
  <2>1. Alike(g[j].entry.name, m)
    BY <1>1, <1>2, <1>3, AlikeTrans
  <2>2. j \in S /\ g[j] = f[j]
    BY <2>1
  <2>3. QED
    BY <1>1, <1>2, <1>3, <2>2 DEF Latest
<1>4. QED
  BY <1>1, <1>2, <1>3 DEF Latest

LEMMA SameReadAt ==
  ASSUME NEW S, NEW T, NEW f, NEW g, NEW E, NEW m, ReadAt(S, f, E, m),
         \A j \in S : Alike(f[j].entry.name, m) => j \in T /\ g[j] = f[j],
         \A j \in T : Alike(g[j].entry.name, m) => j \in S /\ g[j] = f[j]
  PROVE  ReadAt(T, g, E, m)
<1>1. ASSUME NEW e \in E, Alike(e.name, m) PROVE \E i \in T : g[i].entry = e
  <2>1. PICK i \in S : f[i].entry = e
    BY <1>1 DEF ReadAt
  <2>2. QED
    BY <1>1, <2>1
<1>2. ASSUME NEW i \in T, NEW j \in T, Alike(g[i].entry.name, m), Alike(g[j].entry.name, m)
      PROVE  i = j
  BY <1>2 DEF ReadAt
<1>3. QED
  BY <1>1, <1>2 DEF ReadAt

\* An event of the message: the entry that it told is the last that was made,
\* or there is none.
LEMMA ToldFound ==
  ASSUME NEW E, OneOfEach(E), NEW D, NEW w, Changes(E, D, w), NEW m, Alike(w.name, m),
         NEW T, NEW g,
         w.kind # "remove" => \E i \in T : g[i].entry = w.entry /\ Latest(T, g, i)
  PROVE  Found(T, g, D, m)
<1> SUFFICES ASSUME NEW e \in D, Alike(e.name, m)
             PROVE  \E i \in T : g[i].entry = e /\ Latest(T, g, i)
  BY DEF Found
<1>1. /\ OneOfEach(D) /\ Told(w, D) /\ Alike(w.name, w.entry.name)
      /\ w.kind # "update" => w.entry.name = w.name
      /\ w.kind = "new" => \A f \in E : f.name # w.name
  BY DEF Changes, EventShape
<1>2. Alike(e.name, w.name) /\ Alike(e.name, w.entry.name)
  BY <1>1, AlikeTrans, AlikeSymmetric
<1>3. w.kind # "remove"
  <2>1. SUFFICES ASSUME w.kind = "remove" PROVE FALSE
    OBVIOUS
  <2>2. PICK f \in E : f.name = w.name
    BY <2>1 DEF Changes
  <2>3. e.name # w.name /\ e \in AllEntries /\ e.name \notin Touched(w)
    BY <1>1, <2>1 DEF Told, Touched, Changes
  <2>4. e \in E
    BY <2>3 DEF Changes
  <2>5. QED
    BY <1>2, <2>2, <2>3, <2>4 DEF OneOfEach
<1>4. w.entry \in D
  BY <1>1, <1>3 DEF Told
<1>5. e = w.entry
  BY <1>1, <1>2, <1>4 DEF OneOfEach
<1>6. QED
  BY <1>3, <1>5

\* What the event w makes, of its own directory.
LEMMA EffectChanges ==
  ASSUME NEW of, NEW w, NEW then, GoodTree(of), Effect(of, w, then)
  PROVE  /\ Changes(EntriesIn(of, w.dir), EntriesIn(then, w.dir), w) /\ EventShape(w)
         /\ OneOfEach(EntriesIn(of, w.dir)) /\ EntriesIn(of, w.dir) \subseteq AllEntries
<1>1. w.dir \in DOMAIN of /\ Changes(EntriesIn(of, w.dir), EntriesIn(then, w.dir), w)
  BY DEF Effect
<1>2. QED
  BY <1>1 DEF Changes, GoodTree

\* An event leaves a path to the inode it led to, if that was read.
LEMMA DispatchKeepsPath ==
  ASSUME IInv, NEW w \in AllEvents, NEW p0, p0 = DirInode(w.dir), NEW i, Applied(w, p0, i),
         i # NoInode => i \in KidsOf(inodes, p0) /\ inodes[i].entry.name = w.name,
         NEW of, NEW then, GoodTree(of), GoodTree(then), Effect(of, w, then),
         NEW d \in DOMAIN then, NEW p \in contentRead', IsInodeOf(inodes', p, d)
  PROVE  p \in contentRead /\ d \in DOMAIN of /\ IsInodeOf(inodes, p, d)
<1>1. /\ lastInode \in Nat /\ contentRead \subseteq 1..lastInode /\ Root \notin DOMAIN inodes
      /\ DOMAIN inodes \subseteq (Root + 1)..lastInode
      /\ Top \in DOMAIN of /\ DOMAIN then \subseteq Dirs \cup {Top}
  BY DEF IInv, RegistryInv, GoodTree, Root
<1>2. p \in contentRead
  BY DEF Applied, AddsKid, ReplacesKid, RemovesKid
<1>3. CASE d = Top
  BY <1>1, <1>2, <1>3 DEF IsInodeOf
<1>4. CASE d # Top
  <2>1. /\ d \in Dirs /\ d \notin Names
        /\ p \in KidsOf(inodes', Root) /\ inodes'[p].entry.name = d
        /\ \A j \in KidsOf(inodes', Root) : inodes'[j].entry.name = d => j <= p
    BY <1>1, <1>4, NamesAssumption DEF IsInodeOf
  <2>2. ~(w.dir = Top /\ d \in Touched(w))
    <3> SUFFICES ASSUME w.dir = Top, d \in Touched(w) PROVE FALSE
      OBVIOUS
    <3>1. w \in DirEvents /\ w.name = d /\ w.kind \in {"new", "remove"} /\ w.entry.name = d
      <4>1. w \notin FileEvents
        BY <2>1 DEF FileEvents, FileEntries, Touched
      <4>2. EventShape(w)
        BY EffectChanges
      <4>3. w \in DirEvents
        BY <4>1 DEF AllEvents
      <4>4. w.kind \in {"new", "remove"}
        BY <4>3 DEF DirEvents
      <4>5. QED
        BY <4>2, <4>3, <4>4 DEF EventShape, Touched
    <3>2. p0 = Root /\ Root # NoInode
      BY DEF DirInode, Root, NoInode
    <3>3. w.kind # "remove"
      BY <3>1 DEF Effect, Removes
    <3>4. CASE Root \in contentRead
      <4>1. AddsKid(Root, w.entry, lastInode + 1)
        BY <3>1, <3>2, <3>3, <3>4 DEF Applied
      <4> DEFINE new == lastInode + 1
      <4>2. new \in KidsOf(inodes', Root) /\ inodes'[new].entry.name = d
        BY <3>1, <4>1 DEF AddsKid
      <4>3. new <= p
        BY <2>1, <4>2
      <4>4. QED
        BY <1>1, <1>2, <4>3
    <3>5. CASE Root \notin contentRead
      <4>1. UNCHANGED inodes
        BY <3>1, <3>2, <3>3, <3>5 DEF Applied
      <4>2. p \in DOMAIN inodes /\ inodes[p].parent = Root
        BY <2>1, <4>1 DEF KidsOf
      <4>3. QED
        BY <3>5, <4>2 DEF IInv, InodesConnected
    <3>6. QED
      BY <3>4, <3>5
  <2>3. d \in DOMAIN of
    BY <2>2 DEF Effect, Touched
  <2>4. p0 = Root => w.dir = Top
    BY <1>1, ChildFound DEF DirInode, IInv, Children, Root, NoInode
  <2>5. IsInodeOf(inodes, p, d)
    <3>1. CASE AddsKid(p0, w.entry, lastInode + 1)
      <4>1. p # lastInode + 1 /\ \A j \in KidsOf(inodes, Root) : j # lastInode + 1
        BY <1>1, <1>2, <3>1 DEF AddsKid, KidsOf
      <4>2. /\ p \in KidsOf(inodes, Root) /\ inodes[p] = inodes'[p]
            /\ \A j \in KidsOf(inodes, Root) : j \in KidsOf(inodes', Root) /\ inodes'[j] = inodes[j]
        BY <2>1, <3>1, <4>1 DEF AddsKid, KidsOf
      <4>3. QED
        BY <1>4, <2>1, <4>2 DEF IsInodeOf
    <3>2. CASE w.kind = "update" /\ ReplacesKid(p0, w.entry, i)
      <4>1. w.entry.name \in Names
        BY <3>2 DEF AllEvents, FileEvents, DirEvents, FileEntries
      <4>2. p # i
        BY <2>1, <3>2, <4>1 DEF ReplacesKid
      <4>3. inodes[i].entry.name \in Names
        BY <3>2, KindByName DEF ReplacesKid, IInv, KidsOf
      <4>4. /\ p \in KidsOf(inodes, Root) /\ inodes[p] = inodes'[p]
            /\ \A j \in KidsOf(inodes, Root) \ {i} :
                 j \in KidsOf(inodes', Root) /\ inodes'[j] = inodes[j]
        BY <2>1, <3>2, <4>2 DEF ReplacesKid, KidsOf
      <4>5. QED
        BY <1>4, <2>1, <4>3, <4>4 DEF IsInodeOf
    <3>3. CASE w.kind = "remove" /\ i # NoInode /\ RemovesKid(p0, i)
      <4>1. KidsOf(inodes', Root) = KidsOf(inodes, Root) \ {i}
        BY <3>3 DEF RemovesKid
      <4>2. \A j \in KidsOf(inodes', Root) : inodes'[j] = inodes[j]
        BY <3>3 DEF RemovesKid, KidsOf
      <4>3. i \in KidsOf(inodes, Root) => inodes[i].entry.name # d
        <5>1. i \in KidsOf(inodes, Root) => p0 = Root
          BY <3>3 DEF KidsOf
        <5>2. QED
          BY <2>2, <2>4, <3>3, <5>1 DEF Touched
      <4>4. QED
        BY <1>4, <2>1, <4>1, <4>2, <4>3 DEF IsInodeOf
    <3>4. CASE UNCHANGED <<inodes, contentRead>>
      BY <3>4
    <3>5. QED
      BY <3>1, <3>2, <3>3, <3>4 DEF Applied
  <2>6. QED
    BY <1>2, <2>3, <2>5
<1>5. QED
  BY <1>3, <1>4

\* An event of another message leaves the children of the message alone.
LEMMA OtherMessageStays ==
  ASSUME IInv, NEW w, NEW p, NEW i, Applied(w, p, i), Present(p)',
         i # NoInode => i \in KidsOf(inodes, p) /\ inodes[i].entry.name = w.name,
         NEW m, ~Alike(w.name, m), ~Alike(w.entry.name, m)
  PROVE  /\ \A j \in KidsOf(inodes, p) : Alike(inodes[j].entry.name, m) =>
              j \in KidsOf(inodes', p) /\ inodes'[j] = inodes[j]
         /\ \A j \in KidsOf(inodes', p) : Alike(inodes'[j].entry.name, m) =>
              j \in KidsOf(inodes, p) /\ inodes'[j] = inodes[j]
<1>1. CASE AddsKid(p, w.entry, lastInode + 1)
  <2> DEFINE new == lastInode + 1
  <2>1. /\ KidsOf(inodes', p) = KidsOf(inodes, p) \cup {new}
        /\ inodes'[new].entry = w.entry /\ \A j \in KidsOf(inodes, p) : inodes'[j] = inodes[j]
    BY <1>1 DEF AddsKid, KidsOf
  <2> HIDE DEF new
  <2>2. QED
    BY <2>1
<1>2. CASE i # NoInode /\ ReplacesKid(p, w.entry, i)
  <2>1. /\ KidsOf(inodes', p) = KidsOf(inodes, p) /\ inodes'[i].entry = w.entry
        /\ \A j \in KidsOf(inodes, p) \ {i} : inodes'[j] = inodes[j]
    BY <1>2 DEF ReplacesKid, KidsOf
  <2>2. QED
    BY <1>2, <2>1
<1>3. CASE i # NoInode /\ RemovesKid(p, i)
  <2>1. KidsOf(inodes', p) = KidsOf(inodes, p) \ {i}
    BY <1>3 DEF RemovesKid, Present
  <2>2. \A j \in KidsOf(inodes', p) : inodes'[j] = inodes[j]
    BY <1>3 DEF RemovesKid, KidsOf
  <2>3. QED
    BY <1>3, <2>1, <2>2
<1>4. CASE UNCHANGED <<inodes, contentRead>>
  BY <1>4
<1>5. QED
  BY <1>1, <1>2, <1>3, <1>4 DEF Applied

\* The file that an update replaces is the latest of its message.
LEMMA ReplacedLatest ==
  ASSUME IInv, NEW p, NEW w, NEW i, i = Child(p, w.name), i # NoInode,
         NEW m, Alike(w.name, m), NEW E, NEW F, \E e \in E : e.name = w.name,
         Found(KidsOf(inodes, p), inodes, E, m) \/ ReadAt(KidsOf(inodes, p), inodes, F, m)
  PROVE  Latest(KidsOf(inodes, p), inodes, i)
<1> DEFINE S == KidsOf(inodes, p)
<1>1. i \in S /\ inodes[i].entry.name = w.name /\ i \in Nat
  BY ChildFound DEF IInv, Children, KidsOf, RegistryInv, Root
<1>2. CASE Found(S, inodes, E, m)
  <2>1. PICK e \in E : e.name = w.name
    OBVIOUS
  <2>2. PICK k \in S : inodes[k].entry = e /\ Latest(S, inodes, k)
    BY <1>2, <2>1 DEF Found
  <2>3. \A j \in S : inodes[j].entry.name = inodes[k].entry.name => j <= k
    BY <2>2 DEF Latest, Alike
  <2>4. Child(p, inodes[k].entry.name) = k
    BY <2>3, LatestFound DEF IInv
  <2>5. QED
    BY <2>1, <2>2, <2>4
<1>3. CASE ReadAt(S, inodes, F, m)
  <2> SUFFICES ASSUME NEW j \in S, Alike(inodes[j].entry.name, w.name) PROVE j <= i
    BY <1>1 DEF Latest
  <2>1. Alike(inodes[j].entry.name, m)
    BY AlikeTrans
  <2>2. j = i
    BY <1>1, <1>3, <2>1 DEF ReadAt
  <2>3. QED
    BY <1>1, <2>2
<1>4. QED
  BY <1>2, <1>3

\* An event of the message leaves what it told to be found.
LEMMA DispatchFindsTold ==
  ASSUME IInv, NEW w, NEW p \in contentRead, p # NoInode, Present(p)',
         NEW i, i = Child(p, w.name), Applied(w, p, i),
         NEW m, Alike(w.name, m), NEW E, E \subseteq AllEntries, OneOfEach(E),
         NEW D, Changes(E, D, w), NEW F,
         Found(KidsOf(inodes, p), inodes, E, m) \/ ReadAt(KidsOf(inodes, p), inodes, F, m)
  PROVE  Found(KidsOf(inodes', p), inodes', D, m)
<1> DEFINE S == KidsOf(inodes, p)
           T == KidsOf(inodes', p)
<1>1. /\ lastInode \in Nat /\ S \subseteq Nat /\ \A j \in S : j <= lastInode
  BY DEF IInv, RegistryInv, KidsOf, Root
<1>2. /\ Alike(w.name, w.entry.name) /\ w.kind \in {"new", "update", "remove"}
      /\ w.kind # "new" => \E e \in E : e.name = w.name
  BY DEF Changes, EventShape
<1>3. ASSUME w.kind # "remove" PROVE \E k \in T : inodes'[k].entry = w.entry /\ Latest(T, inodes', k)
  <2>1. CASE AddsKid(p, w.entry, lastInode + 1)
    <3> DEFINE new == lastInode + 1
    <3>1. /\ T = S \cup {new} /\ inodes'[new].entry = w.entry
          /\ \A j \in S : j <= new
      BY <1>1, <2>1 DEF AddsKid
    <3>2. new <= new
      BY <1>1
    <3> HIDE DEF S, T, new
    <3>3. QED
      BY <3>1, <3>2 DEF Latest
  <2>2. CASE w.kind = "update" /\ i # NoInode /\ ReplacesKid(p, w.entry, i)
    <3>1. /\ T = S /\ i \in S /\ inodes'[i].entry = w.entry /\ inodes[i].entry.name = w.name
          /\ \A j \in S \ {i} : inodes'[j] = inodes[j]
      <4>1. inodes[i].entry.name = w.name
        BY <2>2, ChildFound DEF IInv
      <4>2. QED
        BY <2>2, <4>1 DEF ReplacesKid, KidsOf
    <3>2. Latest(S, inodes, i)
      BY <1>2, <2>2, ReplacedLatest
    <3>0. i \in Nat
      BY <1>1, <3>1
    <3> HIDE DEF S, T
    <3>3. ASSUME NEW j \in T, Alike(inodes'[j].entry.name, w.entry.name) PROVE j <= i
      <4>1. CASE j = i
        BY <3>0, <4>1
      <4>2. CASE j # i
        <5>1. Alike(inodes[j].entry.name, w.entry.name)
          BY <3>1, <3>3, <4>2
        <5>2. Alike(inodes[j].entry.name, inodes[i].entry.name)
          BY <1>2, <3>1, <5>1, AlikeTrans, AlikeSymmetric
        <5>3. QED
          BY <3>1, <3>2, <5>2 DEF Latest
      <4>3. QED
        BY <4>1, <4>2
    <3>4. QED
      BY <3>1, <3>3 DEF Latest
  <2>3. QED
    BY <1>2, <1>3, <2>1, <2>2 DEF Applied
<1>4. QED
  BY <1>3, ToldFound

LEMMA DispatchKeepsWalked ==
  ASSUME IInv, Dispatch, NEW ts, NEW us, Walked(ts), GoodTree(ts[1]), GoodTree(us[1]),
         Effect(ts[1], Head(pending), us[1]),
         \A k \in DOMAIN ts : k = 1 \/ (k - 1 \in DOMAIN us /\ us[k - 1] = ts[k])
  PROVE  Walked(us)'
<1>1. PICK w : w = Head(pending)
  OBVIOUS
<1>2. PICK p0 : p0 = DirInode(w.dir)
  OBVIOUS
<1>3. PICK i : i = IF p0 = NoInode THEN NoInode ELSE Child(p0, w.name)
  OBVIOUS
<1>4. /\ w \in AllEvents /\ Applied(w, p0, i)
      /\ i # NoInode => i \in KidsOf(inodes, p0) /\ inodes[i].entry.name = w.name
  BY <1>1, <1>2, <1>3, DispatchSteps
<1>5. PICK of : of = ts[1]
  OBVIOUS
<1>6. PICK then : then = us[1]
  OBVIOUS
<1>7. SUFFICES ASSUME NEW d \in DOMAIN then, NEW p \in contentRead', IsInodeOf(inodes', p, d),
                      NEW m \in Names \cup Dirs
      PROVE  \/ Found(KidsOf(inodes', p), inodes', EntriesIn(then, d), m)
             \/ \E k \in DOMAIN us : ReadAt(KidsOf(inodes', p), inodes', EntriesIn(us[k], d), m)
  BY <1>6 DEF Walked
<1>8. GoodTree(of) /\ GoodTree(then) /\ Effect(of, w, then)
  BY <1>1, <1>5, <1>6
<1>9. p \in contentRead /\ d \in DOMAIN of /\ IsInodeOf(inodes, p, d)
  BY <1>2, <1>4, <1>7, <1>8, DispatchKeepsPath
<1> DEFINE S == KidsOf(inodes, p)
           T == KidsOf(inodes', p)
           E == EntriesIn(of, d)
           D == EntriesIn(then, d)
<1>10. Found(S, inodes, E, m) \/ \E k \in DOMAIN ts : ReadAt(S, inodes, EntriesIn(ts[k], d), m)
  BY <1>5, <1>9 DEF Walked
<1>11. /\ S \subseteq Nat /\ p # NoInode /\ Root \notin DOMAIN inodes
       /\ Present(p)' /\ DirInode(d) = p /\ E \subseteq AllEntries /\ OneOfEach(E)
  <2>1. S \subseteq Nat /\ p # NoInode /\ Root \notin DOMAIN inodes
    BY <1>9 DEF IInv, RegistryInv, KidsOf, Root, NoInode
  <2>2. Present(p)'
    BY <1>7 DEF IsInodeOf, KidsOf, Present
  <2>3. DirInode(d) = p
    BY <1>9, <2>1, InodeOfPath DEF IInv
  <2>4. QED
    BY <1>8, <1>9, <2>1, <2>2, <2>3 DEF GoodTree
<1>12. EventShape(w) /\ (d = w.dir => Changes(E, D, w))
  BY <1>8, EffectChanges
<1>13. CASE d = w.dir /\ Alike(w.name, m)
  <2>1. p0 = p /\ i = Child(p, w.name)
    BY <1>2, <1>3, <1>11, <1>13
  <2>2. PICK F : Found(S, inodes, E, m) \/ ReadAt(S, inodes, F, m)
    BY <1>10
  <2>3. Found(T, inodes', D, m)
    BY <1>4, <1>9, <1>11, <1>12, <1>13, <2>1, <2>2, DispatchFindsTold
  <2>4. QED
    BY <2>3
<1>14. CASE ~(d = w.dir /\ Alike(w.name, m))
  <2>1. /\ \A j \in S : Alike(inodes[j].entry.name, m) => j \in T /\ inodes'[j] = inodes[j]
        /\ \A j \in T : Alike(inodes'[j].entry.name, m) => j \in S /\ inodes'[j] = inodes[j]
        /\ \A e \in D : Alike(e.name, m) => e \in E
    <3>1. CASE d # w.dir
      <4>1. p # p0 \/ p0 = NoInode
        <5>1. p0 # NoInode => IsInodeOf(inodes, p0, w.dir)
          BY <1>2, InodeOfPath DEF IInv
        <5>2. QED
          BY <1>9, <1>11, <3>1, <5>1 DEF IsInodeOf, KidsOf
      <4>2. T = S /\ \A j \in S : inodes'[j] = inodes[j]
        <5>1. Present(p)' /\ (p0 = NoInode => i = NoInode)
          BY <1>3, <1>11
        <5>2. Applied(w, p0, i) /\ (i # NoInode => i \in KidsOf(inodes, p0))
          BY <1>4
        <5>3. QED
          BY <1>2, <4>1, <5>1, <5>2, OtherKidsStay
      <4>3. D = E
        BY <1>7, <1>8, <1>9, <3>1 DEF Effect
      <4>4. QED
        BY <4>2, <4>3
    <3>2. CASE d = w.dir
      <4>1. p0 = p /\ ~Alike(w.name, m) /\ ~Alike(w.entry.name, m)
        BY <1>2, <1>11, <1>12, <1>14, <3>2, AlikeTrans DEF EventShape
      <4>2. /\ \A j \in S : Alike(inodes[j].entry.name, m) => j \in T /\ inodes'[j] = inodes[j]
            /\ \A j \in T : Alike(inodes'[j].entry.name, m) => j \in S /\ inodes'[j] = inodes[j]
        BY <1>4, <1>11, <4>1, OtherMessageStays
      <4>3. ASSUME NEW e \in D, Alike(e.name, m) PROVE e \in E
        <5>1. e \in AllEntries /\ e.name \notin Touched(w)
          BY <1>12, <3>2, <4>1, <4>3 DEF Changes, Touched
        <5>2. QED
          BY <1>12, <3>2, <4>3, <5>1 DEF Changes
      <4>4. QED
        BY <4>2, <4>3
    <3>3. QED
      BY <3>1, <3>2
  <2> HIDE DEF S, T, E, D
  <2>2. CASE Found(S, inodes, E, m)
    <3>1. Found(T, inodes', D, m)
      BY <2>1, <2>2, SameFound
    <3>2. QED
      BY <3>1 DEF T, D
  <2>3. CASE \E k \in DOMAIN ts : ReadAt(S, inodes, EntriesIn(ts[k], d), m)
    <3>1. PICK k \in DOMAIN ts : ReadAt(S, inodes, EntriesIn(ts[k], d), m)
      BY <2>3
    <3>2. CASE k = 1
      <4>1. Found(S, inodes, E, m)
        BY <1>5, <1>11, <3>1, <3>2, ReadFound DEF E
      <4>2. QED
        BY <2>2, <4>1
    <3>3. CASE k # 1
      <4>1. ReadAt(T, inodes', EntriesIn(ts[k], d), m)
        BY <2>1, <3>1, SameReadAt
      <4>2. k - 1 \in DOMAIN us /\ us[k - 1] = ts[k]
        BY <3>1, <3>3
      <4>3. QED
        BY <4>1, <4>2 DEF T
    <3>4. QED
      BY <3>2, <3>3
  <2>4. QED
    BY <1>10, <2>2, <2>3 DEF S, E
<1>15. QED
  BY <1>13, <1>14

\* A directory that is read has of each message what is in the tree now.
LEMMA ReadKeepsWalked ==
  ASSUME IInv, NEW ts, IsHistory(ts), Walked(ts), NEW q, Present(q), ReadDirContent(q)
  PROVE  Walked(ts)'
<1>1. ReadsInto(q, EntriesIn(tree, PathOf(q)))
  BY ContentReadsInto
<1>2. /\ contentRead \subseteq 1..lastInode /\ Root \notin DOMAIN inodes /\ lastInode \in Nat
      /\ DOMAIN inodes \subseteq (Root + 1)..lastInode /\ lastInode >= Root
  BY DEF IInv, RegistryInv, Root
<1>3. Root \notin DOMAIN inodes'
  BY <1>1, <1>2 DEF ReadsInto, Root
<1>4. PICK of : of = ts[1]
  OBVIOUS
<1>5. SUFFICES ASSUME NEW d \in DOMAIN of, NEW p \in contentRead', IsInodeOf(inodes', p, d),
                      NEW m \in Names \cup Dirs
      PROVE  \/ Found(KidsOf(inodes', p), inodes', EntriesIn(of, d), m)
             \/ \E k \in DOMAIN ts : ReadAt(KidsOf(inodes', p), inodes', EntriesIn(ts[k], d), m)
  BY <1>4 DEF Walked
<1>6. CASE p = q
  <2> DEFINE n == Len(pending) + 1
             E == EntriesIn(tree, d)
             S == KidsOf(inodes', p)
  <2>1. PathOf(q) = d
    BY <1>1, <1>2, <1>3, <1>5, <1>6 DEF ReadsInto, IsInodeOf, PathOf, Present, KidsOf
  <2>2. n \in DOMAIN ts /\ ts[n] = tree /\ GoodTree(tree)
    <3>1. Len(pending) \in Nat
      BY DEF IInv, PendingInv
    <3>2. n \in 1..n
      BY <3>1
    <3>3. QED
      BY <3>2 DEF IsHistory
  <2>3. OneOfEach(E)
    <3>1. d \in DOMAIN tree
      BY <2>1 DEF ReadDirContent
    <3>2. QED
      BY <2>2, <3>1 DEF GoodTree
  <2>4. /\ \A j \in S : inodes'[j].entry \in E
        /\ \A e \in E : \E j \in S : inodes'[j].entry = e
        /\ \A i, j \in S : inodes'[i].entry = inodes'[j].entry => i = j
    BY <1>1, <1>6, <2>1 DEF ReadsInto
  <2> HIDE DEF S, E, n
  <2>5. \A i, j \in S : Alike(inodes'[i].entry.name, m) /\ Alike(inodes'[j].entry.name, m) => i = j
    <3> SUFFICES ASSUME NEW i \in S, NEW j \in S, Alike(inodes'[i].entry.name, m),
                        Alike(inodes'[j].entry.name, m)
                 PROVE  i = j
      OBVIOUS
    <3>1. Alike(inodes'[i].entry.name, inodes'[j].entry.name)
      BY AlikeTrans, AlikeSymmetric
    <3>2. QED
      BY <2>3, <2>4, <3>1 DEF OneOfEach
  <2>6. ReadAt(S, inodes', E, m)
    BY <2>4, <2>5 DEF ReadAt
  <2>7. QED
    BY <2>2, <2>6 DEF S, E
<1>7. CASE p # q
  <2>1. p \in contentRead /\ p <= lastInode
    BY <1>1, <1>2, <1>7 DEF ReadsInto
  <2>2. IsInodeOf(inodes, p, d)
    <3>1. CASE d = Top
      BY <1>5, <3>1 DEF IsInodeOf
    <3>2. CASE d # Top
      <4>1. p \in KidsOf(inodes', Root)
        BY <1>5, <3>2 DEF IsInodeOf
      <4>2. q # Root
        BY <1>1, <1>2, <2>1, <4>1 DEF ReadsInto
      <4>3. /\ KidsOf(inodes', Root) = KidsOf(inodes, Root)
            /\ \A j \in KidsOf(inodes, Root) : inodes'[j] = inodes[j]
        BY <1>1, <4>2 DEF ReadsInto, KidsOf
      <4>4. QED
        BY <1>5, <3>2, <4>1, <4>3 DEF IsInodeOf
    <3>3. QED
      BY <3>1, <3>2
  <2> DEFINE S == KidsOf(inodes, p)
  <2>3. KidsOf(inodes', p) = S /\ \A j \in S : inodes'[j] = inodes[j]
    BY <1>1, <1>7 DEF ReadsInto, KidsOf
  <2>4. \/ Found(S, inodes, EntriesIn(of, d), m)
        \/ \E k \in DOMAIN ts : ReadAt(S, inodes, EntriesIn(ts[k], d), m)
    BY <1>4, <2>1, <2>2 DEF Walked
  <2> HIDE DEF S
  <2>5. CASE Found(S, inodes, EntriesIn(of, d), m)
    <3>1. Found(S, inodes', EntriesIn(of, d), m)
      BY <2>3, <2>5, SameFound
    <3>2. QED
      BY <2>3, <3>1
  <2>6. CASE \E k \in DOMAIN ts : ReadAt(S, inodes, EntriesIn(ts[k], d), m)
    <3>1. PICK k \in DOMAIN ts : ReadAt(S, inodes, EntriesIn(ts[k], d), m)
      BY <2>6
    <3>2. ReadAt(S, inodes', EntriesIn(ts[k], d), m)
      BY <2>3, <3>1, SameReadAt
    <3>3. QED
      BY <2>3, <3>2
  <2>7. QED
    BY <2>4, <2>5, <2>6
<1>8. QED
  BY <1>6, <1>7

-----------------------------------------------------------------------------
(* The invariant, and what it says when no event waits *)

\* There are trees that led to this one, such that what was read lists the
\* first of them, and the walk finds what it had, or what was read since.
ShownInv ==
  ~lost /\ ~stray =>
    \E ts : IsHistory(ts) /\ (~crossed => Listed(ts[1])) /\ Walked(ts)

LEMMA InitShown == Init => ShownInv
<1> SUFFICES ASSUME Init PROVE ShownInv
  OBVIOUS
<1>1. PICK ts : IsHistory(ts) /\ ts[1] = tree
  BY InitGood, HistoryStarts DEF Init
<1>2. Listed(ts[1]) /\ Walked(ts)
  BY DEF Init, Listed, Walked
<1>3. QED
  BY <1>1, <1>2 DEF ShownInv

\* The trees all are good.
LEMMA HistoryGood ==
  ASSUME IInv, NEW ts, IsHistory(ts)
  PROVE  /\ 1 \in DOMAIN ts /\ GoodTree(ts[1]) /\ GoodTree(tree)
         /\ pending = <<>> => ts[1] = tree /\ DOMAIN ts = {1}
<1> DEFINE n == Len(pending) + 1
<1>1. n \in Nat /\ n >= 1 /\ (pending = <<>> => n = 1)
  BY DEF IInv, PendingInv
<1>2. DOMAIN ts = 1..n /\ ts[n] = tree /\ \A k \in 1..n : GoodTree(ts[k])
  BY DEF IsHistory
<1> HIDE DEF n
<1>3. 1 \in 1..n /\ n \in 1..n
  BY <1>1
<1>4. QED
  BY <1>1, <1>2, <1>3

LEMMA ChangeKeepsShown ==
  ASSUME IInv, IInv', ShownInv, Producers, ~lost', ~stray'
  PROVE  ShownInv'
<1>1. ~lost /\ ~stray
  <2>1. SUFFICES ASSUME lost \/ stray PROVE ~Producers
    OBVIOUS
  <2>2. stray # FALSE => stray # stray' /\ stray' # TRUE
    BY DEF IInv, PendingInv
  <2>3. ASSUME NEW newTree, NEW event, lost PROVE ~Change(newTree, event)
    BY <2>3 DEF Change
  <2>4. QED
    BY <2>1, <2>2, <2>3, Zenon DEF Producers, PutFile, UpdateFile, UpdateNothing, RemoveFile,
                                   CreateDir, RemoveDir
<1>2. PICK ts : IsHistory(ts) /\ (~crossed => Listed(ts[1])) /\ Walked(ts)
  BY <1>1 DEF ShownInv
<1>3. 1 \in DOMAIN ts /\ GoodTree(tree)
  BY <1>2, HistoryGood
<1>4. PICK event \in AllEvents : ChangeOf(event)
  BY <1>3, ProducersTold DEF IInv
<1>5. GoodTree(tree')
  <2>1. PICK then : then = tree'
    OBVIOUS
  <2>2. Effect(tree, event, then) /\ Top \in DOMAIN then /\ DOMAIN then \subseteq Dirs \cup {Top}
    BY <1>4, <2>1 DEF ChangeOf, IInv, TreeInv
  <2>3. GoodTree(then)
    BY <1>3, <2>2, EffectIsGood
  <2>4. QED
    BY <2>1, <2>3
<1>6. PICK us : /\ IsHistory(us)' /\ DOMAIN ts \subseteq DOMAIN us
                /\ \A k \in DOMAIN ts : us[k] = ts[k]
  BY <1>2, <1>4, <1>5, HistoryGrows
<1>7. /\ us[1] = ts[1] /\ UNCHANGED <<inodes, contentRead, crossed>>
  BY <1>3, <1>4, <1>6 DEF ChangeOf, registry
<1>8. \A d : Doomed(d) => Doomed(d)'
  <2>1. pending \in Seq(AllEvents) /\ pending' = Append(pending, event)
    BY <1>4 DEF IInv, PendingInv, ChangeOf
  <2>2. \A k \in DOMAIN pending : k \in DOMAIN pending' /\ pending'[k] = pending[k]
    BY <2>1
  <2>3. QED
    BY <2>2 DEF Doomed
<1>9. ~crossed' => Listed(us[1])'
  BY <1>2, <1>7, <1>8 DEF Listed, Present
<1>10. Walked(us)'
  <2>1. \A d, m, S : (\E k \in DOMAIN ts : ReadAt(S, inodes, EntriesIn(ts[k], d), m)) =>
                       \E k \in DOMAIN us : ReadAt(S, inodes, EntriesIn(us[k], d), m)
    BY <1>6
  <2>2. QED
    BY <1>2, <1>7, <2>1 DEF Walked
<1>11. QED
  BY <1>6, <1>9, <1>10 DEF ShownInv

LEMMA NextShown == IInv /\ IInv' /\ ReadAreDirs /\ ShownInv /\ [Next]_vars => ShownInv'
<1> SUFFICES ASSUME IInv, IInv', ReadAreDirs, ShownInv, [Next]_vars, ~lost', ~stray'
             PROVE  ShownInv'
  BY DEF ShownInv
<1>1. CASE Producers
  BY <1>1, ChangeKeepsShown
<1>2. CASE FailHandler
  BY <1>2 DEF FailHandler
<1>3. CASE Dispatch
  <2>1. UNCHANGED <<tree, crossed, lost, stray>>
    BY <1>3 DEF Dispatch, producers, history
  <2>2. PICK ts : IsHistory(ts) /\ (~crossed => Listed(ts[1])) /\ Walked(ts)
    BY <2>1 DEF ShownInv
  <2>3. PICK us : /\ IsHistory(us)'
                  /\ \A k \in DOMAIN ts : k = 1 \/ (k - 1 \in DOMAIN us /\ us[k - 1] = ts[k])
                  /\ GoodTree(ts[1]) /\ GoodTree(us[1])
                  /\ Effect(ts[1], Head(pending), us[1])
    BY <1>3, <2>2, HistoryShifts
  <2>4. Walked(us)'
    BY <1>3, <2>2, <2>3, DispatchKeepsWalked
  <2>5. PICK of : of = ts[1]
    OBVIOUS
  <2>6. PICK then : then = us[1]
    OBVIOUS
  <2>7. ~crossed => Listed(then)'
    <3>1. GoodTree(of) /\ Effect(of, Head(pending), then) /\ (~crossed => Listed(of))
      BY <2>2, <2>3, <2>5, <2>6
    <3>2. QED
      BY <1>3, <3>1, DispatchKeepsListed
  <2>8. QED
    BY <2>1, <2>3, <2>4, <2>6, <2>7 DEF ShownInv
<1>4. ASSUME UNCHANGED <<tree, pending, lost, stray, inodes, contentRead, crossed>>
      PROVE  ShownInv'
  BY <1>4 DEF ShownInv, IsHistory, Listed, Walked, Doomed, Present
<1>5. CASE Kernel
  <2>1. UNCHANGED <<tree, pending, lost, stray>>
    BY <1>5, KernelReads
  <2>2. CASE UNCHANGED <<inodes, contentRead, crossed>>
    BY <1>4, <2>1, <2>2
  <2>3. CASE \E q \in {Root} \cup DOMAIN inodes : IsDir(q) /\ ReadDirContent(q)
    <3>1. PICK q \in {Root} \cup DOMAIN inodes : IsDir(q) /\ ReadDirContent(q)
      BY <2>3
    <3>2. Present(q) /\ (~crossed' => ~crossed)
      BY <3>1 DEF Present, ReadDirContent
    <3>3. PICK ts : IsHistory(ts) /\ (~crossed => Listed(ts[1])) /\ Walked(ts)
      BY <2>1 DEF ShownInv
    <3>4. GoodTree(ts[1])
      BY <3>3, HistoryGood
    <3>5. IsHistory(ts)'
      BY <2>1, <3>3 DEF IsHistory
    <3>6. Walked(ts)'
      BY <3>1, <3>2, <3>3, ReadKeepsWalked
    <3>7. ~crossed' => Listed(ts[1])'
      BY <2>1, <3>1, <3>2, <3>3, <3>4, ReadKeepsListed
    <3>8. QED
      BY <3>5, <3>6, <3>7 DEF ShownInv
  <2>4. QED
    BY <1>5, <2>2, <2>3, KernelReads
<1>6. CASE UNCHANGED vars
  BY <1>4, <1>6 DEF vars, producers, registry, history
<1>7. QED
  BY <1>1, <1>2, <1>3, <1>5, <1>6 DEF Next

\* What lists the entries, each once, lists as many.
LEMMA ExactlyLists ==
  ASSUME IInv, NEW p, NEW d \in DOMAIN tree, d = PathOf(p),
         Exactly(KidsOf(inodes, p), inodes, EntriesIn(tree, d))
  PROVE  Lists(p)
<1> DEFINE S == Children(p)
           E == Entries(d)
<1>1. S = KidsOf(inodes, p) /\ E = EntriesIn(tree, d)
  BY DEF Children, KidsOf, Entries, EntriesIn
<1>2. S \subseteq DOMAIN inodes /\ IsFiniteSet(S)
  <2>1. S \subseteq 1..lastInode /\ lastInode \in Int
    BY DEF IInv, RegistryInv, Root, Children
  <2>2. IsFiniteSet(1..lastInode)
    <3>1. 1 \in Int
      OBVIOUS
    <3>2. QED
      BY <2>1, <3>1, FS_Interval
  <2>3. QED
    BY <2>1, <2>2, FS_Subset, Zenon DEF Children
<1> HIDE DEF S, E
<1>3. /\ \A i \in S : inodes[i].entry \in E
      /\ \A e \in E : \E i \in S : inodes[i].entry = e
      /\ \A i, j \in S : inodes[i].entry = inodes[j].entry => i = j
  BY <1>1 DEF Exactly
<1> DEFINE f == [i \in S |-> inodes[i].entry]
<1>4. f \in Bijection(S, E)
  BY <1>3 DEF Bijection, Injection, Surjection, IsInjective
<1>5. Cardinality(E) = Cardinality(S)
  BY <1>2, <1>4, FS_Bijection, Zenon DEF ExistsBijection
<1>6. {inodes[i].entry : i \in S} = E
  BY <1>3
<1>7. QED
  BY <1>5, <1>6 DEF Lists, S, E

\* When no event waits, the first tree is the tree, and nothing is doomed.
LEMMA SettledListed ==
  ASSUME IInv, ShownInv, Settled, ~crossed, ~lost, ~stray, NEW p \in contentRead, Present(p)
  PROVE  /\ PathOf(p) \in DOMAIN tree
         /\ Exactly(KidsOf(inodes, p), inodes, EntriesIn(tree, PathOf(p)))
<1>1. PICK ts : IsHistory(ts) /\ Listed(ts[1])
  BY DEF ShownInv
<1>2. pending = <<>> /\ ts[1] = tree
  BY <1>1, HistoryGood DEF Settled
<1>3. \A d : ~Doomed(d)
  BY <1>2 DEF Doomed
<1>4. PathOf(p) = PathIn(inodes, p)
  BY DEF PathOf, PathIn
<1>5. QED
  BY <1>1, <1>2, <1>3, <1>4 DEF Listed

LEMMA SettledWalked ==
  ASSUME IInv, ShownInv, Settled, ~lost, ~stray, NEW d \in DOMAIN tree, NEW p,
         p = DirInode(d), p \in contentRead, NEW e \in Entries(d)
  PROVE  Child(p, e.name) # NoInode /\ inodes[Child(p, e.name)].entry = e
<1> DEFINE S == KidsOf(inodes, p)
           E == EntriesIn(tree, d)
<1>1. PICK ts : IsHistory(ts) /\ Walked(ts)
  BY DEF ShownInv
<1>2. ts[1] = tree /\ DOMAIN ts = {1}
  BY <1>1, HistoryGood DEF Settled
<1>3. /\ p # NoInode /\ NoInode \notin DOMAIN inodes /\ S \subseteq Nat
  BY DEF IInv, RegistryInv, Root, NoInode, KidsOf
<1>4. IsInodeOf(inodes, p, d)
  BY <1>3, InodeOfPath DEF IInv
<1>5. E = Entries(d) /\ e.name \in Names \cup Dirs
  <2>1. E = Entries(d)
    BY DEF Entries, EntriesIn
  <2>2. e \in AllEntries
    BY EntriesAreEntries DEF IInv
  <2>3. QED
    BY <2>1, <2>2 DEF AllEntries, FileEntries, DirEntries
<1>6. Found(S, inodes, E, e.name) \/ ReadAt(S, inodes, E, e.name)
  BY <1>1, <1>2, <1>4, <1>5 DEF Walked
<1> HIDE DEF E
<1>7. Found(S, inodes, E, e.name)
  BY <1>3, <1>6, ReadFound
<1>8. PICK i \in S : inodes[i].entry = e /\ Latest(S, inodes, i)
  BY <1>5, <1>7 DEF Found, Alike
<1>9. \A j \in S : inodes[j].entry.name = inodes[i].entry.name => j <= i
  BY <1>8 DEF Latest, Alike
<1>10. Child(p, inodes[i].entry.name) = i
  BY <1>9, LatestFound DEF IInv
<1>11. QED
  BY <1>3, <1>8, <1>10 DEF KidsOf

LEMMA SettledWalkedOnly ==
  ASSUME IInv, ShownInv, Settled, ~crossed, ~lost, ~stray, NEW d \in DOMAIN tree, NEW p,
         p = DirInode(d), p \in contentRead, NEW n, Child(p, n) # NoInode
  PROVE  n \in {e.name : e \in Entries(d)}
<1>1. p # NoInode /\ Present(p) /\ PathOf(p) = d
  <2>1. p # NoInode /\ Root \notin DOMAIN inodes
    BY DEF IInv, RegistryInv, Root, NoInode
  <2>2. IsInodeOf(inodes, p, d)
    BY <2>1, InodeOfPath DEF IInv
  <2>3. QED
    BY <2>1, <2>2 DEF IsInodeOf, Present, PathOf, KidsOf
<1>2. Exactly(KidsOf(inodes, p), inodes, EntriesIn(tree, d))
  BY <1>1, SettledListed
<1>3. Child(p, n) \in KidsOf(inodes, p) /\ inodes[Child(p, n)].entry.name = n
  BY ChildFound DEF IInv, Children, KidsOf
<1>4. inodes[Child(p, n)].entry \in EntriesIn(tree, d)
  BY <1>2, <1>3 DEF Exactly
<1>5. EntriesIn(tree, d) = Entries(d)
  BY DEF Entries, EntriesIn
<1>6. QED
  BY <1>3, <1>4, <1>5

\* However updates and requests interleave, the file system lists what the tree
\* has between two updates, each entry once: FileSystemOperationsUpdatable.update
\* (fs/update.py) brings up to date whatever _read_dir_content
\* (fs/operations.py) has read, unless a directory was read while an event of it
\* waited, a handler failed, or an event told of a file that is not there.
THEOREM ListsWhatTreeHas == Spec => []ListsTree
<1>1. IInv /\ ShownInv => ListsTree
  <2> SUFFICES ASSUME IInv, ShownInv, Settled, ~crossed, ~lost, ~stray,
                      NEW p \in contentRead, Present(p)
               PROVE  Lists(p)
    BY DEF ListsTree
  <2>1. QED
    BY SettledListed, ExactlyLists
<1>2. Init => ReadAreDirs
  BY DEF Init, ReadAreDirs
<1>3. QED
  BY <1>1, <1>2, InitIInv, InitShown, NextIInv, NextReadAreDirs, NextShown, PTL DEF Spec

\* The walk from the root finds every file and directory of the tree that it
\* could find, with its current content, whatever was read while events of it
\* waited: the item that get_child_item_by_name (fs/inode.py) finds is the one
\* that the last event of its message made or changed, or the only one that was
\* read of it.  If no directory was read while one of its events waited, it
\* finds nothing else.  A handler that fails, or an event of a file that is not
\* there, is excepted.
THEOREM WalkFindsWhatTreeHas == Spec => []WalkFindsTree
<1>1. IInv /\ ShownInv => WalkFindsTree
  <2> SUFFICES ASSUME IInv, ShownInv, Settled, ~lost, ~stray, NEW d \in DOMAIN tree,
                      NEW p, p = DirInode(d), p \in contentRead
               PROVE  /\ \A e \in Entries(d) :
                           Child(p, e.name) # NoInode /\ inodes[Child(p, e.name)].entry = e
                      /\ ~crossed => \A n \in Names \cup Dirs :
                           Child(p, n) # NoInode => n \in {e.name : e \in Entries(d)}
    BY DEF WalkFindsTree
  <2>1. \A e \in Entries(d) :
          Child(p, e.name) # NoInode /\ inodes[Child(p, e.name)].entry = e
    BY SettledWalked
  <2>2. ~crossed => \A n \in Names \cup Dirs :
          Child(p, n) # NoInode => n \in {e.name : e \in Entries(d)}
    BY SettledWalkedOnly
  <2>3. QED
    BY <2>1, <2>2
<1>2. Init => ReadAreDirs
  BY DEF Init, ReadAreDirs
<1>3. QED
  BY <1>1, <1>2, InitIInv, InitShown, NextIInv, NextReadAreDirs, NextShown, PTL DEF Spec
=============================================================================
