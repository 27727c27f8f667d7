---------------------------- MODULE GrouperProofs ----------------------------
(***************************************************************************)
(* Proofs about Grouper, for any messages, groups and directory structure: *)
(* the registry of the tree agrees with its directories, the groups have   *)
(* the messages of the source that belong to them, and the directories of  *)
(* a group show its messages.                                              *)
(***************************************************************************)
EXTENDS Grouper, SequenceLemmas

-----------------------------------------------------------------------------
(* Trees *)

\* The names of directories.
Words == Range(DirOf) \cup UNION {Range(Parts[k]) : k \in DOMAIN Parts}

Paths == Seq(Words)

Files == [id : Nat, content : Contents]

\* What an event is about.
Things == Paths \cup Files

Kinds == {"newItems", "removedItems", "updatedItems", "newDirs", "removedDirs"}

Events == [kind : Kinds, sender : Paths, items : Seq(Things)]

Trees ==
  [dirs    : UNION {[S -> Seq(Files)] : S \in SUBSET Paths},
   subdirs : UNION {[S -> Seq(Paths)] : S \in SUBSET Paths},
   shown   : SUBSET Things,
   events  : Seq(Events)]

\* What wrappers pass on.
Passings == [shown : SUBSET Things, out : Seq(Events)]

LEMMA EventIsOne ==
  ASSUME NEW kind \in Kinds, NEW sender \in Paths, NEW items \in Seq(Things)
  PROVE  Event(kind, sender, items) \in Events
BY DEF Event, Events

LEMMA WrapEventProps ==
  ASSUME NEW t0, NEW w \in Paths, NEW passed \in Passings, NEW event \in Events
  PROVE  WrapEvent(t0, w, passed, event) \in Passings
<1> DEFINE sender   == event.sender
           announce == Event("newDirs", w, <<sender>>)
           withdraw == Event("removedDirs", w, <<sender>>)
<1>1. /\ sender \in Things /\ <<sender>> \in Seq(Things)
      /\ passed.shown \subseteq Things /\ passed.out \in Seq(Events)
  <2>1. sender \in Paths
    BY DEF Events
  <2>2. sender \in Things
    BY <2>1 DEF Things
  <2>3. QED
    BY <2>2 DEF Passings
<1>2. announce \in Events /\ withdraw \in Events
  <2>1. "newDirs" \in Kinds /\ "removedDirs" \in Kinds
    BY DEF Kinds
  <2>2. QED
    BY <1>1, <2>1, EventIsOne
<1> HIDE DEF announce, withdraw
<1>3. \A list \in Seq(Events) : passed.out \o list \in Seq(Events)
  BY <1>1
<1>4. <<withdraw>> \in Seq(Events) /\ <<event>> \in Seq(Events) /\ <<announce, event>> \in Seq(Events)
      /\ <<>> \in Seq(Events)
  BY <1>2
<1>5. Range(event.items) \subseteq Things
  <2>1. event.items \in Seq(Things)
    BY DEF Events
  <2>2. QED
    BY <2>1 DEF Range
<1> DEFINE Made(shown, events) == [shown |-> shown, out |-> passed.out \o events]
<1>6. \A shown \in SUBSET Things, events \in Seq(Events) : Made(shown, events) \in Passings
  BY <1>3 DEF Passings
<1>7. /\ Made(passed.shown \ {sender}, <<withdraw>>) \in Passings
      /\ Made(passed.shown, <<event>>) \in Passings
      /\ Made(Remembered(passed.shown, sender), <<announce, event>>) \in Passings
      /\ Made(passed.shown \cup {d \in Range(event.items) : ~IsEmpty(t0, d)}, <<>>) \in Passings
  <2>1. /\ passed.shown \ {sender} \in SUBSET Things
        /\ Remembered(passed.shown, sender) \in SUBSET Things
        /\ passed.shown \cup {d \in Range(event.items) : ~IsEmpty(t0, d)} \in SUBSET Things
    BY <1>1, <1>5 DEF Remembered
  <2> HIDE DEF Made
  <2>2. QED
    BY <1>1, <1>4, <1>6, <2>1
<1>8. QED
  BY <1>7, Zenon DEF WrapEvent, announce, withdraw

\* A wrapper makes events of events.
LEMMA WrapEventsProps ==
  ASSUME NEW t0, NEW w \in Paths, NEW passed \in Passings
  PROVE  WrapEvents(t0, w, passed) \in Passings
<1> DEFINE list == passed.out
           n    == Len(list)
           base == [shown |-> passed.shown, out |-> <<>>]
           step == [p \in Passings \X (1..n) |-> WrapEvent(t0, w, p[1], list[p[2]])]
           Is(f, T) == f[T] = IF T = {} THEN base
                              ELSE WrapEvent(t0, w, f[T \ {Max(T)}], list[Max(T)])
           Equation(f) ==
             f = [T \in SUBSET (1..n) |->
                    IF T = {} THEN base
                    ELSE WrapEvent(t0, w, f[T \ {Max(T)}], list[Max(T)])]
           folded == CHOOSE f : Equation(f)
<1>1. /\ n \in Nat /\ DOMAIN list = 1..n /\ \A k \in 1..n : list[k] \in Events
      /\ base \in Passings
  BY DEF Passings
<1>2. FoldLeft(LAMBDA acc, event : WrapEvent(t0, w, acc, event), base, list) = folded[1..n]
  BY <1>1 DEF FoldLeft, MapThenFoldSet
<1> HIDE DEF n, base, list
<1>3. step \in [Passings \X (1..n) -> Passings]
  BY <1>1, WrapEventProps
<1>4. PICK iter \in [SUBSET (1..n) -> Passings] : Folds(iter, n, base, step)
  BY <1>1, <1>3, FoldDefined
<1>5. ASSUME NEW T \in SUBSET (1..n) PROVE Is(iter, T)
  <2>1. T # {} => Max(T) \in 1..n /\ iter[T \ {Max(T)}] \in Passings
    BY <1>1, MaxOfSome
  <2>2. QED
    BY <1>4, <2>1 DEF Folds
<1>6. Equation(iter)
  BY <1>5
<1>7. Equation(folded)
  <2> HIDE DEF Equation
  <2>1. QED
    BY <1>6, Zenon
<1> HIDE DEF folded
<1>8. StepsIn(Passings, folded, n, base, step)
  BY <1>1, <1>7, FirstNumbers DEF StepsIn
<1> HIDE DEF Equation, step
<1>9. folded[1..n] \in Passings
  BY <1>1, <1>3, <1>8, FoldStays
<1>10. QED
  BY <1>2, <1>9 DEF WrapEvents, base, list

\* The beginning of a path is a path.
LEMMA Beginnings ==
  ASSUME NEW path \in Paths, NEW k \in 0..Len(path)
  PROVE  SubSeq(path, 1, k) \in Paths /\ Len(SubSeq(path, 1, k)) = k
BY DEF Paths

\* What the listener of the tree is told changes no directory.
LEMMA ChildUpdatedProps ==
  ASSUME NEW t0 \in Trees, NEW path \in Paths, NEW event \in Events
  PROVE  LET t == ChildUpdated(t0, path, event)
         IN  t \in Trees /\ t.dirs = t0.dirs /\ t.subdirs = t0.subdirs
<1> DEFINE list == Ancestors(path)
           n    == Len(path) + 1
           base == [shown |-> t0.shown, out |-> <<event>>]
           step == [p \in Passings \X (1..n) |-> WrapEvents(t0, list[p[2]], p[1])]
           Is(f, T) == f[T] = IF T = {} THEN base
                              ELSE WrapEvents(t0, list[Max(T)], f[T \ {Max(T)}])
           Equation(f) ==
             f = [T \in SUBSET (1..n) |->
                    IF T = {} THEN base
                    ELSE WrapEvents(t0, list[Max(T)], f[T \ {Max(T)}])]
           folded == CHOOSE f : Equation(f)
<1>1. /\ n \in Nat /\ DOMAIN list = 1..n /\ \A k \in 1..n : list[k] \in Paths
      /\ base \in Passings
  <2>1. Len(path) \in Nat
    BY DEF Paths
  <2>2. ASSUME NEW k \in 1..n PROVE list[k] \in Paths
    <3>1. Len(path) + 1 - k \in 0..Len(path)
      BY <2>1
    <3>2. QED
      BY <3>1, Beginnings DEF Ancestors
  <2>3. base \in Passings
    BY DEF Passings, Trees
  <2>4. QED
    BY <2>1, <2>2, <2>3 DEF Ancestors
<1>2. FoldLeft(LAMBDA acc, w : WrapEvents(t0, w, acc), base, list) = folded[1..n]
  BY <1>1 DEF FoldLeft, MapThenFoldSet
<1> HIDE DEF n, base, list
<1>3. step \in [Passings \X (1..n) -> Passings]
  BY <1>1, WrapEventsProps
<1>4. PICK iter \in [SUBSET (1..n) -> Passings] : Folds(iter, n, base, step)
  BY <1>1, <1>3, FoldDefined
<1>5. ASSUME NEW T \in SUBSET (1..n) PROVE Is(iter, T)
  <2>1. T # {} => Max(T) \in 1..n /\ iter[T \ {Max(T)}] \in Passings
    BY <1>1, MaxOfSome
  <2>2. QED
    BY <1>4, <2>1 DEF Folds
<1>6. Equation(iter)
  BY <1>5
<1>7. Equation(folded)
  <2> HIDE DEF Equation
  <2>1. QED
    BY <1>6, Zenon
<1> HIDE DEF folded
<1>8. StepsIn(Passings, folded, n, base, step)
  BY <1>1, <1>7, FirstNumbers DEF StepsIn
<1> HIDE DEF Equation, step
<1>9. folded[1..n] \in Passings
  BY <1>1, <1>3, <1>8, FoldStays
<1> DEFINE passed == FoldLeft(LAMBDA acc, w : WrapEvents(t0, w, acc), base, list)
<1>10. passed \in Passings
  BY <1>2, <1>9
<1>11. ChildUpdated(t0, path, event)
         = [t0 EXCEPT !.shown = passed.shown, !.events = @ \o passed.out]
  BY DEF ChildUpdated, base, list
<1> HIDE DEF passed
<1>12. t0.events \o passed.out \in Seq(Events)
  BY <1>10 DEF Trees, Passings
<1>13. QED
  BY <1>10, <1>11, <1>12 DEF Trees, Passings

-----------------------------------------------------------------------------
(* Operations of the tree *)

LEMMA TreeShape ==
  ASSUME NEW t \in Trees
  PROVE  /\ t.dirs \in [DOMAIN t.dirs -> Seq(Files)] /\ DOMAIN t.dirs \subseteq Paths
         /\ t.subdirs \in [DOMAIN t.subdirs -> Seq(Paths)] /\ DOMAIN t.subdirs \subseteq Paths
         /\ t.shown \subseteq Things /\ t.events \in Seq(Events)
         /\ t = [dirs |-> t.dirs, subdirs |-> t.subdirs, shown |-> t.shown,
                 events |-> t.events]
BY DEF Trees

LEMMA TreeMade ==
  ASSUME NEW dirs, dirs \in [DOMAIN dirs -> Seq(Files)], DOMAIN dirs \subseteq Paths,
         NEW subdirs, subdirs \in [DOMAIN subdirs -> Seq(Paths)],
         DOMAIN subdirs \subseteq Paths,
         NEW shown \in SUBSET Things, NEW events \in Seq(Events)
  PROVE  [dirs |-> dirs, subdirs |-> subdirs, shown |-> shown, events |-> events] \in Trees
BY DEF Trees

\* Another content of a directory.
LEMMA ContentSet ==
  ASSUME NEW t \in Trees, NEW path \in DOMAIN t.dirs, NEW list \in Seq(Files)
  PROVE  [t EXCEPT !.dirs[path] = list] \in Trees
<1> DEFINE dirs == [t.dirs EXCEPT ![path] = list]
           t2   == [dirs |-> dirs, subdirs |-> t.subdirs, shown |-> t.shown,
                    events |-> t.events]
<1>1. dirs \in [DOMAIN dirs -> Seq(Files)] /\ DOMAIN dirs \subseteq Paths
  BY TreeShape
<1>2. [t EXCEPT !.dirs[path] = list] = t2
  <2>1. t = [dirs |-> t.dirs, subdirs |-> t.subdirs, shown |-> t.shown,
             events |-> t.events]
    BY TreeShape
  <2>2. ASSUME NEW a, NEW b, NEW c, NEW d,
               t = [dirs |-> a, subdirs |-> b, shown |-> c, events |-> d]
        PROVE  [t EXCEPT !.dirs[path] = list]
                 = [dirs |-> [a EXCEPT ![path] = list], subdirs |-> b, shown |-> c,
                    events |-> d]
    BY <2>2
  <2>3. QED
    BY <2>1, <2>2
<1>3. /\ t.subdirs \in [DOMAIN t.subdirs -> Seq(Paths)] /\ DOMAIN t.subdirs \subseteq Paths
      /\ t.shown \in SUBSET Things /\ t.events \in Seq(Events)
  BY TreeShape
<1> HIDE DEF dirs
<1>4. t2 \in Trees
  BY <1>1, <1>3, TreeMade
<1>5. QED
  BY <1>2, <1>4

LEMMA FilesAreThings ==
  ASSUME NEW items \in Seq(Files)
  PROVE  items \in Seq(Things)
BY DEF Things

LEMMA PutContentProps ==
  ASSUME NEW t \in Trees, NEW path \in DOMAIN t.dirs, NEW items \in Seq(Files)
  PROVE  LET u == PutContent(t, path, items)
         IN  /\ u \in Trees /\ u.subdirs = t.subdirs
             /\ u.dirs = [t.dirs EXCEPT ![path] = @ \o items]
<1> DEFINE list == t.dirs[path] \o items
           t2   == [t EXCEPT !.dirs[path] = list]
<1>1. list \in Seq(Files) /\ path \in Paths
  BY TreeShape
<1>2. t2 \in Trees
  BY <1>1, ContentSet
<1>3. t2.dirs = [t.dirs EXCEPT ![path] = list] /\ t2.subdirs = t.subdirs
  BY DEF Trees
<1>4. Event("newItems", path, items) \in Events
  BY <1>1, FilesAreThings, EventIsOne DEF Kinds
<1> HIDE DEF t2
<1>5. LET u == ChildUpdated(t2, path, Event("newItems", path, items))
      IN  u \in Trees /\ u.dirs = t2.dirs /\ u.subdirs = t2.subdirs
  BY <1>1, <1>2, <1>4, ChildUpdatedProps
<1>6. PutContent(t, path, items) = ChildUpdated(t2, path, Event("newItems", path, items))
  BY DEF PutContent, t2
<1>7. QED
  BY <1>3, <1>5, <1>6

\* An element less, or none.
LEMMA RemoveFirstType ==
  ASSUME NEW S, NEW list \in Seq(S), NEW e
  PROVE  RemoveFirst(list, e) \in Seq(S)
<1> DEFINE k == SelectInSeq(list, LAMBDA v : v = e)
           at == {i \in 1..Len(list) : list[i] = e}
<1>1. CASE \E i \in 1..Len(list) : list[i] = e
  <2>1. at # {} /\ at \subseteq Nat
    BY <1>1
  <2>2. \E x \in at : \A y \in at : x <= y
    BY <2>1, NatMin, Zenon
  <2>3. k \in 1..Len(list)
    BY <1>1, <2>2 DEF SelectInSeq, Min
  <2>4. RemoveFirst(list, e) = SubSeq(list, 1, k - 1) \o SubSeq(list, k + 1, Len(list))
    BY <1>1 DEF RemoveFirst, RemoveAt
  <2> HIDE DEF k
  <2>5. SubSeq(list, 1, k - 1) \in Seq(S) /\ SubSeq(list, k + 1, Len(list)) \in Seq(S)
    BY <2>3
  <2>6. QED
    BY <2>4, <2>5
<1>2. CASE ~\E i \in 1..Len(list) : list[i] = e
  BY <1>2 DEF RemoveFirst
<1>3. QED
  BY <1>1, <1>2

LEMMA RemoveContentProps ==
  ASSUME NEW t \in Trees, NEW path \in DOMAIN t.dirs, NEW item \in Files
  PROVE  LET u == RemoveContent(t, path, item)
         IN  /\ u \in Trees /\ u.subdirs = t.subdirs
             /\ u.dirs = [t.dirs EXCEPT ![path] = RemoveFirst(@, item)]
<1> DEFINE list == RemoveFirst(t.dirs[path], item)
           t2   == [t EXCEPT !.dirs[path] = list]
<1>1. list \in Seq(Files) /\ path \in Paths
  BY TreeShape, RemoveFirstType
<1> HIDE DEF list
<1>2. t2 \in Trees
  BY <1>1, ContentSet
<1>3. t2.dirs = [t.dirs EXCEPT ![path] = list] /\ t2.subdirs = t.subdirs
  BY DEF Trees
<1>4. Event("removedItems", path, <<item>>) \in Events
  <2>1. <<item>> \in Seq(Files)
    OBVIOUS
  <2>2. QED
    BY <1>1, <2>1, FilesAreThings, EventIsOne DEF Kinds
<1> HIDE DEF t2
<1>5. LET u == ChildUpdated(t2, path, Event("removedItems", path, <<item>>))
      IN  u \in Trees /\ u.dirs = t2.dirs /\ u.subdirs = t2.subdirs
  BY <1>1, <1>2, <1>4, ChildUpdatedProps
<1>6. RemoveContent(t, path, item)
        = ChildUpdated(t2, path, Event("removedItems", path, <<item>>))
  BY DEF RemoveContent, t2, list
<1>7. QED
  BY <1>3, <1>5, <1>6 DEF list

\* The items of a directory after an update: found by their ids, the last of an id.
Renewed(list, items) ==
  [k \in DOMAIN list |->
     LET at == {l \in DOMAIN items : items[l].id = list[k].id}
     IN  IF at = {} THEN list[k] ELSE items[Max(at)]]

LEMMA RenewedItem ==
  ASSUME NEW list \in Seq(Files), NEW items \in Seq(Files), NEW k \in DOMAIN list
  PROVE  \/ /\ ~ \E l \in DOMAIN items : items[l].id = list[k].id
            /\ Renewed(list, items)[k] = list[k]
         \/ \E l \in DOMAIN items : items[l].id = list[k].id
                                    /\ Renewed(list, items)[k] = items[l]
<1> DEFINE at == {l \in DOMAIN items : items[l].id = list[k].id}
<1>1. at \subseteq 0..Len(items) /\ Len(items) \in Nat
  OBVIOUS
<1>2. at # {} => \E x \in at : \A y \in at : x >= y
  BY <1>1, NatMax, Zenon
<1>3. at # {} => Max(at) \in at
  BY <1>2 DEF Max
<1>4. Renewed(list, items)[k] = IF at = {} THEN list[k] ELSE items[Max(at)]
  BY DEF Renewed
<1>5. QED
  BY <1>3, <1>4

LEMMA RenewedType ==
  ASSUME NEW list \in Seq(Files), NEW items \in Seq(Files)
  PROVE  /\ Renewed(list, items) \in Seq(Files)
         /\ DOMAIN Renewed(list, items) = DOMAIN list
<1>1. \A k \in 1..Len(list) : Renewed(list, items)[k] \in Files
  BY RenewedItem
<1>2. Renewed(list, items) = [k \in 1..Len(list) |-> Renewed(list, items)[k]]
      /\ Len(list) \in Nat
  BY DEF Renewed
<1>3. QED
  BY <1>1, <1>2

LEMMA UpdateContentProps ==
  ASSUME NEW t \in Trees, NEW path \in DOMAIN t.dirs, NEW items \in Seq(Files)
  PROVE  LET u == UpdateContent(t, path, items)
         IN  /\ u \in Trees /\ u.subdirs = t.subdirs
             /\ u.dirs = [t.dirs EXCEPT ![path] = Renewed(@, items)]
<1> DEFINE list == Renewed(t.dirs[path], items)
           t2   == [t EXCEPT !.dirs[path] = list]
<1>1. list \in Seq(Files) /\ path \in Paths
  BY TreeShape, RenewedType
<1>2. UpdateContent(t, path, items)
        = ChildUpdated(t2, path, Event("updatedItems", path, items))
  BY DEF UpdateContent, Renewed
<1> HIDE DEF list
<1>3. t2 \in Trees
  BY <1>1, ContentSet
<1>4. t2.dirs = [t.dirs EXCEPT ![path] = list] /\ t2.subdirs = t.subdirs
  BY DEF Trees
<1>5. Event("updatedItems", path, items) \in Events
  BY <1>1, FilesAreThings, EventIsOne DEF Kinds
<1> HIDE DEF t2
<1>6. LET u == ChildUpdated(t2, path, Event("updatedItems", path, items))
      IN  u \in Trees /\ u.dirs = t2.dirs /\ u.subdirs = t2.subdirs
  BY <1>1, <1>3, <1>5, ChildUpdatedProps
<1>7. QED
  BY <1>2, <1>4, <1>6 DEF list

LEMMA ParentIsPath ==
  ASSUME NEW path \in Paths, path # <<>>
  PROVE  Parent(path) \in Paths /\ Len(Parent(path)) = Len(path) - 1
<1>1. Len(path) \in Nat /\ Len(path) # 0
  BY DEF Paths
<1>2. Len(path) - 1 \in 0..Len(path)
  BY <1>1
<1>3. QED
  BY <1>2, Beginnings DEF Parent, Front

\* The registry after a path was added to it.
Linked(subdirs, path) ==
  [p \in DOMAIN subdirs \cup {path} |->
     IF p = path THEN <<>>
     ELSE IF p = Parent(path) THEN Append(subdirs[p], path) ELSE subdirs[p]]

LEMMA PathThings ==
  ASSUME NEW path \in Paths
  PROVE  <<path>> \in Seq(Things) /\ {path} \subseteq Things
BY DEF Things

\* A path that is there already.
LEMMA PutDirAgain ==
  ASSUME NEW t \in Trees, NEW path \in DOMAIN t.dirs
  PROVE  LET u == PutDir(t, path)
         IN  u \in Trees /\ u.subdirs = t.subdirs /\ u.dirs = [t.dirs EXCEPT ![path] = <<>>]
<1> DEFINE t2 == [t EXCEPT !.dirs[path] = <<>>]
           u  == [t2 EXCEPT !.shown = Forgotten(@, {path})]
<1>1. t2 \in Trees
  <2>1. <<>> \in Seq(Files)
    OBVIOUS
  <2>2. QED
    BY <2>1, ContentSet
<1>2. PutDir(t, path) = u
  BY DEF PutDir
<1>3. t2.dirs = [t.dirs EXCEPT ![path] = <<>>] /\ t2.subdirs = t.subdirs
  BY DEF Trees
<1> HIDE DEF t2
<1>4. u \in Trees /\ u.dirs = t2.dirs /\ u.subdirs = t2.subdirs
  BY <1>1 DEF Trees, Forgotten
<1>5. QED
  BY <1>2, <1>3, <1>4

\* A new path.
LEMMA PutDirNew ==
  ASSUME NEW t \in Trees, NEW path \in Paths, path # <<>>, path \notin DOMAIN t.dirs,
         DOMAIN t.subdirs = DOMAIN t.dirs
  PROVE  LET u == PutDir(t, path)
         IN  /\ u \in Trees /\ u.subdirs = Linked(t.subdirs, path)
             /\ u.dirs = [p \in DOMAIN t.dirs \cup {path} |->
                            IF p = path THEN <<>> ELSE t.dirs[p]]
<1> DEFINE dirs == [p \in DOMAIN t.dirs \cup {path} |->
                      IF p = path THEN <<>> ELSE t.dirs[p]]
           subs == Linked(t.subdirs, path)
           t2   == [t EXCEPT !.dirs = dirs, !.subdirs = subs]
           event == Event("newDirs", Parent(path), <<path>>)
<1>1. Parent(path) \in Paths
  BY ParentIsPath
<1>2. event \in Events
  BY <1>1, PathThings, EventIsOne DEF Kinds
<1>3. PutDir(t, path) = ChildUpdated(t2, Parent(path), event)
  BY DEF PutDir, Linked
<1>4. /\ dirs \in [DOMAIN dirs -> Seq(Files)] /\ DOMAIN dirs \subseteq Paths
  BY TreeShape
<1>5. /\ subs \in [DOMAIN subs -> Seq(Paths)] /\ DOMAIN subs \subseteq Paths
  <2>1. ASSUME NEW p \in DOMAIN subs PROVE subs[p] \in Seq(Paths)
    <3>1. p = path \/ t.subdirs[p] \in Seq(Paths)
      BY TreeShape DEF Linked
    <3>2. QED
      BY <3>1 DEF Linked
  <2>2. DOMAIN subs \subseteq Paths
    BY TreeShape DEF Linked
  <2>3. subs = [p \in DOMAIN subs |-> subs[p]]
    BY DEF Linked
  <2> HIDE DEF subs
  <2>4. QED
    BY <2>1, <2>2, <2>3
<1> HIDE DEF dirs, subs
<1>6. /\ dirs \in UNION {[S -> Seq(Files)] : S \in SUBSET Paths}
      /\ subs \in UNION {[S -> Seq(Paths)] : S \in SUBSET Paths}
  BY <1>4, <1>5
<1>7. t2 \in Trees /\ t2.dirs = dirs /\ t2.subdirs = subs
  BY <1>6 DEF Trees
<1> HIDE DEF t2, event
<1>8. QED
  BY <1>1, <1>2, <1>3, <1>7, ChildUpdatedProps DEF dirs, subs

-----------------------------------------------------------------------------
(* Paths *)

LEMMA PathShape ==
  ASSUME NEW p \in Paths
  PROVE  /\ Len(p) \in Nat /\ DOMAIN p = 1..Len(p)
         /\ Len(p) = 0 <=> p = <<>>
         /\ p \in Seq(Words)
BY DEF Paths

LEMMA SamePaths ==
  ASSUME NEW p \in Paths, NEW q \in Paths, Len(p) = Len(q),
         \A i \in 1..Len(p) : p[i] = q[i]
  PROVE  p = q
BY SeqEqual DEF Paths

LEMMA BeginningAt ==
  ASSUME NEW p \in Paths, NEW k \in 0..Len(p), NEW i \in 1..k
  PROVE  SubSeq(p, 1, k)[i] = p[i]
BY DEF Paths

LEMMA BeginningsAgree ==
  ASSUME NEW p \in Paths, NEW q \in Paths, NEW k \in Nat, k <= Len(p), k <= Len(q)
  PROVE  SubSeq(p, 1, k) = SubSeq(q, 1, k) <=> \A i \in 1..k : p[i] = q[i]
<1>0. k \in 0..Len(p) /\ k \in 0..Len(q)
  BY PathShape
<1>1. /\ SubSeq(p, 1, k) \in Paths /\ SubSeq(q, 1, k) \in Paths
      /\ Len(SubSeq(p, 1, k)) = k /\ Len(SubSeq(q, 1, k)) = k
  BY <1>0, Beginnings
<1>2. \A i \in 1..k : SubSeq(p, 1, k)[i] = p[i] /\ SubSeq(q, 1, k)[i] = q[i]
  BY <1>0, BeginningAt
<1>3. ASSUME \A i \in 1..k : p[i] = q[i] PROVE SubSeq(p, 1, k) = SubSeq(q, 1, k)
  BY <1>1, <1>2, <1>3, SamePaths
<1>4. ASSUME SubSeq(p, 1, k) = SubSeq(q, 1, k), NEW i \in 1..k PROVE p[i] = q[i]
  BY <1>2, <1>4
<1>5. QED
  BY <1>3, <1>4

\* A prefix, name by name.
LEMMA PrefixIs ==
  ASSUME NEW p \in Paths, NEW q \in Paths
  PROVE  IsPrefix(p, q) <=> Len(p) <= Len(q) /\ \A i \in 1..Len(p) : p[i] = q[i]
<1>1. Len(p) \in Nat
  BY PathShape
<1>2. Len(p) <= Len(q) =>
        (SubSeq(p, 1, Len(p)) = SubSeq(q, 1, Len(p)) <=> \A i \in 1..Len(p) : p[i] = q[i])
  BY <1>1, BeginningsAgree
<1>3. QED
  BY <1>2 DEF IsPrefix

LEMMA ParentShape ==
  ASSUME NEW p \in Paths, p # <<>>
  PROVE  /\ Parent(p) \in Paths /\ Len(Parent(p)) = Len(p) - 1
         /\ \A i \in 1..(Len(p) - 1) : Parent(p)[i] = p[i]
<1>1. Len(p) - 1 \in 0..Len(p)
  BY PathShape
<1>2. Parent(p) = SubSeq(p, 1, Len(p) - 1)
  BY DEF Parent, Front
<1>3. QED
  BY <1>1, <1>2, ParentIsPath, BeginningAt

LEMMA ParentOfBeginning ==
  ASSUME NEW p \in Paths, NEW k \in 0..(Len(p) - 1)
  PROVE  SubSeq(p, 1, k + 1) # <<>> /\ Parent(SubSeq(p, 1, k + 1)) = SubSeq(p, 1, k)
<1> DEFINE a == SubSeq(p, 1, k)
           b == SubSeq(p, 1, k + 1)
<1>1. k \in 0..Len(p) /\ k + 1 \in 0..Len(p) /\ k \in Nat
  BY PathShape
<1>2. /\ a \in Paths /\ b \in Paths /\ Len(a) = k /\ Len(b) = k + 1
  BY <1>1, Beginnings
<1>3. /\ \A i \in 1..k : a[i] = p[i]
      /\ \A i \in 1..(k + 1) : b[i] = p[i]
  BY <1>1, BeginningAt
<1> HIDE DEF a, b
<1>4. b # <<>>
  BY <1>1, <1>2, PathShape
<1>5. Parent(b) \in Paths /\ Len(Parent(b)) = k /\ \A i \in 1..k : Parent(b)[i] = b[i]
  <2>1. Len(b) - 1 = k
    BY <1>1, <1>2
  <2>2. QED
    BY <1>2, <1>4, <2>1, ParentShape
<1>6. Parent(b) = a
  <2>1. \A i \in 1..k : b[i] = p[i]
    BY <1>1, <1>3
  <2>2. QED
    BY <1>2, <1>3, <1>5, <2>1, SamePaths
<1>7. QED
  BY <1>4, <1>6 DEF a, b

\* What is below a directory is what is below its parent, and more.
LEMMA PrefixOfParent ==
  ASSUME NEW p \in Paths, NEW q \in Paths, q # <<>>
  PROVE  /\ IsPrefix(p, Parent(q)) => IsPrefix(p, q)
         /\ IsPrefix(p, q) /\ q # p => IsPrefix(p, Parent(q))
<1>1. /\ Len(p) \in Nat /\ Len(q) \in Nat \ {0}
  BY PathShape
<1>2. /\ Parent(q) \in Paths /\ Len(Parent(q)) = Len(q) - 1
      /\ \A i \in 1..(Len(q) - 1) : Parent(q)[i] = q[i]
  BY ParentShape
<1>3. ASSUME IsPrefix(p, Parent(q)) PROVE IsPrefix(p, q)
  <2>1. Len(p) <= Len(q) - 1 /\ \A i \in 1..Len(p) : p[i] = Parent(q)[i]
    BY <1>2, <1>3, PrefixIs
  <2>2. \A i \in 1..Len(p) : p[i] = q[i]
    BY <1>1, <1>2, <2>1
  <2>3. QED
    BY <1>1, <2>1, <2>2, PrefixIs
<1>4. ASSUME IsPrefix(p, q), q # p PROVE IsPrefix(p, Parent(q))
  <2>1. Len(p) <= Len(q) /\ \A i \in 1..Len(p) : p[i] = q[i]
    BY <1>4, PrefixIs
  <2>2. Len(p) # Len(q)
    BY <1>4, <2>1, SamePaths
  <2>3. Len(p) <= Len(q) - 1 /\ \A i \in 1..Len(p) : p[i] = Parent(q)[i]
    BY <1>1, <1>2, <2>1, <2>2
  <2>4. QED
    BY <1>2, <2>3, PrefixIs
<1>5. QED
  BY <1>3, <1>4

-----------------------------------------------------------------------------
(* The registry of the tree *)

\* With a path, the tree has every beginning of it.
LEMMA BeginningsThere ==
  ASSUME NEW t \in Trees, RegistryAgrees(t), NEW p \in DOMAIN t.dirs, NEW k \in 0..Len(p)
  PROVE  SubSeq(p, 1, k) \in DOMAIN t.dirs
<1> DEFINE missing == {i \in 0..Len(p) : SubSeq(p, 1, i) \notin DOMAIN t.dirs}
<1>1. SUFFICES ASSUME missing # {} PROVE FALSE
  OBVIOUS
<1>2. p \in Paths /\ Len(p) \in Nat
  BY TreeShape, PathShape
<1>3. missing \subseteq 0..Len(p)
  OBVIOUS
<1>4. PICK i \in missing : \A j \in missing : i >= j
  BY <1>1, <1>2, <1>3, NatMax, Zenon
<1>5. i \in 0..Len(p) /\ SubSeq(p, 1, i) \notin DOMAIN t.dirs
  BY Zenon
<1>6. i # Len(p)
  <2>1. SubSeq(p, 1, Len(p)) = p
    <3> DEFINE n == Len(p)
               q == SubSeq(p, 1, n)
    <3>1. n \in 0..Len(p) /\ n \in Nat
      BY <1>2
    <3> HIDE DEF n
    <3>2. q \in Paths /\ Len(q) = n /\ \A j \in 1..n : q[j] = p[j]
      BY <1>2, <3>1, Beginnings, BeginningAt
    <3> HIDE DEF q
    <3>3. q = p
      BY <1>2, <3>1, <3>2, SamePaths DEF n
    <3>4. QED
      BY <3>3 DEF q, n
  <2>2. QED
    BY <1>5, <2>1
<1>7. i \in 0..(Len(p) - 1) /\ i + 1 \in 0..Len(p) /\ ~(i >= i + 1)
  BY <1>2, <1>5, <1>6
<1>8. SubSeq(p, 1, i + 1) \in DOMAIN t.dirs
  BY <1>4, <1>7
<1>9. SubSeq(p, 1, i + 1) # <<>> /\ Parent(SubSeq(p, 1, i + 1)) = SubSeq(p, 1, i)
  BY <1>2, <1>7, ParentOfBeginning
<1>10. QED
  BY <1>5, <1>8, <1>9 DEF RegistryAgrees, RootPath

\* What is below a directory in the registry are the paths that begin with its own.
LEMMA BelowIs ==
  ASSUME NEW t \in Trees, RegistryAgrees(t), NEW path \in DOMAIN t.dirs
  PROVE  Below(t, path) = {p \in DOMAIN t.dirs : IsPrefix(path, p)}
<1> DEFINE children == [p \in DOMAIN t.subdirs |-> Range(t.subdirs[p])]
<1>1. path \in Paths /\ Len(path) \in Nat /\ DOMAIN t.subdirs = DOMAIN t.dirs
  BY TreeShape, PathShape DEF RegistryAgrees
<1>2. ASSUME NEW p \in DOMAIN t.dirs, NEW k \in Len(path)..(Len(p) - 1)
      PROVE  SubSeq(p, 1, k + 1) \in children[SubSeq(p, 1, k)]
  <2>1. p \in Paths /\ Len(p) \in Nat
    BY TreeShape, PathShape
  <2>2. k \in 0..(Len(p) - 1) /\ k \in 0..Len(p) /\ k + 1 \in 0..Len(p)
    BY <1>1, <2>1
  <2>3. SubSeq(p, 1, k) \in DOMAIN t.dirs /\ SubSeq(p, 1, k + 1) \in DOMAIN t.dirs
    BY <2>2, BeginningsThere
  <2>4. SubSeq(p, 1, k + 1) # <<>> /\ Parent(SubSeq(p, 1, k + 1)) = SubSeq(p, 1, k)
    BY <2>1, <2>2, ParentOfBeginning
  <2>5. SubSeq(p, 1, k + 1) \in Range(t.subdirs[SubSeq(p, 1, k)])
    BY <1>1, <2>3, <2>4 DEF RegistryAgrees, RootPath
  <2>6. QED
    BY <1>1, <2>3, <2>5
<1>3. Below(t, path)
        = {p \in DOMAIN children :
             /\ IsPrefix(path, p)
             /\ \A k \in Len(path)..(Len(p) - 1) :
                  SubSeq(p, 1, k + 1) \in children[SubSeq(p, 1, k)]}
  BY DEF Below, Descendants
<1>4. DOMAIN children = DOMAIN t.dirs
  BY <1>1
<1> HIDE DEF children
<1>5. QED
  BY <1>2, <1>3, <1>4

\* A directory is put where its parent is: it is new or empties the old one.
LEMMA PutDirProps ==
  ASSUME NEW t \in Trees, RegistryAgrees(t), NEW path \in Paths, path # <<>>,
         Parent(path) \in DOMAIN t.dirs
  PROVE  LET u == PutDir(t, path)
         IN  /\ u \in Trees /\ RegistryAgrees(u)
             /\ DOMAIN u.dirs = DOMAIN t.dirs \cup {path}
             /\ u.dirs[path] = <<>>
             /\ \A p \in DOMAIN t.dirs \ {path} : u.dirs[p] = t.dirs[p]
<1> DEFINE u == PutDir(t, path)
<1>1. CASE path \in DOMAIN t.dirs
  <2>1. u \in Trees /\ u.subdirs = t.subdirs /\ u.dirs = [t.dirs EXCEPT ![path] = <<>>]
    BY <1>1, PutDirAgain
  <2> HIDE DEF u
  <2>2. DOMAIN u.dirs = DOMAIN t.dirs
    BY <2>1
  <2>3. RegistryAgrees(u)
    BY <2>1, <2>2 DEF RegistryAgrees
  <2>4. u.dirs[path] = <<>> /\ \A p \in DOMAIN t.dirs \ {path} : u.dirs[p] = t.dirs[p]
    BY <1>1, <2>1
  <2>5. QED
    BY <1>1, <2>1, <2>2, <2>3, <2>4 DEF u
<1>2. CASE path \notin DOMAIN t.dirs
  <2> DEFINE old == DOMAIN t.dirs
  <2>1. DOMAIN t.subdirs = old
    BY DEF RegistryAgrees
  <2>2. /\ u \in Trees /\ u.subdirs = Linked(t.subdirs, path)
        /\ u.dirs = [p \in old \cup {path} |-> IF p = path THEN <<>> ELSE t.dirs[p]]
    BY <1>2, <2>1, PutDirNew
  <2> HIDE DEF u
  <2>3. /\ DOMAIN u.dirs = old \cup {path} /\ DOMAIN u.subdirs = old \cup {path}
        /\ u.dirs[path] = <<>> /\ \A p \in old \ {path} : u.dirs[p] = t.dirs[p]
        /\ u.subdirs[path] = <<>>
        /\ \A p \in old \ {Parent(path)} : u.subdirs[p] = t.subdirs[p]
        /\ u.subdirs[Parent(path)] = Append(t.subdirs[Parent(path)], path)
    BY <1>2, <2>1, <2>2 DEF Linked
  <2>4. ASSUME NEW p \in old \ {RootPath} PROVE Parent(p) \in old
    BY DEF RegistryAgrees
  <2>5. ASSUME NEW p \in old
        PROVE  /\ IsInjective(t.subdirs[p]) /\ t.subdirs[p] \in Seq(Paths)
               /\ Range(t.subdirs[p]) = {q \in old \ {RootPath} : Parent(q) = p}
    BY <2>1, TreeShape DEF RegistryAgrees
  <2>6. ASSUME NEW p \in DOMAIN u.subdirs
        PROVE  /\ IsInjective(u.subdirs[p])
               /\ Range(u.subdirs[p]) = {q \in DOMAIN u.dirs \ {RootPath} : Parent(q) = p}
    <3>1. CASE p = path
      <4>1. \A q \in old \ {RootPath} : Parent(q) # path
        BY <1>2, <2>4
      <4>2. Len(Parent(path)) = Len(path) - 1 /\ Len(path) \in Nat
        BY ParentShape, PathShape
      <4>3. Parent(path) # path
        BY <4>2
      <4>4. {q \in DOMAIN u.dirs \ {RootPath} : Parent(q) = path} = {}
        BY <2>3, <4>1, <4>3
      <4>5. IsInjective(<<>>) /\ Range(<<>>) = {}
        BY DEF IsInjective, Range
      <4>6. QED
        BY <2>3, <3>1, <4>4, <4>5
    <3>2. CASE p = Parent(path)
      <4> DEFINE list == t.subdirs[p]
                 n    == Len(list)
      <4>1. /\ IsInjective(list) /\ list \in Seq(Paths) /\ n \in Nat
            /\ Range(list) = {q \in old \ {RootPath} : Parent(q) = p}
            /\ path \notin Range(list)
        BY <1>2, <2>5, <3>2
      <4>2. /\ DOMAIN list = 1..n /\ DOMAIN Append(list, path) = 1..(n + 1)
            /\ \A i \in 1..n : Append(list, path)[i] = list[i] /\ list[i] \in Range(list)
            /\ Append(list, path)[n + 1] = path
        BY <4>1 DEF Range
      <4> HIDE DEF n, list
      <4>3. IsInjective(Append(list, path))
        <5>1. ASSUME NEW i \in 1..(n + 1), NEW j \in 1..(n + 1),
                     Append(list, path)[i] = Append(list, path)[j]
              PROVE  i = j
          <6>1. (i \in 1..n \/ i = n + 1) /\ (j \in 1..n \/ j = n + 1)
            BY <4>1
          <6>2. CASE i \in 1..n /\ j \in 1..n
            BY <4>1, <4>2, <5>1, <6>2 DEF IsInjective
          <6>3. QED
            BY <4>1, <4>2, <5>1, <6>1, <6>2
        <5>2. QED
          BY <4>2, <5>1 DEF IsInjective
      <4>4. Range(Append(list, path)) = Range(list) \cup {path}
        <5>1. ASSUME NEW q \in Range(Append(list, path)) PROVE q \in Range(list) \cup {path}
          <6>1. PICK i \in 1..(n + 1) : q = Append(list, path)[i]
            BY <4>2 DEF Range
          <6>2. i \in 1..n \/ i = n + 1
            BY <4>1
          <6>3. QED
            BY <4>2, <6>1, <6>2
        <5>2. ASSUME NEW q \in Range(list) PROVE q \in Range(Append(list, path))
          <6>1. PICK i \in 1..n : q = list[i]
            BY <4>2 DEF Range
          <6>2. i \in 1..(n + 1)
            BY <4>1
          <6>3. QED
            BY <4>2, <6>1, <6>2 DEF Range
        <5>3. n + 1 \in 1..(n + 1)
          BY <4>1
        <5>4. path \in Range(Append(list, path))
          BY <4>2, <5>3 DEF Range
        <5>5. QED
          BY <5>1, <5>2, <5>4
      <4>5. {q \in DOMAIN u.dirs \ {RootPath} : Parent(q) = p}
              = {q \in old \ {RootPath} : Parent(q) = p} \cup {path}
        BY <2>3, <3>2 DEF RootPath
      <4>6. u.subdirs[p] = Append(list, path)
        BY <2>3, <3>2 DEF list
      <4>7. QED
        BY <4>1, <4>3, <4>4, <4>5, <4>6
    <3>3. CASE p # path /\ p # Parent(path)
      <4>1. p \in old /\ u.subdirs[p] = t.subdirs[p]
        BY <2>3, <3>3
      <4>2. {q \in DOMAIN u.dirs \ {RootPath} : Parent(q) = p}
              = {q \in old \ {RootPath} : Parent(q) = p}
        BY <2>3, <3>3
      <4>3. QED
        BY <2>5, <4>1, <4>2
    <3>4. QED
      BY <3>1, <3>2, <3>3
  <2>7. \A p \in DOMAIN u.dirs \ {RootPath} : Parent(p) \in DOMAIN u.dirs
    BY <2>3, <2>4
  <2>8. RegistryAgrees(u)
    BY <2>3, <2>6, <2>7 DEF RegistryAgrees
  <2>9. QED
    BY <2>2, <2>3, <2>8 DEF u
<1>3. QED
  BY <1>1, <1>2

\* A directory is removed with all that is below it.
LEMMA RemoveDirProps ==
  ASSUME NEW t \in Trees, RegistryAgrees(t), NEW path \in DOMAIN t.dirs, path # <<>>
  PROVE  LET u == RemoveDir(t, path)
         IN  /\ u \in Trees /\ RegistryAgrees(u)
             /\ DOMAIN u.dirs = {p \in DOMAIN t.dirs : ~IsPrefix(path, p)}
             /\ \A p \in DOMAIN u.dirs : u.dirs[p] = t.dirs[p]
<1> DEFINE old  == DOMAIN t.dirs
           gone == Below(t, path)
           left == {p \in old : ~IsPrefix(path, p)}
           up   == Parent(path)
           unlinked == Unlinked(t.subdirs, path)
           dirs == Restrict(t.dirs, DOMAIN t.dirs \ gone)
           subs == Restrict(unlinked, DOMAIN unlinked \ gone)
           t2   == [t EXCEPT !.dirs = Restrict(@, DOMAIN @ \ gone),
                             !.subdirs = Restrict(unlinked, DOMAIN unlinked \ gone),
                             !.shown = Forgotten(@, gone)]
           event == Event("removedDirs", up, <<path>>)
<1>1. /\ path \in Paths /\ up \in Paths /\ up \in old /\ DOMAIN t.subdirs = old
      /\ Len(up) = Len(path) - 1 /\ Len(path) \in Nat /\ old \subseteq Paths
  BY TreeShape, PathShape, ParentShape DEF RegistryAgrees, RootPath
<1>2. gone = {p \in old : IsPrefix(path, p)}
  BY BelowIs
<1>3. up \in left
  <2>1. ~IsPrefix(path, up)
    BY <1>1, PrefixIs
  <2>2. QED
    BY <1>1, <2>1
<1> HIDE DEF gone
<1>4. old \ gone = left /\ left \subseteq Paths
  BY <1>1, <1>2
<1>5. ASSUME NEW p \in old
      PROVE  /\ IsInjective(t.subdirs[p]) /\ t.subdirs[p] \in Seq(Paths)
             /\ Range(t.subdirs[p]) = {q \in old \ {RootPath} : Parent(q) = p}
  BY <1>1, TreeShape DEF RegistryAgrees
<1>6. path \in Range(t.subdirs[up])
  BY <1>1, <1>5 DEF RootPath
<1>7. /\ RemoveFirst(t.subdirs[up], path) \in Seq(Paths)
      /\ IsInjective(RemoveFirst(t.subdirs[up], path))
      /\ Range(RemoveFirst(t.subdirs[up], path)) = Range(t.subdirs[up]) \ {path}
  BY <1>1, <1>5, <1>6, RemovesOne
<1>8. /\ DOMAIN unlinked = old
      /\ unlinked[up] = RemoveFirst(t.subdirs[up], path)
      /\ \A p \in old \ {up} : unlinked[p] = t.subdirs[p]
  BY <1>1 DEF Unlinked
<1> HIDE DEF unlinked
<1>9. /\ DOMAIN dirs = left /\ \A p \in left : dirs[p] = t.dirs[p]
      /\ DOMAIN subs = left /\ \A p \in left : subs[p] = unlinked[p]
      /\ dirs = [p \in left |-> dirs[p]] /\ subs = [p \in left |-> subs[p]]
  BY <1>4, <1>8 DEF Restrict
<1>10. RemoveDir(t, path) = ChildUpdated(t2, up, event)
  BY DEF RemoveDir, gone, unlinked
<1> HIDE DEF left
<1>11. /\ dirs \in UNION {[S -> Seq(Files)] : S \in SUBSET Paths}
       /\ subs \in UNION {[S -> Seq(Paths)] : S \in SUBSET Paths}
  <2> HIDE DEF dirs, subs
  <2>1. ASSUME NEW p \in left PROVE dirs[p] \in Seq(Files) /\ subs[p] \in Seq(Paths)
    <3>1. p \in old
      BY <1>4
    <3>2. t.dirs[p] \in Seq(Files)
      BY <3>1, TreeShape
    <3>3. QED
      BY <1>5, <1>7, <1>8, <1>9, <3>1, <3>2
  <2>2. dirs \in [left -> Seq(Files)] /\ subs \in [left -> Seq(Paths)]
    BY <1>9, <2>1
  <2>3. QED
    BY <1>4, <2>2
<1>12. t2 \in Trees /\ t2.dirs = dirs /\ t2.subdirs = subs
  <2>1. t2.dirs = dirs /\ t2.subdirs = subs
    BY DEF Trees
  <2> HIDE DEF dirs, subs
  <2>2. t2 \in Trees
    BY <1>11 DEF Trees, Forgotten, dirs, subs
  <2>3. QED
    BY <2>1, <2>2
<1>13. event \in Events
  BY <1>1, PathThings, EventIsOne DEF Kinds
<1> HIDE DEF t2, event, dirs, subs
<1> DEFINE u == ChildUpdated(t2, up, event)
<1>14. u \in Trees /\ u.dirs = dirs /\ u.subdirs = subs
  BY <1>1, <1>12, <1>13, ChildUpdatedProps
<1> HIDE DEF u
<1>15. ASSUME NEW p \in left
       PROVE  /\ IsInjective(subs[p])
              /\ Range(subs[p]) = {q \in left \ {RootPath} : Parent(q) = p}
  <2>1. p \in old /\ ~IsPrefix(path, p)
    BY <1>2, <1>4
  <2>2. ASSUME NEW q \in old \ {RootPath}, Parent(q) = p
        PROVE  q \in left <=> q # path
    <3>1. IsPrefix(path, path)
      BY <1>1, PrefixIs
    <3>2. q \in Paths /\ q # <<>>
      BY <1>1 DEF RootPath
    <3>3. q # path => ~IsPrefix(path, q)
      BY <1>1, <2>1, <2>2, <3>2, PrefixOfParent
    <3>4. QED
      BY <1>2, <1>4, <3>1, <3>3
  <2>3. CASE p = up
    <3>1. subs[p] = RemoveFirst(t.subdirs[up], path)
      BY <1>8, <1>9, <2>3
    <3>2. Range(subs[p]) = {q \in old \ {RootPath} : Parent(q) = p} \ {path}
      BY <1>5, <1>7, <2>1, <2>3, <3>1
    <3>3. left \subseteq old
      BY <1>4
    <3>4. {q \in old \ {RootPath} : Parent(q) = p} \ {path}
            = {q \in left \ {RootPath} : Parent(q) = p}
      BY <2>2, <3>3
    <3>5. QED
      BY <1>7, <3>1, <3>2, <3>4
  <2>4. CASE p # up
    <3>1. subs[p] = t.subdirs[p]
      BY <1>8, <1>9, <2>1, <2>4
    <3>2. left \subseteq old
      BY <1>4
    <3>3. {q \in old \ {RootPath} : Parent(q) = p} = {q \in left \ {RootPath} : Parent(q) = p}
      BY <2>2, <2>4, <3>2
    <3>4. QED
      BY <1>5, <2>1, <3>1, <3>3
  <2>5. QED
    BY <2>3, <2>4
<1>16. ASSUME NEW p \in left \ {RootPath} PROVE Parent(p) \in left
  <2>1. p \in old /\ ~IsPrefix(path, p) /\ p \in Paths /\ p # <<>>
    BY <1>1, <1>2, <1>4 DEF RootPath
  <2>2. Parent(p) \in old
    BY <2>1 DEF RegistryAgrees, RootPath
  <2>3. ~IsPrefix(path, Parent(p))
    BY <1>1, <2>1, PrefixOfParent
  <2>4. QED
    BY <1>2, <1>4, <2>2, <2>3
<1>17. RegistryAgrees(u)
  BY <1>9, <1>14, <1>15, <1>16 DEF RegistryAgrees
<1>18. QED
  BY <1>9, <1>10, <1>14, <1>17 DEF u, left

-----------------------------------------------------------------------------
(* The operators PlainDir takes from the community modules *)

LEMMA SameOperators ==
  /\ \A S : Dir!SetToSeq(S) = SetToSeq(S)
  /\ \A s : Dir!ToSet(s) = ToSet(s)
  /\ \A list, gone : Dir!Dropped(list, gone) = FoldLeft(RemoveFirst, list, gone)
<1>1. \A S : Dir!SetToSeq(S) = SetToSeq(S)
  BY Zenon DEF Dir!SetToSeq, SetToSeq, Dir!IsInjective, IsInjective, Dir!Cardinality, Cardinality
<1>2. \A s : Dir!ToSet(s) = ToSet(s)
  BY DEF Dir!ToSet, ToSet
<1>3. \A list, gone : Dir!Dropped(list, gone) = FoldLeft(RemoveFirst, list, gone)
  BY DEF Dir!Dropped, Dir!FoldLeft, FoldLeft, Dir!MapThenFoldSet, MapThenFoldSet, Dir!Max, Max,
         Dir!RemoveFirst, RemoveFirst, Dir!RemoveAt, RemoveAt, Dir!SelectInSeq, SelectInSeq,
         Dir!Min, Min
<1>4. QED
  BY <1>1, <1>2, <1>3

-----------------------------------------------------------------------------
(* What a notice makes of a directory *)

\* Messages as a source has them: finitely many, with their contents.
Collection(ms) ==
  /\ ms \in [DOMAIN ms -> Contents]
  /\ DOMAIN ms \subseteq Nat /\ IsFiniteSet(DOMAIN ms)

IdsOf(list) == {list[k].id : k \in DOMAIN list}

\* The items are those of the files that were made, one for an id.
OneEach(list, made) ==
  /\ list \in Seq(Files)
  /\ \A k, l \in DOMAIN list : list[k].id = list[l].id => k = l
  /\ \A k \in DOMAIN list :
       list[k].id \in DOMAIN made /\ list[k] = Dir!File(list[k].id, made[list[k].id])

LEMMA FileIsItem ==
  ASSUME NEW i \in Nat, NEW c \in Contents
  PROVE  Dir!File(i, c) \in Files /\ Dir!File(i, c).id = i /\ Dir!File(i, c).content = c
BY DEF Dir!File, Files

\* A sequence of the numbers of a finite set.
LEMMA Enumerates ==
  ASSUME NEW S, IsFiniteSet(S)
  PROVE  /\ Dir!SetToSeq(S) \in Seq(S) /\ ToSet(Dir!SetToSeq(S)) = S
         /\ \A k, l \in DOMAIN Dir!SetToSeq(S) : Dir!SetToSeq(S)[k] = Dir!SetToSeq(S)[l] => k = l
<1> DEFINE n == Cardinality(S)
           f == SetToSeq(S)
<1>1. /\ f \in [1..n -> S] /\ n \in Nat
      /\ \A k, l \in 1..n : f[k] = f[l] => k = l
      /\ \A e \in S : \E k \in 1..n : f[k] = e
  BY EachOnce
<1> HIDE DEF f, n
<1>2. f \in Seq(S) /\ DOMAIN f = 1..n /\ ToSet(f) = S
  BY <1>1 DEF ToSet
<1>3. Dir!SetToSeq(S) = f
  BY SameOperators DEF f
<1>4. QED
  BY <1>1, <1>2, <1>3

\* The files of messages.
LEMMA FilesOfProps ==
  ASSUME NEW ms, Collection(ms)
  PROVE  /\ OneEach(Dir!FilesOf(ms), ms) /\ IdsOf(Dir!FilesOf(ms)) = DOMAIN ms
         /\ Range(Dir!FilesOf(ms)) = {Dir!File(i, ms[i]) : i \in DOMAIN ms}
<1> DEFINE S    == {Dir!File(i, ms[i]) : i \in DOMAIN ms}
           list == Dir!SetToSeq(S)
<1>1. IsFiniteSet(S)
  <2> DEFINE f == [i \in DOMAIN ms |-> Dir!File(i, ms[i])]
  <2>1. f \in Surjection(DOMAIN ms, S)
    BY DEF Surjection
  <2>2. QED
    BY <2>1, FS_Surjection, Zenon DEF Collection
<1>2. ASSUME NEW i \in DOMAIN ms
      PROVE  /\ Dir!File(i, ms[i]) \in Files /\ Dir!File(i, ms[i]).id = i
  BY FileIsItem DEF Collection
<1>3. \A f \in S : f \in Files /\ f.id \in DOMAIN ms /\ f = Dir!File(f.id, ms[f.id])
  BY <1>2
<1>4. /\ list \in Seq(S) /\ ToSet(list) = S
      /\ \A k, l \in DOMAIN list : list[k] = list[l] => k = l
  BY <1>1, Enumerates
<1>5. Dir!FilesOf(ms) = list
  BY DEF Dir!FilesOf
<1> HIDE DEF list
<1>6. \A k \in DOMAIN list : list[k] \in S
  BY <1>4
<1>7. list \in Seq(Files)
  BY <1>3, <1>4
<1>8. \A k, l \in DOMAIN list : list[k].id = list[l].id => k = l
  BY <1>3, <1>4, <1>6
<1>9. IdsOf(list) = DOMAIN ms
  <2>1. ASSUME NEW i \in DOMAIN ms PROVE i \in IdsOf(list)
    <3>1. PICK k \in DOMAIN list : list[k] = Dir!File(i, ms[i])
      BY <1>4 DEF ToSet
    <3>2. QED
      BY <1>2, <3>1 DEF IdsOf
  <2>2. QED
    BY <1>3, <1>6, <2>1 DEF IdsOf
<1>10. Range(list) = S
  BY <1>4 DEF ToSet, Range
<1>11. QED
  BY <1>3, <1>5, <1>6, <1>7, <1>8, <1>9, <1>10 DEF OneEach

\* Only what is made of the listed messages matters.
LEMMA OneEachAgree ==
  ASSUME NEW list, NEW made, NEW other, OneEach(list, made),
         \A i \in IdsOf(list) : i \in DOMAIN other /\ other[i] = made[i]
  PROVE  OneEach(list, other)
<1>1. \A k \in DOMAIN list : list[k].id \in IdsOf(list)
  BY DEF IdsOf
<1>2. QED
  BY <1>1 DEF OneEach

\* list.remove takes the item of a message away, if it is there as it was made.
LEMMA DroppedProps ==
  ASSUME NEW list, NEW made, NEW gone, OneEach(list, made), Collection(gone),
         DOMAIN gone \subseteq DOMAIN made, \A i \in DOMAIN gone : gone[i] = made[i]
  PROVE  LET left == Dir!Dropped(list, Dir!FilesOf(gone))
         IN  OneEach(left, made) /\ IdsOf(left) = IdsOf(list) \ DOMAIN gone
<1> DEFINE those == Dir!FilesOf(gone)
           left  == FoldLeft(RemoveFirst, list, those)
<1>1. /\ those \in Seq(Files)
      /\ Range(those) = {Dir!File(i, gone[i]) : i \in DOMAIN gone}
  BY FilesOfProps DEF OneEach
<1>2. list \in Seq(Files) /\ IsInjective(list)
  BY DEF OneEach, IsInjective
<1>3. /\ left \in Seq(Files) /\ IsInjective(left)
      /\ Range(left) = Range(list) \ Range(those)
  BY <1>1, <1>2, RemovesAll
<1>4. Dir!Dropped(list, Dir!FilesOf(gone)) = left
  BY SameOperators
<1> HIDE DEF those, left
<1>5. ASSUME NEW f \in Range(list)
      PROVE  /\ f.id \in IdsOf(list) /\ f.id \in DOMAIN made
             /\ f = Dir!File(f.id, made[f.id])
             /\ f \in Range(those) <=> f.id \in DOMAIN gone
  <2>1. f.id \in IdsOf(list) /\ f.id \in DOMAIN made /\ f = Dir!File(f.id, made[f.id])
    BY DEF Range, IdsOf, OneEach
  <2>2. \A i : Dir!File(i, gone[i]).id = i
    BY DEF Dir!File
  <2>3. QED
    BY <1>1, <2>1, <2>2
<1>6. \A k \in DOMAIN left : left[k] \in Range(list) /\ left[k].id \notin DOMAIN gone
  BY <1>3, <1>5 DEF Range
<1>7. \A f, g \in Range(list) : f.id = g.id => f = g
  BY DEF OneEach, Range
<1>8. OneEach(left, made)
  <2>1. \A k, l \in DOMAIN left : left[k].id = left[l].id => k = l
    BY <1>3, <1>6, <1>7 DEF IsInjective
  <2>2. QED
    BY <1>3, <1>5, <1>6, <2>1 DEF OneEach
<1>9. IdsOf(left) = IdsOf(list) \ DOMAIN gone
  <2>1. ASSUME NEW i \in IdsOf(list) \ DOMAIN gone PROVE i \in IdsOf(left)
    <3>1. PICK f \in Range(list) : f.id = i
      BY DEF IdsOf, Range
    <3>2. f \in Range(left)
      BY <1>3, <1>5, <3>1
    <3>3. QED
      BY <3>1, <3>2 DEF IdsOf, Range
  <2>2. QED
    BY <1>5, <1>6, <2>1 DEF IdsOf
<1>10. QED
  BY <1>4, <1>8, <1>9

\* Items of other messages may follow.
LEMMA JoinedProps ==
  ASSUME NEW list, NEW more, NEW made, OneEach(list, made), OneEach(more, made),
         IdsOf(list) \cap IdsOf(more) = {}
  PROVE  /\ OneEach(list \o more, made)
         /\ IdsOf(list \o more) = IdsOf(list) \cup IdsOf(more)
<1> DEFINE all == list \o more
           m   == Len(list)
           n   == Len(more)
<1>1. /\ list \in Seq(Files) /\ DOMAIN list = 1..m /\ m \in Nat
      /\ more \in Seq(Files) /\ DOMAIN more = 1..n /\ n \in Nat
  BY DEF OneEach
<1>2. /\ all \in Seq(Files) /\ DOMAIN all = 1..(m + n)
      /\ \A k \in 1..(m + n) : all[k] = IF k <= m THEN list[k] ELSE more[k - m]
  BY <1>1
<1> HIDE DEF all, m, n
<1>3. ASSUME NEW k \in 1..(m + n)
      PROVE  \/ k \in 1..m /\ all[k] = list[k] /\ all[k].id \in IdsOf(list)
             \/ k - m \in 1..n /\ all[k] = more[k - m] /\ all[k].id \in IdsOf(more)
  <2>1. CASE k <= m
    <3>1. k \in 1..m /\ all[k] = list[k]
      BY <1>1, <1>2, <2>1
    <3>2. QED
      BY <1>1, <3>1 DEF IdsOf
  <2>2. CASE ~(k <= m)
    <3>1. k - m \in 1..n /\ all[k] = more[k - m]
      BY <1>1, <1>2, <2>2
    <3>2. QED
      BY <1>1, <3>1 DEF IdsOf
  <2>3. QED
    BY <2>1, <2>2
<1>4. \A k \in DOMAIN all :
        all[k].id \in DOMAIN made /\ all[k] = Dir!File(all[k].id, made[all[k].id])
  BY <1>1, <1>2, <1>3 DEF OneEach
<1>5. ASSUME NEW k \in 1..(m + n), NEW l \in 1..(m + n), all[k].id = all[l].id
      PROVE  k = l
  <2>1. CASE all[k].id \in IdsOf(list)
    <3>1. k \in 1..m /\ l \in 1..m /\ list[k].id = list[l].id
      BY <1>3, <1>5, <2>1
    <3>2. QED
      BY <1>1, <3>1 DEF OneEach
  <2>2. CASE all[k].id \in IdsOf(more)
    <3>1. k - m \in 1..n /\ l - m \in 1..n /\ more[k - m].id = more[l - m].id
      BY <1>3, <1>5, <2>2
    <3>2. k - m = l - m
      BY <1>1, <3>1 DEF OneEach
    <3>3. QED
      BY <1>1, <3>2
  <2>3. QED
    BY <1>3, <2>1, <2>2
<1>6. \A i \in IdsOf(list) : i \in IdsOf(all)
  <2>1. \A k \in 1..m : k \in 1..(m + n) /\ all[k] = list[k]
    BY <1>1, <1>2
  <2>2. QED
    BY <1>1, <1>2, <2>1 DEF IdsOf
<1>7. \A i \in IdsOf(more) : i \in IdsOf(all)
  <2>1. \A k \in 1..n : m + k \in 1..(m + n) /\ all[m + k] = more[k]
    BY <1>1, <1>2
  <2>2. QED
    BY <1>1, <1>2, <2>1 DEF IdsOf
<1>8. IdsOf(all) \subseteq IdsOf(list) \cup IdsOf(more)
  BY <1>2, <1>3 DEF IdsOf
<1>9. OneEach(all, made)
  BY <1>2, <1>4, <1>5 DEF OneEach
<1>10. QED
  BY <1>6, <1>7, <1>8, <1>9 DEF all

\* An update changes the items of its messages and leaves their places alone.
LEMMA ReplacedProps ==
  ASSUME NEW list, NEW made, NEW update, NEW other, OneEach(list, made),
         Collection(update),
         \A i \in IdsOf(list) :
           /\ i \in DOMAIN other
           /\ other[i] = IF i \in DOMAIN update THEN update[i] ELSE made[i]
  PROVE  /\ OneEach(Dir!Replaced(list, update), other)
         /\ IdsOf(Dir!Replaced(list, update)) = IdsOf(list)
<1> DEFINE new == Dir!Replaced(list, update)
<1>1. /\ DOMAIN new = DOMAIN list /\ list \in Seq(Files)
      /\ \A k \in DOMAIN list :
           new[k] = IF list[k].id \in DOMAIN update
                    THEN Dir!File(list[k].id, update[list[k].id]) ELSE list[k]
  BY DEF Dir!Replaced, OneEach
<1>2. \A k \in DOMAIN list : list[k].id \in IdsOf(list) /\ list[k].id \in Nat
  <2>1. \A k \in DOMAIN list : list[k] \in Files
    BY <1>1
  <2>2. QED
    BY <2>1 DEF IdsOf, Files
<1>3. ASSUME NEW k \in DOMAIN list
      PROVE  /\ new[k] \in Files /\ new[k].id = list[k].id
             /\ new[k] = Dir!File(list[k].id, other[list[k].id])
  <2>1. CASE list[k].id \in DOMAIN update
    <3>1. new[k] = Dir!File(list[k].id, update[list[k].id])
      BY <1>1, <2>1
    <3>2. update[list[k].id] \in Contents
      BY <2>1 DEF Collection
    <3>3. QED
      BY <1>2, <2>1, <3>1, <3>2, FileIsItem
  <2>2. CASE list[k].id \notin DOMAIN update
    <3>1. new[k] = list[k] /\ list[k] \in Files
      BY <1>1, <2>2
    <3>2. list[k] = Dir!File(list[k].id, made[list[k].id])
      BY DEF OneEach
    <3>3. QED
      BY <1>2, <2>2, <3>1, <3>2
  <2>3. QED
    BY <2>1, <2>2
<1> HIDE DEF new
<1>4. new \in Seq(Files)
  <2>1. new = [k \in 1..Len(list) |-> new[k]] /\ DOMAIN list = 1..Len(list)
        /\ Len(list) \in Nat
    BY <1>1 DEF new, Dir!Replaced
  <2>2. QED
    BY <1>3, <2>1
<1>5. OneEach(new, other)
  BY <1>1, <1>2, <1>3, <1>4 DEF OneEach
<1>6. IdsOf(new) = IdsOf(list)
  BY <1>1, <1>3 DEF IdsOf
<1>7. QED
  BY <1>5, <1>6 DEF new

-----------------------------------------------------------------------------
(* A plan and what it makes of a directory *)

\* The ids of a notice: new messages that pass the filters of the directory,
\* messages a file was made of, and what becomes of either.
Passed(n, wanted) == {i \in DOMAIN n.new : n.new[i] \in wanted}
Olds(n, made) == DOMAIN n.old \cap DOMAIN made
Adds(n, made, wanted) ==
  IF n.kind = "new" THEN Passed(n, wanted) ELSE Passed(n, wanted) \ Olds(n, made)
Updates(n, made, wanted) == Passed(n, wanted) \cap Olds(n, made)
Removes(n, made, wanted) == Olds(n, made) \ Passed(n, wanted)
Prunes(n, made, wanted) == IF n.kind = "edited" THEN Removes(n, made, wanted) ELSE {}

PlanFor(n, made, wanted) == Dir!Plan(n, made, Dir!PassingIds(n.new, wanted))

\* The files of these ids are added, updated and removed.
PlanDoes(plan, n, made, wanted) ==
  /\ OneEach(plan.add, n.new) /\ IdsOf(plan.add) = Adds(n, made, wanted)
  /\ plan.update = [i \in Updates(n, made, wanted) |-> n.new[i]]
  /\ plan.remove = [i \in Removes(n, made, wanted) |-> made[i]]
  /\ plan.prune = Prunes(n, made, wanted)

\* _message_to_file has what was made before and what the plan made.
FilesBecome(after, n, made, wanted) ==
  LET taken == Adds(n, made, wanted) \cup Updates(n, made, wanted)
  IN  /\ DOMAIN after = (DOMAIN made \cup taken) \ Prunes(n, made, wanted)
      /\ \A i \in DOMAIN after : after[i] = IF i \in taken THEN n.new[i] ELSE made[i]

\* That is what a plan does.
LEMMA PlanParts ==
  ASSUME NEW n, NEW made, NEW wanted, Collection(n.new)
  PROVE  PlanDoes(PlanFor(n, made, wanted), n, made, wanted)
<1> DEFINE passing == Dir!PassingIds(n.new, wanted)
           plan    == PlanFor(n, made, wanted)
           P0      == Passed(n, wanted)
           O       == Olds(n, made)
           old     == Dir!Restrict(made, O)
           rest    == Dir!SetToSeq(P0 \ O)
           added   == IF n.kind = "new" THEN passing ELSE rest
           A       == Adds(n, made, wanted)
<1>1. P0 \subseteq DOMAIN n.new /\ DOMAIN n.new \subseteq Nat /\ IsFiniteSet(P0)
      /\ IsFiniteSet(P0 \ O)
  <2>1. P0 \subseteq DOMAIN n.new
    BY DEF Passed
  <2>2. QED
    BY <2>1, FS_Subset, Zenon DEF Collection
<1>2. DOMAIN Dir!Matching(n.new, wanted) = P0
  BY DEF Dir!Matching, Dir!RestrictValues, Dir!Restrict, Passed
<1>3. passing = Dir!SetToSeq(P0)
  BY <1>2 DEF Dir!PassingIds
<1>4. /\ passing \in Seq(P0) /\ ToSet(passing) = P0
      /\ \A k, l \in DOMAIN passing : passing[k] = passing[l] => k = l
  BY <1>1, <1>3, Enumerates
<1>5. /\ rest \in Seq(P0 \ O) /\ ToSet(rest) = P0 \ O
      /\ \A k, l \in DOMAIN rest : rest[k] = rest[l] => k = l
  BY <1>1, Enumerates
<1>6. Dir!ToSet(passing) = P0
  BY <1>4, SameOperators
<1>7. DOMAIN old = O /\ \A i \in O : old[i] = made[i]
  BY DEF Dir!Restrict
<1>8. A = IF n.kind = "new" THEN P0 ELSE P0 \ O
  BY DEF Adds
<1> HIDE DEF passing, rest, A, P0, O
<1>9. plan = [add    |-> [k \in DOMAIN added |-> Dir!File(added[k], n.new[added[k]])],
              update |-> Dir!Restrict(n.new, P0 \cap DOMAIN old),
              remove |-> Dir!Restrict(old, DOMAIN old \ P0),
              prune  |-> IF n.kind = "edited" THEN DOMAIN old \ P0 ELSE {}]
  <2>1. plan = Dir!Plan(n, made, passing)
    BY DEF PlanFor, passing
  <2>2. Dir!Restrict(made, DOMAIN n.old \cap DOMAIN made) = old
    BY DEF O, Olds
  <2>3. added = IF n.kind = "new" THEN passing ELSE Dir!SetToSeq(P0 \ DOMAIN old)
    BY <1>7 DEF rest
  <2> HIDE DEF plan, old, added
  <2>4. QED
    BY <1>6, <2>1, <2>2, <2>3 DEF Dir!Plan
<1> HIDE DEF plan, old
<1>10. /\ added \in Seq(A) /\ ToSet(added) = A
       /\ \A k, l \in DOMAIN added : added[k] = added[l] => k = l
  BY <1>4, <1>5, <1>8
<1> HIDE DEF added
<1>11. A \subseteq DOMAIN n.new
  BY <1>1, <1>8
<1>12. OneEach(plan.add, n.new) /\ IdsOf(plan.add) = A
  <2> DEFINE add == [k \in DOMAIN added |-> Dir!File(added[k], n.new[added[k]])]
  <2>1. plan.add = add
    BY <1>9
  <2>2. DOMAIN added = 1..Len(added) /\ Len(added) \in Nat
    BY <1>10
  <2>3. ASSUME NEW k \in DOMAIN added
        PROVE  /\ added[k] \in A /\ added[k] \in DOMAIN n.new
               /\ add[k] = Dir!File(added[k], n.new[added[k]])
               /\ add[k] \in Files /\ add[k].id = added[k]
    <3>1. added[k] \in A
      BY <1>10, <2>2
    <3>2. added[k] \in Nat /\ n.new[added[k]] \in Contents
      BY <1>1, <1>11, <3>1 DEF Collection
    <3>3. QED
      BY <1>11, <3>1, <3>2, FileIsItem
  <2>4. add \in Seq(Files)
    BY <2>2, <2>3
  <2>5. DOMAIN add = DOMAIN added
    OBVIOUS
  <2> HIDE DEF add
  <2>6. OneEach(add, n.new)
    BY <1>10, <2>3, <2>4, <2>5 DEF OneEach
  <2>7. IdsOf(add) = A
    BY <1>10, <2>3, <2>5 DEF IdsOf, ToSet
  <2>8. QED
    BY <2>1, <2>6, <2>7
<1>13. plan.update = [i \in Updates(n, made, wanted) |-> n.new[i]]
  BY <1>7, <1>9 DEF Dir!Restrict, Updates, P0, O
<1>14. plan.remove = [i \in Removes(n, made, wanted) |-> made[i]]
  <2>1. Removes(n, made, wanted) = O \ P0
    BY DEF Removes, P0, O
  <2>2. plan.remove = [i \in O \ P0 |-> old[i]]
    BY <1>7, <1>9 DEF Dir!Restrict
  <2>3. QED
    BY <1>7, <2>1, <2>2
<1>15. plan.prune = Prunes(n, made, wanted)
  BY <1>7, <1>9 DEF Prunes, Removes, P0, O
<1>16. QED
  BY <1>12, <1>13, <1>14, <1>15 DEF A, plan, PlanDoes

\* What was made of messages: with their contents.
Made(made) == made \in [DOMAIN made -> Contents] /\ DOMAIN made \subseteq Nat

\* _message_to_file after a plan.
LEMMA FilesAfterProps ==
  ASSUME NEW n, NEW made, NEW wanted, Collection(n.new), Made(made)
  PROVE  /\ Made(Dir!FilesAfter(made, PlanFor(n, made, wanted)))
         /\ FilesBecome(Dir!FilesAfter(made, PlanFor(n, made, wanted)), n, made, wanted)
<1> DEFINE plan  == PlanFor(n, made, wanted)
           after == Dir!FilesAfter(made, plan)
           A     == Adds(n, made, wanted)
           U     == Updates(n, made, wanted)
           added == Dir!Added(plan)
<1>1. A \subseteq DOMAIN n.new /\ U \subseteq DOMAIN n.new
  BY DEF Adds, Updates, Passed
<1> HIDE DEF A, U
<1>2. /\ OneEach(plan.add, n.new) /\ IdsOf(plan.add) = A
      /\ plan.update = [i \in U |-> n.new[i]]
      /\ plan.prune = Prunes(n, made, wanted)
  <2>1. PlanDoes(plan, n, made, wanted)
    BY PlanParts
  <2> HIDE DEF plan
  <2>2. QED
    BY <2>1 DEF PlanDoes, A, U
<1> HIDE DEF plan
<1>3. DOMAIN added = A /\ \A i \in A : added[i] = n.new[i]
  <2>1. DOMAIN added = A
    BY <1>2 DEF Dir!Added, IdsOf
  <2>2. ASSUME NEW i \in A PROVE added[i] = n.new[i]
    <3> DEFINE f == CHOOSE f \in Dir!ToSet(plan.add) : f.id = i
    <3>1. \E g \in Dir!ToSet(plan.add) : g.id = i
      BY <1>2 DEF IdsOf, Dir!ToSet
    <3>2. f \in Dir!ToSet(plan.add) /\ f.id = i
      BY <3>1
    <3>3. added[i] = f.content
      BY <1>2, <2>1 DEF Dir!Added, IdsOf
    <3> HIDE DEF f
    <3>4. f = Dir!File(i, n.new[i])
      BY <1>2, <3>2 DEF OneEach, Dir!ToSet
    <3>5. QED
      BY <3>3, <3>4 DEF Dir!File
  <2>3. QED
    BY <2>1, <2>2
<1> HIDE DEF added
<1>4. /\ DOMAIN after = (DOMAIN made \cup A \cup U) \ plan.prune
      /\ \A i \in DOMAIN after : after[i] = IF i \in A THEN added[i]
                                            ELSE IF i \in U THEN plan.update[i]
                                            ELSE made[i]
  BY <1>2, <1>3 DEF Dir!FilesAfter, added
<1>5. after \in [DOMAIN after -> {after[i] : i \in DOMAIN after}]
  BY DEF Dir!FilesAfter
<1> HIDE DEF after
<1>6. \A i \in DOMAIN after : after[i] = IF i \in A \cup U THEN n.new[i] ELSE made[i]
  BY <1>2, <1>3, <1>4
<1>7. Made(after)
  <2>1. ASSUME NEW i \in DOMAIN after PROVE after[i] \in Contents /\ i \in Nat
    BY <1>1, <1>4, <1>6 DEF Made, Collection
  <2>2. QED
    BY <1>5, <2>1 DEF Made
<1>8. QED
  <2>1. FilesBecome(after, n, made, wanted)
    BY <1>2, <1>4, <1>6 DEF FilesBecome, A, U
  <2>2. QED
    BY <1>7, <2>1 DEF after, plan

\* The items after a plan: those of its files.
LEMMA ItemsAfterProps ==
  ASSUME NEW n, NEW made, NEW wanted, NEW list, Collection(n.new), Made(made),
         IsFiniteSet(DOMAIN n.old), OneEach(list, made),
         Adds(n, made, wanted) \cap (IdsOf(list) \ Removes(n, made, wanted)) = {},
         n.kind = "new" => n.old = <<>>
  PROVE  /\ OneEach(Dir!ItemsAfter(list, PlanFor(n, made, wanted)),
                    Dir!FilesAfter(made, PlanFor(n, made, wanted)))
         /\ IdsOf(Dir!ItemsAfter(list, PlanFor(n, made, wanted)))
              = (IdsOf(list) \ Removes(n, made, wanted)) \cup Adds(n, made, wanted)
<1> DEFINE plan  == PlanFor(n, made, wanted)
           now   == Dir!FilesAfter(made, plan)
           A     == Adds(n, made, wanted)
           U     == Updates(n, made, wanted)
           R     == Removes(n, made, wanted)
           ids   == (IdsOf(list) \ R) \cup A
           left  == Dir!Dropped(list, Dir!FilesOf(plan.remove))
           value == [i \in DOMAIN made \cup A |-> IF i \in A THEN n.new[i] ELSE made[i]]
<1>1. /\ A \subseteq DOMAIN n.new /\ U \subseteq DOMAIN n.new
      /\ R \subseteq DOMAIN made /\ R \subseteq DOMAIN n.old
      /\ A \cap U = {} /\ A \cap R = {}
      /\ IdsOf(list) \subseteq DOMAIN made
  <2>1. DOMAIN <<>> = {}
    OBVIOUS
  <2>2. IdsOf(list) \subseteq DOMAIN made
    BY DEF IdsOf, OneEach
  <2>3. QED
    BY <2>1, <2>2 DEF Adds, Updates, Removes, Passed, Olds
<1>2. /\ OneEach(plan.add, n.new) /\ IdsOf(plan.add) = A
      /\ plan.update = [i \in U |-> n.new[i]]
      /\ plan.remove = [i \in R |-> made[i]]
  <2>1. PlanDoes(plan, n, made, wanted)
    BY PlanParts
  <2> HIDE DEF plan
  <2>2. QED
    BY <2>1 DEF PlanDoes
<1>3. /\ DOMAIN now = (DOMAIN made \cup (A \cup U))
                          \ Prunes(n, made, wanted)
      /\ \A i \in DOMAIN now : now[i] = IF i \in A \cup U THEN n.new[i] ELSE made[i]
  <2>1. FilesBecome(now, n, made, wanted)
    BY FilesAfterProps
  <2> HIDE DEF now
  <2>2. QED
    BY <2>1 DEF FilesBecome
<1>4. Dir!ItemsAfter(list, plan) = Dir!Replaced(left \o plan.add, plan.update)
  BY DEF Dir!ItemsAfter
<1> HIDE DEF plan, now, A, U, R
<1>5. Collection(plan.remove) /\ DOMAIN plan.remove = R
  <2>1. IsFiniteSet(R)
    BY <1>1, FS_Subset, Zenon
  <2>2. \A i \in R : made[i] \in Contents /\ i \in Nat
    BY <1>1 DEF Made
  <2>3. QED
    BY <1>2, <2>1, <2>2 DEF Collection
<1>6. Collection(plan.update)
  <2>1. IsFiniteSet(U)
    BY <1>1, FS_Subset, Zenon DEF Collection
  <2>2. \A i \in U : n.new[i] \in Contents /\ i \in Nat
    BY <1>1 DEF Collection
  <2>3. QED
    BY <1>2, <2>1, <2>2 DEF Collection
<1>7. OneEach(left, made) /\ IdsOf(left) = IdsOf(list) \ R
  <2>1. \A i \in DOMAIN plan.remove : plan.remove[i] = made[i]
    BY <1>2
  <2>2. QED
    BY <1>1, <1>5, <2>1, DroppedProps
<1> HIDE DEF left
<1>8. IdsOf(left) \cap A = {}
  BY <1>7 DEF A, R
<1>9. OneEach(left, value)
  BY <1>1, <1>7, <1>8, OneEachAgree
<1>10. OneEach(plan.add, value)
  BY <1>2, OneEachAgree
<1> HIDE DEF value
<1>11. OneEach(left \o plan.add, value) /\ IdsOf(left \o plan.add) = ids
  BY <1>2, <1>7, <1>8, <1>9, <1>10, JoinedProps
<1>12. ASSUME NEW i \in ids
       PROVE  /\ i \in DOMAIN now
              /\ now[i] = IF i \in DOMAIN plan.update THEN plan.update[i] ELSE value[i]
  <2>1. i \in DOMAIN now
    BY <1>1, <1>3 DEF Prunes, R
  <2>2. value[i] = IF i \in A THEN n.new[i] ELSE made[i]
    BY <1>1 DEF value
  <2>3. DOMAIN plan.update = U /\ \A j \in U : plan.update[j] = n.new[j]
    BY <1>2
  <2>4. QED
    BY <1>1, <1>3, <2>1, <2>2, <2>3
<1>13. OneEach(Dir!ItemsAfter(list, plan), now) /\ IdsOf(Dir!ItemsAfter(list, plan)) = ids
  BY <1>4, <1>6, <1>11, <1>12, ReplacedProps
<1>14. QED
  BY <1>13 DEF plan, now, A, R

-----------------------------------------------------------------------------
(* What a producer does to its directory *)

\* Removing elements one after another, step by step.
LEMMA RemovesSteps ==
  ASSUME NEW S, NEW list \in Seq(S), NEW gone \in Seq(S)
  PROVE  \E folded :
           /\ FoldLeft(RemoveFirst, list, gone) = folded[1..Len(gone)]
           /\ StepsIn(Seq(S), folded, Len(gone), list,
                      [p \in Seq(S) \X (1..Len(gone)) |-> RemoveFirst(p[1], gone[p[2]])])
<1> DEFINE n    == Len(gone)
           step == [p \in Seq(S) \X (1..n) |-> RemoveFirst(p[1], gone[p[2]])]
           Is(f, T) == f[T] = IF T = {} THEN list
                              ELSE RemoveFirst(f[T \ {Max(T)}], gone[Max(T)])
           Equation(f) ==
             f = [T \in SUBSET (1..n) |->
                    IF T = {} THEN list
                    ELSE RemoveFirst(f[T \ {Max(T)}], gone[Max(T)])]
           folded == CHOOSE f : Equation(f)
<1>1. n \in Nat /\ DOMAIN gone = 1..n
  OBVIOUS
<1>2. FoldLeft(RemoveFirst, list, gone) = folded[1..n]
  BY <1>1 DEF FoldLeft, MapThenFoldSet
<1> HIDE DEF n
<1>3. step \in [Seq(S) \X (1..n) -> Seq(S)]
  BY RemoveFirstType
<1>4. PICK iter \in [SUBSET (1..n) -> Seq(S)] : Folds(iter, n, list, step)
  BY <1>1, <1>3, FoldDefined
<1>5. ASSUME NEW T \in SUBSET (1..n) PROVE Is(iter, T)
  <2>1. T # {} => Max(T) \in 1..n /\ iter[T \ {Max(T)}] \in Seq(S)
    BY <1>1, MaxOfSome
  <2>2. QED
    BY <1>4, <2>1 DEF Folds
<1>6. Equation(iter)
  BY <1>5
<1>7. Equation(folded)
  <2> HIDE DEF Equation
  <2>1. QED
    BY <1>6, Zenon
<1> HIDE DEF folded
<1>8. StepsIn(Seq(S), folded, n, list, step)
  BY <1>1, <1>7, FirstNumbers DEF StepsIn
<1> HIDE DEF Equation, step
<1>9. QED
  BY <1>2, <1>8, Zenon DEF n, step

\* Files are removed from the directory of a producer.
LEMMA RemoveFilesProps ==
  ASSUME NEW t \in Trees, NEW path \in DOMAIN t.dirs, NEW own, Collection(own)
  PROVE  LET u == RemoveFiles(t, path, own)
         IN  /\ u \in Trees /\ u.subdirs = t.subdirs
             /\ u.dirs = [t.dirs EXCEPT ![path] = Dir!Dropped(@, Dir!FilesOf(own))]
<1> DEFINE list == Dir!FilesOf(own)
           n    == Len(list)
           A    == {u \in Trees : path \in DOMAIN u.dirs}
           step == [p \in A \X (1..n) |-> RemoveContent(p[1], path, list[p[2]])]
           Is(f, T) == f[T] = IF T = {} THEN t
                              ELSE RemoveContent(f[T \ {Max(T)}], path, list[Max(T)])
           Equation(f) ==
             f = [T \in SUBSET (1..n) |->
                    IF T = {} THEN t
                    ELSE RemoveContent(f[T \ {Max(T)}], path, list[Max(T)])]
           folded == CHOOSE f : Equation(f)
<1>1. list \in Seq(Files)
  BY FilesOfProps DEF OneEach
<1>2. /\ n \in Nat /\ DOMAIN list = 1..n /\ \A k \in 1..n : list[k] \in Files
      /\ t \in A
  BY <1>1
<1>3. FoldLeft(LAMBDA acc, f : RemoveContent(acc, path, f), t, list) = folded[1..n]
  BY <1>2 DEF FoldLeft, MapThenFoldSet
<1>4. PICK dropped :
        /\ FoldLeft(RemoveFirst, t.dirs[path], list) = dropped[1..n]
        /\ StepsIn(Seq(Files), dropped, n, t.dirs[path],
                   [p \in Seq(Files) \X (1..n) |-> RemoveFirst(p[1], list[p[2]])])
  BY <1>1, TreeShape, RemovesSteps
<1> HIDE DEF n, list
<1>5. ASSUME NEW u \in A, NEW k \in 1..n
      PROVE  LET v == RemoveContent(u, path, list[k])
             IN  /\ v \in A /\ v.subdirs = u.subdirs
                 /\ v.dirs = [u.dirs EXCEPT ![path] = RemoveFirst(@, list[k])]
  BY <1>2, RemoveContentProps
<1> HIDE DEF A
<1>6. step \in [A \X (1..n) -> A]
  BY <1>5
<1>7. PICK iter \in [SUBSET (1..n) -> A] : Folds(iter, n, t, step)
  BY <1>2, <1>6, FoldDefined
<1>8. ASSUME NEW T \in SUBSET (1..n) PROVE Is(iter, T)
  <2>1. T # {} => Max(T) \in 1..n /\ iter[T \ {Max(T)}] \in A
    BY <1>2, MaxOfSome
  <2>2. QED
    BY <1>7, <2>1 DEF Folds
<1>9. Equation(iter)
  BY <1>8
<1>10. Equation(folded)
  <2> HIDE DEF Equation
  <2>1. QED
    BY <1>9, Zenon
<1> HIDE DEF folded
<1>11. StepsIn(A, folded, n, t, step)
  BY <1>2, <1>10, FirstNumbers DEF StepsIn
<1> HIDE DEF Equation
<1> DEFINE Good(u, k) == /\ u.subdirs = t.subdirs
                         /\ u.dirs = [t.dirs EXCEPT ![path] = dropped[1..k]]
           good == [k \in 0..n |-> {u \in A : Good(u, k)}]
<1>12. Good(t, 0)
  <2>1. 1..0 = {}
    OBVIOUS
  <2>2. dropped[1..0] = t.dirs[path]
    BY <1>4, <2>1 DEF StepsIn
  <2>3. t.dirs = [t.dirs EXCEPT ![path] = t.dirs[path]]
    BY TreeShape
  <2>4. QED
    BY <2>2, <2>3
<1>13. ASSUME NEW k \in 1..n, NEW u \in A, Good(u, k - 1)
       PROVE  Good(step[<<u, k>>], k)
  <2> DEFINE v == RemoveContent(u, path, list[k])
  <2>1. step[<<u, k>>] = v
    BY <1>13
  <2>2. /\ v.subdirs = u.subdirs
        /\ v.dirs = [u.dirs EXCEPT ![path] = RemoveFirst(@, list[k])]
    BY <1>5
  <2> HIDE DEF v, step
  <2>3. u.dirs = [t.dirs EXCEPT ![path] = dropped[1..(k - 1)]] /\ u.subdirs = t.subdirs
    BY <1>13
  <2>4. u.dirs[path] = dropped[1..(k - 1)]
    BY <2>3, TreeShape
  <2>5. u.dirs[path] \in Seq(Files)
    BY TreeShape DEF A
  <2>6. dropped[1..k] = RemoveFirst(dropped[1..(k - 1)], list[k])
    BY <1>4, <2>4, <2>5 DEF StepsIn
  <2>7. v.dirs = [t.dirs EXCEPT ![path] = RemoveFirst(dropped[1..(k - 1)], list[k])]
    BY <2>2, <2>3, <2>4
  <2>8. QED
    BY <2>1, <2>2, <2>3, <2>6, <2>7
<1>14. Keeps(A, good, n, t, step)
  <2>1. \A k \in 1..n : k - 1 \in 0..n /\ k \in 0..n
    BY <1>2
  <2>2. ASSUME NEW k \in 1..n, NEW u \in good[k - 1] PROVE step[<<u, k>>] \in good[k]
    <3> HIDE DEF Good
    <3>1. u \in A /\ Good(u, k - 1)
      BY <2>1
    <3>2. step[<<u, k>>] \in A
      BY <1>6, <3>1
    <3>3. QED
      BY <1>13, <2>1, <3>1, <3>2
  <2>3. good \in [0..n -> SUBSET A] /\ t \in good[0]
    <3> HIDE DEF Good
    <3>1. 0 \in 0..n
      BY <1>2
    <3>2. QED
      BY <1>2, <1>12, <3>1
  <2> HIDE DEF good, step
  <2>4. QED
    BY <2>2, <2>3 DEF Keeps
<1> HIDE DEF step
<1>15. folded[1..n] \in A /\ Good(folded[1..n], n)
  <2> HIDE DEF Good
  <2>1. folded[1..n] \in good[n]
    <3> HIDE DEF good
    <3>1. QED
      BY <1>2, <1>11, <1>14, FoldKeeps
  <2>2. n \in 0..n
    BY <1>2
  <2>3. QED
    BY <2>1, <2>2
<1>16. Dir!Dropped(t.dirs[path], list) = dropped[1..n]
  BY <1>4, SameOperators
<1>17. RemoveFiles(t, path, own) = folded[1..n]
  BY <1>3 DEF RemoveFiles, list
<1>18. QED
  BY <1>15, <1>16, <1>17 DEF A, list

\* The files of messages renew the items of these messages.
LEMMA RenewedIsReplaced ==
  ASSUME NEW list \in Seq(Files), NEW own, Collection(own)
  PROVE  Renewed(list, Dir!FilesOf(own)) = Dir!Replaced(list, own)
<1> DEFINE items == Dir!FilesOf(own)
<1>1. OneEach(items, own) /\ IdsOf(items) = DOMAIN own
  BY FilesOfProps
<1>2. items \in Seq(Files)
  BY <1>1 DEF OneEach
<1>3. ASSUME NEW k \in DOMAIN list
      PROVE  Renewed(list, items)[k]
               = IF list[k].id \in DOMAIN own
                 THEN Dir!File(list[k].id, own[list[k].id]) ELSE list[k]
  <2>1. \/ /\ ~ \E l \in DOMAIN items : items[l].id = list[k].id
           /\ Renewed(list, items)[k] = list[k]
        \/ \E l \in DOMAIN items : items[l].id = list[k].id
                                   /\ Renewed(list, items)[k] = items[l]
    BY <1>2, RenewedItem
  <2> HIDE DEF items
  <2>2. list[k].id \in DOMAIN own <=> \E l \in DOMAIN items : items[l].id = list[k].id
    BY <1>1 DEF IdsOf
  <2>3. \A l \in DOMAIN items : items[l] = Dir!File(items[l].id, own[items[l].id])
    BY <1>1 DEF OneEach
  <2>4. QED
    BY <2>1, <2>2, <2>3
<1> HIDE DEF items
<1>4. Renewed(list, items) = [k \in DOMAIN list |-> Renewed(list, items)[k]]
  BY DEF Renewed
<1>5. Dir!Replaced(list, own)
        = [k \in DOMAIN list |-> IF list[k].id \in DOMAIN own
                                 THEN Dir!File(list[k].id, own[list[k].id]) ELSE list[k]]
  BY DEF Dir!Replaced
<1>6. QED
  BY <1>3, <1>4, <1>5 DEF items

LEMMA UpdateFilesProps ==
  ASSUME NEW t \in Trees, NEW path \in DOMAIN t.dirs, NEW own, Collection(own)
  PROVE  LET u == UpdateFiles(t, path, own)
         IN  /\ u \in Trees /\ u.subdirs = t.subdirs
             /\ u.dirs = [t.dirs EXCEPT ![path] = Dir!Replaced(@, own)]
<1> DEFINE list == t.dirs[path]
<1>1. list \in Seq(Files)
  BY TreeShape
<1>2. CASE own = None
  <2>1. DOMAIN own = {}
    BY <1>2 DEF None, Source!Empty
  <2> HIDE DEF list
  <2>2. Dir!Replaced(list, own) = list
    <3>1. Dir!Replaced(list, own) = [k \in DOMAIN list |-> list[k]]
      BY <2>1 DEF Dir!Replaced
    <3>2. QED
      BY <1>1, <3>1
  <2>3. t.dirs = [t.dirs EXCEPT ![path] = list]
    BY TreeShape DEF list
  <2>4. UpdateFiles(t, path, own) = t
    BY <1>2 DEF UpdateFiles
  <2>5. QED
    BY <2>2, <2>3, <2>4 DEF list
<1>3. CASE own # None
  <2>1. UpdateFiles(t, path, own) = UpdateContent(t, path, Dir!FilesOf(own))
    BY <1>3 DEF UpdateFiles
  <2>2. Dir!FilesOf(own) \in Seq(Files)
    BY FilesOfProps DEF OneEach
  <2>3. Renewed(list, Dir!FilesOf(own)) = Dir!Replaced(list, own)
    BY <1>1, RenewedIsReplaced
  <2> DEFINE u == UpdateContent(t, path, Dir!FilesOf(own))
  <2>4. /\ u \in Trees /\ u.subdirs = t.subdirs
        /\ u.dirs = [t.dirs EXCEPT ![path] = Renewed(t.dirs[path], Dir!FilesOf(own))]
    BY <2>2, UpdateContentProps
  <2> HIDE DEF u
  <2>5. QED
    BY <2>1, <2>3, <2>4 DEF u
<1>4. QED
  BY <1>2, <1>3

-----------------------------------------------------------------------------
(* The states of a grouper *)

\* Messages with numbers up to N.
Numbered(N) == UNION {[S -> Contents] : S \in SUBSET (1..N)}

Groupers(N) ==
  [groups : UNION {[S -> Numbered(N)] : S \in SUBSET Words},
   root   : Numbered(N),
   files  : UNION {[S -> Numbered(N)] : S \in SUBSET Paths},
   tree   : Trees]

Notices(N) ==
  [kind : {"none", "new", "removed", "edited"}, old : Numbered(N), new : Numbered(N)]

LEMMA NumberedProps ==
  ASSUME NEW N \in Nat, NEW ms \in Numbered(N)
  PROVE  /\ Collection(ms) /\ Made(ms) /\ DOMAIN ms \subseteq 1..N
         /\ ms \in [DOMAIN ms -> Contents] /\ IsFiniteSet(DOMAIN ms)
<1>1. ms \in [DOMAIN ms -> Contents] /\ DOMAIN ms \subseteq 1..N
  BY DEF Numbered
<1>2. IsFiniteSet(1..N)
  BY FS_Interval
<1>3. IsFiniteSet(DOMAIN ms)
  BY <1>1, <1>2, FS_Subset, Zenon
<1>4. DOMAIN ms \subseteq Nat
  BY <1>1
<1>5. QED
  BY <1>1, <1>3, <1>4 DEF Collection, Made

LEMMA NumberedMade ==
  ASSUME NEW N \in Nat, NEW ms, ms \in [DOMAIN ms -> Contents], DOMAIN ms \subseteq 1..N
  PROVE  ms \in Numbered(N)
BY DEF Numbered

LEMMA GrouperShape ==
  ASSUME NEW N \in Nat, NEW g \in Groupers(N)
  PROVE  /\ g.groups \in [DOMAIN g.groups -> Numbered(N)] /\ DOMAIN g.groups \subseteq Words
         /\ g.files \in [DOMAIN g.files -> Numbered(N)] /\ DOMAIN g.files \subseteq Paths
         /\ g.root \in Numbered(N) /\ g.tree \in Trees
BY DEF Groupers

\* The files of a producer and the items of its directory after a notice.
FilesNow(made, wanted, notice) ==
  IF notice.kind = "none" THEN made
  ELSE Dir!FilesAfter(made, PlanFor(notice, made, wanted))

ItemsNow(list, made, wanted, notice) ==
  IF notice.kind = "none" THEN list
  ELSE Dir!ItemsAfter(list, PlanFor(notice, made, wanted))

LEMMA FilesNowNumbered ==
  ASSUME NEW N \in Nat, NEW made \in Numbered(N), NEW wanted, NEW notice \in Notices(N)
  PROVE  FilesNow(made, wanted, notice) \in Numbered(N)
<1> DEFINE after == Dir!FilesAfter(made, PlanFor(notice, made, wanted))
<1>1. notice.new \in Numbered(N)
  BY DEF Notices
<1>2. Collection(notice.new) /\ Made(made) /\ DOMAIN notice.new \subseteq 1..N
      /\ DOMAIN made \subseteq 1..N
  BY <1>1, NumberedProps
<1>3. Made(after) /\ FilesBecome(after, notice, made, wanted)
  BY <1>2, FilesAfterProps
<1> HIDE DEF after
<1>4. DOMAIN after \subseteq 1..N
  BY <1>2, <1>3 DEF FilesBecome, Adds, Updates, Passed
<1>5. after \in Numbered(N)
  BY <1>3, <1>4, NumberedMade DEF Made
<1>6. QED
  BY <1>5 DEF FilesNow, after

\* A plain producer that is told of a notice changes its files and its directory.
LEMMA ListenerProps ==
  ASSUME NEW N \in Nat, NEW g \in Groupers(N), NEW path \in DOMAIN g.files,
         path \in DOMAIN g.tree.dirs, NEW wanted, NEW notice \in Notices(N)
  PROVE  LET u == Listener(g, path, wanted, notice)
         IN  /\ u \in Groupers(N)
             /\ u.groups = g.groups /\ u.root = g.root /\ u.tree.subdirs = g.tree.subdirs
             /\ u.files = [g.files EXCEPT ![path] = FilesNow(@, wanted, notice)]
             /\ u.tree.dirs = [g.tree.dirs EXCEPT
                                 ![path] = ItemsNow(@, g.files[path], wanted, notice)]
<1> DEFINE u    == Listener(g, path, wanted, notice)
           made == g.files[path]
           list == g.tree.dirs[path]
           plan == PlanFor(notice, made, wanted)
<1>1. g.tree \in Trees /\ made \in Numbered(N) /\ list \in Seq(Files)
      /\ g.files \in [DOMAIN g.files -> Numbered(N)] /\ DOMAIN g.files \subseteq Paths
  BY GrouperShape, TreeShape
<1>2. CASE notice.kind = "none"
  <2>1. u = g
    BY <1>2 DEF Listener
  <2>2. FilesNow(made, wanted, notice) = made /\ ItemsNow(list, made, wanted, notice) = list
    BY <1>2 DEF FilesNow, ItemsNow
  <2>3. g.files = [g.files EXCEPT ![path] = made]
    BY <1>1
  <2>4. g.tree.dirs = [g.tree.dirs EXCEPT ![path] = list]
    BY <1>1, TreeShape
  <2> HIDE DEF u
  <2>5. QED
    BY <2>1, <2>2, <2>3, <2>4 DEF u
<1>3. CASE notice.kind # "none"
  <2>1. notice.new \in Numbered(N) /\ notice.old \in Numbered(N)
    BY DEF Notices
  <2>2. Collection(notice.new) /\ Made(made)
    BY <1>1, <2>1, NumberedProps
  <2>3. PlanDoes(plan, notice, made, wanted)
    BY <2>2, PlanParts
  <2> DEFINE after == Dir!FilesAfter(made, plan)
             t1 == RemoveFiles(g.tree, path, plan.remove)
             t2 == PutContent(t1, path, plan.add)
             t3 == UpdateFiles(t2, path, plan.update)
  <2>4. u = [g EXCEPT !.files[path] = after, !.tree = t3]
    BY <1>3 DEF Listener, Carry, PlanFor
  <2>5. after = FilesNow(made, wanted, notice) /\ after \in Numbered(N)
    BY <1>1, <1>3, FilesNowNumbered DEF FilesNow
  <2> HIDE DEF plan, after
  <2>6. plan.add \in Seq(Files) /\ Collection(plan.update) /\ Collection(plan.remove)
    <3> DEFINE R == Removes(notice, made, wanted)
               U == Updates(notice, made, wanted)
    <3>1. R \subseteq DOMAIN made /\ U \subseteq DOMAIN notice.new
      BY DEF Removes, Updates, Olds, Passed
    <3>2. /\ made \in [DOMAIN made -> Contents] /\ DOMAIN made \subseteq Nat
          /\ IsFiniteSet(DOMAIN made)
      BY <1>1, <2>2, NumberedProps DEF Made
    <3>3. /\ notice.new \in [DOMAIN notice.new -> Contents]
          /\ DOMAIN notice.new \subseteq Nat /\ IsFiniteSet(DOMAIN notice.new)
      BY <2>2 DEF Collection
    <3>4. IsFiniteSet(R) /\ IsFiniteSet(U)
      BY <3>1, <3>2, <3>3, FS_Subset, Zenon
    <3>5. plan.update = [i \in U |-> notice.new[i]] /\ plan.remove = [i \in R |-> made[i]]
      BY <2>3 DEF PlanDoes
    <3> HIDE DEF R, U
    <3>6. Collection(plan.update) /\ Collection(plan.remove)
      BY <3>1, <3>2, <3>3, <3>4, <3>5 DEF Collection
    <3>7. QED
      BY <2>3, <3>6 DEF PlanDoes, OneEach
  <2>7. /\ t1 \in Trees /\ t1.subdirs = g.tree.subdirs
        /\ t1.dirs = [g.tree.dirs EXCEPT ![path] = Dir!Dropped(@, Dir!FilesOf(plan.remove))]
    BY <1>1, <2>6, RemoveFilesProps
  <2> HIDE DEF t1
  <2>8. path \in DOMAIN t1.dirs
    BY <2>7
  <2>9. /\ t2 \in Trees /\ t2.subdirs = t1.subdirs
        /\ t2.dirs = [t1.dirs EXCEPT ![path] = @ \o plan.add]
    <3> DEFINE items == plan.add
    <3>1. t1 \in Trees /\ path \in DOMAIN t1.dirs /\ items \in Seq(Files)
      BY <2>6, <2>7, <2>8
    <3> HIDE DEF items
    <3> DEFINE v == PutContent(t1, path, items)
    <3>2. /\ v \in Trees /\ v.subdirs = t1.subdirs
          /\ v.dirs = [t1.dirs EXCEPT ![path] = @ \o items]
      BY <3>1, PutContentProps
    <3>3. t2 = v
      BY DEF items
    <3> HIDE DEF v
    <3>4. QED
      BY <3>2, <3>3 DEF items
  <2> HIDE DEF t2
  <2>10. path \in DOMAIN t2.dirs
    BY <2>8, <2>9
  <2>11. /\ t3 \in Trees /\ t3.subdirs = t2.subdirs
         /\ t3.dirs = [t2.dirs EXCEPT ![path] = Dir!Replaced(@, plan.update)]
    <3>1. t2 \in Trees /\ path \in DOMAIN t2.dirs /\ Collection(plan.update)
      BY <2>6, <2>9, <2>10
    <3>2. QED
      BY <3>1, UpdateFilesProps
  <2> HIDE DEF t3
  <2>12. Dir!ItemsAfter(list, plan)
           = Dir!Replaced(Dir!Dropped(list, Dir!FilesOf(plan.remove)) \o plan.add, plan.update)
    BY DEF Dir!ItemsAfter
  <2>13. t3.dirs = [g.tree.dirs EXCEPT ![path] = Dir!ItemsAfter(list, plan)]
    BY <1>1, <2>7, <2>9, <2>11, <2>12, TreeShape
  <2>14. Dir!ItemsAfter(list, plan) = ItemsNow(list, made, wanted, notice)
    BY <1>3 DEF ItemsNow, plan
  <2>15. /\ u.groups = g.groups /\ u.root = g.root /\ u.tree = t3
         /\ u.files = [g.files EXCEPT ![path] = after]
         /\ u \in Groupers(N)
    <3>1. [g.files EXCEPT ![path] = after]
            \in UNION {[S -> Numbered(N)] : S \in SUBSET Paths}
      BY <1>1, <2>5
    <3> HIDE DEF u
    <3>2. QED
      BY <2>4, <2>11, <3>1 DEF Groupers
  <2> HIDE DEF u
  <2>16. QED
    BY <2>5, <2>7, <2>9, <2>11, <2>13, <2>14, <2>15 DEF u
<1>4. QED
  BY <1>2, <1>3

-----------------------------------------------------------------------------
(* The directories of a group *)

LEMMA PartIsPath ==
  ASSUME NEW p \in Range(Parts)
  PROVE  p \in Paths
<1>1. PICK k \in DOMAIN Parts : p = Parts[k]
  BY DEF Range
<1>2. Parts[k] \in Seq(Range(Parts[k]))
  BY PartsAssumption
<1>3. Range(Parts[k]) \subseteq Words
  BY DEF Words
<1>4. QED
  BY <1>1, <1>2, <1>3 DEF Paths

\* The path of a part of a group.
LEMMA PartPath ==
  ASSUME NEW n \in Words, NEW p \in Paths
  PROVE  LET q == <<n>> \o p
         IN  /\ q \in Paths /\ q # <<>> /\ Len(q) = Len(p) + 1 /\ q[1] = n
             /\ \A i \in 1..Len(p) : q[i + 1] = p[i]
<1>1. p \in Seq(Words) /\ <<n>> \in Seq(Words) /\ Len(<<n>>) = 1 /\ Len(p) \in Nat
  BY PathShape
<1> DEFINE q == <<n>> \o p
<1>2. /\ q \in Seq(Words) /\ Len(q) = 1 + Len(p)
      /\ \A i \in 1..(1 + Len(p)) : q[i] = IF i <= 1 THEN <<n>>[i] ELSE p[i - 1]
  BY <1>1
<1> HIDE DEF q
<1>3. q[1] = n /\ \A i \in 1..Len(p) : q[i + 1] = p[i]
  <2>1. 1 \in 1..(1 + Len(p))
    BY <1>1
  <2>2. \A i \in 1..Len(p) : i + 1 \in 1..(1 + Len(p)) /\ ~(i + 1 <= 1) /\ i + 1 - 1 = i
    BY <1>1
  <2>3. QED
    BY <1>2, <2>1, <2>2
<1>4. q # <<>>
  BY <1>1, <1>2
<1>5. QED
  BY <1>1, <1>2, <1>3, <1>4 DEF Paths, q

LEMMA GroupPath ==
  ASSUME NEW n \in Words
  PROVE  /\ <<n>> \in Paths /\ <<n>> # <<>> /\ Len(<<n>>) = 1 /\ <<n>>[1] = n
         /\ Parent(<<n>>) = <<>>
         /\ \A p \in Paths : IsPrefix(<<n>>, p) <=> p # <<>> /\ p[1] = n
<1>1. <<n>> \in Paths /\ <<n>> # <<>> /\ Len(<<n>>) = 1 /\ <<n>>[1] = n
  BY DEF Paths
<1>2. Len(Parent(<<n>>)) = 0 /\ Parent(<<n>>) \in Paths
  <2> DEFINE p == <<n>>
  <2>1. p \in Paths /\ p # <<>> /\ Len(p) = 1
    BY <1>1
  <2> HIDE DEF p
  <2>2. Len(Parent(p)) = 0 /\ Parent(p) \in Paths
    BY <2>1, ParentShape
  <2>3. QED
    BY <2>2 DEF p
<1>3. Parent(<<n>>) = <<>>
  BY <1>2, PathShape
<1>4. ASSUME NEW p \in Paths PROVE IsPrefix(<<n>>, p) <=> p # <<>> /\ p[1] = n
  <2>1. IsPrefix(<<n>>, p) <=> 1 <= Len(p) /\ \A i \in 1..1 : <<n>>[i] = p[i]
    BY <1>1, PrefixIs
  <2>2. 1 <= Len(p) <=> p # <<>>
    BY PathShape
  <2>3. (\A i \in 1..1 : <<n>>[i] = p[i]) <=> n = p[1]
    BY <1>1
  <2>4. QED
    BY <2>1, <2>2, <2>3
<1>5. QED
  BY <1>1, <1>3, <1>4

\* Different parts have different paths.
LEMMA PartPathsDiffer ==
  ASSUME NEW n \in Words, NEW m \in Words, NEW p \in Paths, NEW q \in Paths,
         <<n>> \o p = <<m>> \o q
  PROVE  n = m /\ p = q
<1> DEFINE a == <<n>> \o p
           b == <<m>> \o q
<1>1. Len(a) = Len(p) + 1 /\ a[1] = n /\ \A i \in 1..Len(p) : a[i + 1] = p[i]
  BY PartPath
<1>2. Len(b) = Len(q) + 1 /\ b[1] = m /\ \A i \in 1..Len(q) : b[i + 1] = q[i]
  BY PartPath
<1> HIDE DEF a, b
<1>3. a = b
  BY DEF a, b
<1>4. Len(p) \in Nat /\ Len(q) \in Nat
  BY PathShape
<1>5. Len(p) = Len(q)
  BY <1>1, <1>2, <1>3, <1>4
<1>6. \A i \in 1..Len(p) : p[i] = q[i]
  BY <1>1, <1>2, <1>3, <1>5
<1>7. QED
  BY <1>1, <1>2, <1>3, <1>5, <1>6, SamePaths

\* Where a part is created: in the group, or in another part of it.
LEMMA PartParent ==
  ASSUME NEW n \in Words, NEW p \in Paths, p # <<>>
  PROVE  Parent(<<n>> \o p) = <<n>> \o Front(p) /\ Front(p) \in Paths
<1> DEFINE q == <<n>> \o p
           f == <<n>> \o Front(p)
           l == Len(p) - 1
<1>1. /\ q \in Paths /\ q # <<>> /\ Len(q) = Len(p) + 1 /\ q[1] = n
      /\ \A i \in 1..Len(p) : q[i + 1] = p[i]
  BY PartPath
<1>2. /\ Front(p) \in Paths /\ Len(Front(p)) = l /\ \A i \in 1..l : Front(p)[i] = p[i]
  BY ParentShape DEF Parent
<1>3. Len(p) \in Nat \ {0} /\ l \in Nat /\ l + 1 = Len(p)
  BY PathShape
<1>4. /\ f \in Paths /\ Len(f) = l + 1 /\ f[1] = n
      /\ \A i \in 1..l : f[i + 1] = Front(p)[i]
  BY <1>2, PartPath
<1> HIDE DEF q, f
<1>5. /\ Parent(q) \in Paths /\ Len(Parent(q)) = Len(q) - 1
      /\ \A i \in 1..(Len(q) - 1) : Parent(q)[i] = q[i]
  BY <1>1, ParentShape
<1> HIDE DEF l
<1>6. Len(q) - 1 = l + 1
  BY <1>1, <1>3
<1>7. ASSUME NEW i \in 1..(l + 1) PROVE Parent(q)[i] = f[i]
  <2>1. CASE i = 1
    BY <1>1, <1>4, <1>5, <1>6, <2>1
  <2>2. CASE i # 1
    <3>1. i - 1 \in 1..l /\ i - 1 \in 1..Len(p) /\ (i - 1) + 1 = i
      BY <1>3, <2>2
    <3>2. q[i] = p[i - 1] /\ f[i] = Front(p)[i - 1] /\ Front(p)[i - 1] = p[i - 1]
      BY <1>1, <1>2, <1>4, <3>1
    <3>3. QED
      BY <1>5, <1>6, <3>2
  <2>3. QED
    BY <2>1, <2>2
<1>8. Parent(q) = f
  BY <1>4, <1>5, <1>6, <1>7, SamePaths
<1>9. QED
  BY <1>2, <1>8 DEF q, f

\* The producers of these parts of a group have been told of a notice.
Told(g, u, n, notice, parts) ==
  /\ u.groups = g.groups /\ u.root = g.root /\ u.tree.subdirs = g.tree.subdirs
  /\ DOMAIN u.files = DOMAIN g.files /\ DOMAIN u.tree.dirs = DOMAIN g.tree.dirs
  /\ \A p \in parts :
       /\ u.files[<<n>> \o p] = FilesNow(g.files[<<n>> \o p], Wanted[p], notice)
       /\ u.tree.dirs[<<n>> \o p]
            = ItemsNow(g.tree.dirs[<<n>> \o p], g.files[<<n>> \o p], Wanted[p], notice)
  /\ \A q \in DOMAIN g.files :
       q \notin {<<n>> \o p : p \in parts} => u.files[q] = g.files[q]
  /\ \A q \in DOMAIN g.tree.dirs :
       q \notin {<<n>> \o p : p \in parts} => u.tree.dirs[q] = g.tree.dirs[q]

\* A group has producers for all its parts.
PartsThere(g, n) ==
  \A p \in Range(Parts) : <<n>> \o p \in DOMAIN g.files /\ <<n>> \o p \in DOMAIN g.tree.dirs

\* One more producer is told.
LEMMA ToldOne ==
  ASSUME NEW N \in Nat, NEW g \in Groupers(N), NEW u \in Groupers(N), NEW n \in Words,
         NEW notice \in Notices(N), PartsThere(g, n),
         NEW parts, parts \subseteq Range(Parts), NEW part \in Range(Parts) \ parts,
         Told(g, u, n, notice, parts)
  PROVE  LET v == Listener(u, <<n>> \o part, Wanted[part], notice)
         IN  v \in Groupers(N) /\ Told(g, v, n, notice, parts \cup {part})
<1> DEFINE path == <<n>> \o part
           v    == Listener(u, path, Wanted[part], notice)
<1>1. /\ u.groups = g.groups /\ u.root = g.root /\ u.tree.subdirs = g.tree.subdirs
      /\ DOMAIN u.files = DOMAIN g.files /\ DOMAIN u.tree.dirs = DOMAIN g.tree.dirs
  BY DEF Told
<1>2. path \in DOMAIN g.files /\ path \in DOMAIN g.tree.dirs
  BY DEF PartsThere
<1>3. \A p \in parts : <<n>> \o p # path
  <2>1. \A p \in parts : p \in Paths /\ p # part
    BY PartIsPath
  <2>2. part \in Paths
    BY PartIsPath
  <2>3. QED
    BY <2>1, <2>2, PartPathsDiffer
<1>4. u.files[path] = g.files[path] /\ u.tree.dirs[path] = g.tree.dirs[path]
  <2>1. path \notin {<<n>> \o p : p \in parts}
    BY <1>3
  <2> HIDE DEF path
  <2>2. QED
    BY <1>2, <2>1 DEF Told
<1> HIDE DEF path
<1>5. /\ v \in Groupers(N)
      /\ v.groups = u.groups /\ v.root = u.root /\ v.tree.subdirs = u.tree.subdirs
      /\ v.files = [u.files EXCEPT ![path] = FilesNow(@, Wanted[part], notice)]
      /\ v.tree.dirs = [u.tree.dirs EXCEPT
                          ![path] = ItemsNow(@, u.files[path], Wanted[part], notice)]
  <2>1. path \in DOMAIN u.files /\ path \in DOMAIN u.tree.dirs
    BY <1>1, <1>2
  <2>2. QED
    BY <2>1, ListenerProps
<1> HIDE DEF v
<1>6. DOMAIN v.files = DOMAIN g.files /\ DOMAIN v.tree.dirs = DOMAIN g.tree.dirs
  BY <1>1, <1>5
<1>7. /\ v.files[path] = FilesNow(g.files[path], Wanted[part], notice)
      /\ v.tree.dirs[path] = ItemsNow(g.tree.dirs[path], g.files[path], Wanted[part], notice)
      /\ \A q \in DOMAIN g.files : q # path => v.files[q] = u.files[q]
      /\ \A q \in DOMAIN g.tree.dirs : q # path => v.tree.dirs[q] = u.tree.dirs[q]
  BY <1>1, <1>2, <1>4, <1>5
<1>8. ASSUME NEW p \in parts \cup {part}
      PROVE  /\ v.files[<<n>> \o p] = FilesNow(g.files[<<n>> \o p], Wanted[p], notice)
             /\ v.tree.dirs[<<n>> \o p]
                  = ItemsNow(g.tree.dirs[<<n>> \o p], g.files[<<n>> \o p], Wanted[p], notice)
  <2>1. CASE p = part
    BY <1>7, <2>1 DEF path
  <2>2. CASE p # part
    <3> DEFINE q == <<n>> \o p
    <3>1. p \in parts /\ q # path /\ q \in DOMAIN g.files /\ q \in DOMAIN g.tree.dirs
      BY <1>3, <2>2 DEF PartsThere
    <3>2. /\ u.files[q] = FilesNow(g.files[q], Wanted[p], notice)
          /\ u.tree.dirs[q] = ItemsNow(g.tree.dirs[q], g.files[q], Wanted[p], notice)
      BY <3>1 DEF Told
    <3> HIDE DEF q
    <3>3. v.files[q] = u.files[q] /\ v.tree.dirs[q] = u.tree.dirs[q]
      BY <1>7, <3>1
    <3>4. QED
      BY <3>2, <3>3 DEF q
  <2>3. QED
    BY <2>1, <2>2
<1> DEFINE before == {<<n>> \o p : p \in parts}
           after  == {<<n>> \o p : p \in parts \cup {part}}
<1>9. before \subseteq after /\ path \in after
  BY DEF path
<1>10. /\ \A q \in DOMAIN g.files : q \notin before => u.files[q] = g.files[q]
       /\ \A q \in DOMAIN g.tree.dirs : q \notin before => u.tree.dirs[q] = g.tree.dirs[q]
  BY DEF Told
<1> HIDE DEF before, after
<1>11. /\ \A q \in DOMAIN g.files : q \notin after => v.files[q] = g.files[q]
       /\ \A q \in DOMAIN g.tree.dirs : q \notin after => v.tree.dirs[q] = g.tree.dirs[q]
  BY <1>7, <1>9, <1>10
<1>12. Told(g, v, n, notice, parts \cup {part})
  BY <1>1, <1>5, <1>6, <1>8, <1>11, Zenon DEF Told, after
<1>13. QED
  BY <1>5, <1>12 DEF v, path

LEMMA FirstParts ==
  ASSUME NEW k \in DOMAIN Parts
  PROVE  /\ {Parts[l] : l \in 1..k} = {Parts[l] : l \in 1..(k - 1)} \cup {Parts[k]}
         /\ {Parts[l] : l \in 1..(k - 1)} \subseteq Range(Parts)
         /\ Parts[k] \in Range(Parts) \ {Parts[l] : l \in 1..(k - 1)}
<1>1. /\ DOMAIN Parts = 1..Len(Parts) /\ Len(Parts) \in Nat
      /\ \A i, j \in DOMAIN Parts : Parts[i] = Parts[j] => i = j
  BY PartsAssumption DEF IsInjective
<1>2. /\ 1..k = 1..(k - 1) \cup {k} /\ 1..(k - 1) \subseteq DOMAIN Parts
      /\ k \notin 1..(k - 1)
  BY <1>1
<1>3. QED
  BY <1>1, <1>2 DEF Range

\* A group whose source changes tells all its producers.
LEMMA TellProps ==
  ASSUME NEW N \in Nat, NEW g \in Groupers(N), NEW n \in DOMAIN g.groups,
         PartsThere(g, n), NEW result, result.messages \in Numbered(N),
         result.notice \in Notices(N)
  PROVE  LET u == Tell(g, n, result)
             h == [g EXCEPT !.groups[n] = result.messages]
         IN  u \in Groupers(N) /\ Told(h, u, n, result.notice, Range(Parts))
<1> DEFINE h      == [g EXCEPT !.groups[n] = result.messages]
           list   == Parts
           top    == Len(Parts)
           notice == result.notice
           A    == {u \in Groupers(N) : DOMAIN u.files = DOMAIN g.files
                                        /\ DOMAIN u.tree.dirs = DOMAIN g.tree.dirs}
           step == [p \in A \X (1..top) |->
                      Listener(p[1], <<n>> \o list[p[2]], Wanted[list[p[2]]], notice)]
           Is(f, T) == f[T] = IF T = {} THEN h
                              ELSE Listener(f[T \ {Max(T)}], <<n>> \o list[Max(T)],
                                            Wanted[list[Max(T)]], notice)
           Equation(f) ==
             f = [T \in SUBSET (1..top) |->
                    IF T = {} THEN h
                    ELSE Listener(f[T \ {Max(T)}], <<n>> \o list[Max(T)],
                                  Wanted[list[Max(T)]], notice)]
           folded == CHOOSE f : Equation(f)
<1>1. top \in Nat /\ DOMAIN list = 1..top /\ \A k \in 1..top : list[k] \in Range(Parts)
  BY PartsAssumption DEF Range
<1>2. FoldLeft(LAMBDA acc, part : Listener(acc, <<n>> \o part, Wanted[part], notice), h, list)
        = folded[1..top]
  BY <1>1 DEF FoldLeft, MapThenFoldSet
<1>3. /\ h \in Groupers(N) /\ h.files = g.files /\ h.tree = g.tree /\ h.root = g.root
      /\ h.groups = [g.groups EXCEPT ![n] = result.messages]
  <2>1. [g.groups EXCEPT ![n] = result.messages]
          \in UNION {[S -> Numbered(N)] : S \in SUBSET Words}
    BY GrouperShape
  <2>2. QED
    BY <2>1 DEF Groupers
<1>4. Tell(g, n, result) = folded[1..top]
  BY <1>2 DEF Tell
<1> HIDE DEF top, list, h
<1>5. h \in A /\ n \in Words /\ PartsThere(h, n)
  BY <1>3, GrouperShape DEF PartsThere
<1>6. ASSUME NEW u \in A, NEW k \in 1..top
      PROVE  Listener(u, <<n>> \o list[k], Wanted[list[k]], notice) \in A
  <2> DEFINE path == <<n>> \o list[k]
  <2>1. path \in DOMAIN g.files /\ path \in DOMAIN g.tree.dirs
    BY <1>1 DEF PartsThere
  <2> HIDE DEF path
  <2>2. u \in Groupers(N) /\ path \in DOMAIN u.files /\ path \in DOMAIN u.tree.dirs
    BY <2>1
  <2> DEFINE v == Listener(u, path, Wanted[list[k]], notice)
  <2>3. /\ v \in Groupers(N)
        /\ v.files = [u.files EXCEPT ![path] = FilesNow(@, Wanted[list[k]], notice)]
        /\ v.tree.dirs = [u.tree.dirs EXCEPT
                            ![path] = ItemsNow(@, u.files[path], Wanted[list[k]], notice)]
    BY <2>2, ListenerProps
  <2> HIDE DEF v
  <2>4. v \in A
    BY <2>3
  <2>5. QED
    BY <2>4 DEF v, path
<1>7. \A u \in A : u \in Groupers(N)
  OBVIOUS
<1> HIDE DEF A
<1>8. step \in [A \X (1..top) -> A]
  BY <1>6
<1>9. PICK iter \in [SUBSET (1..top) -> A] : Folds(iter, top, h, step)
  BY <1>1, <1>5, <1>8, FoldDefined
<1>10. ASSUME NEW T \in SUBSET (1..top) PROVE Is(iter, T)
  <2>1. T # {} => Max(T) \in 1..top /\ iter[T \ {Max(T)}] \in A
    BY <1>1, MaxOfSome
  <2>2. QED
    BY <1>9, <2>1 DEF Folds
<1>11. Equation(iter)
  BY <1>10
<1>12. Equation(folded)
  <2> HIDE DEF Equation
  <2>1. QED
    BY <1>11, Zenon
<1> HIDE DEF folded
<1>13. StepsIn(A, folded, top, h, step)
  BY <1>1, <1>12, FirstNumbers DEF StepsIn
<1> HIDE DEF Equation
<1> DEFINE parts(k) == {list[l] : l \in 1..k}
           good == [k \in 0..top |-> {u \in A : Told(h, u, n, notice, parts(k))}]
<1>14. Told(h, h, n, notice, parts(0))
  <2>1. parts(0) = {}
    OBVIOUS
  <2> HIDE DEF parts
  <2>2. QED
    BY <2>1 DEF Told
<1>15. ASSUME NEW k \in 1..top, NEW u \in A, Told(h, u, n, notice, parts(k - 1))
       PROVE  Told(h, step[<<u, k>>], n, notice, parts(k))
  <2> DEFINE v == Listener(u, <<n>> \o list[k], Wanted[list[k]], notice)
  <2>1. step[<<u, k>>] = v
    BY <1>15
  <2>2. /\ parts(k) = parts(k - 1) \cup {list[k]} /\ parts(k - 1) \subseteq Range(Parts)
        /\ list[k] \in Range(Parts) \ parts(k - 1)
    BY <1>1, FirstParts DEF list
  <2> HIDE DEF parts
  <2>3. Told(h, v, n, notice, parts(k - 1) \cup {list[k]})
    BY <1>3, <1>5, <1>7, <1>15, <2>2, ToldOne
  <2> HIDE DEF v, step
  <2>4. QED
    BY <2>1, <2>2, <2>3
<1> HIDE DEF parts
<1>16. Keeps(A, good, top, h, step)
  <2>1. \A k \in 1..top : k - 1 \in 0..top /\ k \in 0..top
    BY <1>1
  <2>2. ASSUME NEW k \in 1..top, NEW u \in good[k - 1] PROVE step[<<u, k>>] \in good[k]
    <3>1. u \in A /\ Told(h, u, n, notice, parts(k - 1))
      BY <2>1
    <3>2. step[<<u, k>>] \in A
      BY <1>8, <3>1
    <3>3. Told(h, step[<<u, k>>], n, notice, parts(k))
      BY <1>15, <3>1
    <3> HIDE DEF step
    <3>4. QED
      BY <2>1, <3>2, <3>3
  <2>3. good \in [0..top -> SUBSET A] /\ h \in good[0]
    <3>1. 0 \in 0..top
      BY <1>1
    <3>2. QED
      BY <1>5, <1>14, <3>1
  <2> HIDE DEF good, step
  <2>4. QED
    BY <2>2, <2>3 DEF Keeps
<1> HIDE DEF step
<1>17. folded[1..top] \in A /\ Told(h, folded[1..top], n, notice, parts(top))
  <2>1. folded[1..top] \in good[top]
    <3> HIDE DEF good
    <3>1. QED
      BY <1>1, <1>13, <1>16, FoldKeeps
  <2>2. top \in 0..top
    BY <1>1
  <2>3. QED
    BY <2>1, <2>2
<1>18. parts(top) = Range(Parts)
  BY <1>1 DEF parts, Range, list
<1>19. QED
  BY <1>4, <1>7, <1>17, <1>18 DEF h

-----------------------------------------------------------------------------
(* A group is created *)

\* What a directory becomes when it is put anywhere.
LEMMA PutDirTyped ==
  ASSUME NEW t \in Trees, DOMAIN t.subdirs = DOMAIN t.dirs, NEW path \in Paths, path # <<>>
  PROVE  LET u == PutDir(t, path)
         IN  /\ u \in Trees /\ DOMAIN u.subdirs = DOMAIN u.dirs
             /\ DOMAIN u.dirs = DOMAIN t.dirs \cup {path}
             /\ u.dirs[path] = <<>>
             /\ \A p \in DOMAIN t.dirs \ {path} : u.dirs[p] = t.dirs[p]
<1> DEFINE u == PutDir(t, path)
<1>1. CASE path \in DOMAIN t.dirs
  <2>1. u \in Trees /\ u.subdirs = t.subdirs /\ u.dirs = [t.dirs EXCEPT ![path] = <<>>]
    BY <1>1, PutDirAgain
  <2> HIDE DEF u
  <2>2. QED
    BY <1>1, <2>1 DEF u
<1>2. CASE path \notin DOMAIN t.dirs
  <2>1. /\ u \in Trees /\ u.subdirs = Linked(t.subdirs, path)
        /\ u.dirs = [p \in DOMAIN t.dirs \cup {path} |->
                       IF p = path THEN <<>> ELSE t.dirs[p]]
    BY <1>2, PutDirNew
  <2> HIDE DEF u
  <2>2. QED
    BY <1>2, <2>1 DEF Linked, u
<1>3. QED
  BY <1>1, <1>2

LEMMA MatchingNumbered ==
  ASSUME NEW N \in Nat, NEW ms \in Numbered(N), NEW wanted
  PROVE  /\ Dir!Matching(ms, wanted) \in Numbered(N)
         /\ DOMAIN Dir!Matching(ms, wanted) = {i \in DOMAIN ms : ms[i] \in wanted}
         /\ \A i \in DOMAIN Dir!Matching(ms, wanted) : Dir!Matching(ms, wanted)[i] = ms[i]
<1>1. ms \in [DOMAIN ms -> Contents] /\ DOMAIN ms \subseteq 1..N
  BY NumberedProps
<1>2. Dir!Matching(ms, wanted) = [i \in {j \in DOMAIN ms : ms[j] \in wanted} |-> ms[i]]
  BY DEF Dir!Matching, Dir!RestrictValues, Dir!Restrict
<1> DEFINE own == Dir!Matching(ms, wanted)
<1> HIDE DEF own
<1>3. /\ DOMAIN own = {i \in DOMAIN ms : ms[i] \in wanted}
      /\ \A i \in DOMAIN own : own[i] = ms[i]
      /\ own \in [DOMAIN own -> Contents] /\ DOMAIN own \subseteq 1..N
  BY <1>1, <1>2 DEF own
<1>4. own \in Numbered(N)
  BY <1>3, NumberedMade
<1>5. QED
  BY <1>3, <1>4 DEF own

LEMMA MatchingIs ==
  ASSUME NEW N \in Nat, NEW ms \in Numbered(N), NEW wanted
  PROVE  /\ DOMAIN Dir!Matching(ms, wanted) = {i \in DOMAIN ms : ms[i] \in wanted}
         /\ \A i \in DOMAIN Dir!Matching(ms, wanted) : Dir!Matching(ms, wanted)[i] = ms[i]
BY MatchingNumbered

\* The files of messages are put into an empty directory.
LEMMA PutFilesProps ==
  ASSUME NEW t \in Trees, NEW path \in DOMAIN t.dirs, t.dirs[path] = <<>>,
         NEW own, Collection(own)
  PROVE  LET u == PutFiles(t, path, own)
         IN  /\ u \in Trees /\ u.subdirs = t.subdirs
             /\ u.dirs = [t.dirs EXCEPT ![path] = Dir!FilesOf(own)]
<1> DEFINE items == Dir!FilesOf(own)
<1>1. OneEach(items, own)
  BY FilesOfProps
<1> HIDE DEF items
<1>2. items \in Seq(Files)
  BY <1>1 DEF OneEach
<1>3. CASE own = None
  <2>1. DOMAIN own = {}
    BY <1>3 DEF None, Source!Empty
  <2>2. DOMAIN items = {}
    BY <1>1, <2>1 DEF OneEach
  <2>3. items = <<>>
    BY <1>2, <2>2
  <2>4. t.dirs = [t.dirs EXCEPT ![path] = items]
    BY <2>3, TreeShape
  <2>5. PutFiles(t, path, own) = t
    BY <1>3 DEF PutFiles
  <2>6. QED
    BY <2>4, <2>5 DEF items
<1>4. CASE own # None
  <2> DEFINE u == PutContent(t, path, items)
  <2>1. /\ u \in Trees /\ u.subdirs = t.subdirs
        /\ u.dirs = [t.dirs EXCEPT ![path] = t.dirs[path] \o items]
    BY <1>2, PutContentProps
  <2>2. PutFiles(t, path, own) = u
    BY <1>4 DEF PutFiles, items
  <2>3. t.dirs[path] \o items = items
    BY <1>2
  <2> HIDE DEF u
  <2>4. QED
    BY <2>1, <2>2, <2>3 DEF items
<1>5. QED
  BY <1>3, <1>4

\* Trees whose registry has the paths of their directories.
SameDomains(N) == {g \in Groupers(N) : DOMAIN g.tree.subdirs = DOMAIN g.tree.dirs}

\* A part is created and filled.
LEMMA ProducePartProps ==
  ASSUME NEW N \in Nat, NEW g \in SameDomains(N), NEW n \in Words, NEW part \in Paths,
         NEW ms \in Numbered(N)
  PROVE  LET u    == ProducePart(g, n, part, ms)
             path == <<n>> \o part
             own  == Dir!Matching(ms, Wanted[part])
         IN  /\ u \in SameDomains(N) /\ u.groups = g.groups /\ u.root = g.root
             /\ DOMAIN u.files = DOMAIN g.files \cup {path}
             /\ u.files[path] = own
             /\ \A q \in DOMAIN g.files \ {path} : u.files[q] = g.files[q]
             /\ DOMAIN u.tree.dirs = DOMAIN g.tree.dirs \cup {path}
             /\ u.tree.dirs[path] = Dir!FilesOf(own)
             /\ \A q \in DOMAIN g.tree.dirs \ {path} : u.tree.dirs[q] = g.tree.dirs[q]
             /\ RegistryAgrees(g.tree) /\ Parent(path) \in DOMAIN g.tree.dirs
                  => RegistryAgrees(u.tree)
<1> DEFINE path == <<n>> \o part
           own  == Dir!Matching(ms, Wanted[part])
           t1   == PutDir(g.tree, path)
           t2   == PutFiles(t1, path, own)
           fs   == [p \in DOMAIN g.files \cup {path} |-> IF p = path THEN own ELSE g.files[p]]
           u    == ProducePart(g, n, part, ms)
<1>1. path \in Paths /\ path # <<>>
  BY PartPath
<1>2. own \in Numbered(N) /\ Collection(own)
  BY MatchingNumbered, NumberedProps
<1>3. u = [g EXCEPT !.files = fs, !.tree = t2]
  BY DEF ProducePart
<1>4. g \in Groupers(N) /\ g.tree \in Trees /\ DOMAIN g.tree.subdirs = DOMAIN g.tree.dirs
  BY GrouperShape DEF SameDomains
<1> HIDE DEF path, own
<1>5. /\ t1 \in Trees /\ DOMAIN t1.subdirs = DOMAIN t1.dirs
      /\ DOMAIN t1.dirs = DOMAIN g.tree.dirs \cup {path}
      /\ t1.dirs[path] = <<>>
      /\ \A p \in DOMAIN g.tree.dirs \ {path} : t1.dirs[p] = g.tree.dirs[p]
  BY <1>1, <1>4, PutDirTyped
<1>6. RegistryAgrees(g.tree) /\ Parent(path) \in DOMAIN g.tree.dirs => RegistryAgrees(t1)
  BY <1>1, <1>4, PutDirProps
<1> HIDE DEF t1
<1>7. path \in DOMAIN t1.dirs
  BY <1>5
<1>8. /\ t2 \in Trees /\ t2.subdirs = t1.subdirs
      /\ t2.dirs = [t1.dirs EXCEPT ![path] = Dir!FilesOf(own)]
  BY <1>2, <1>5, <1>7, PutFilesProps
<1> HIDE DEF t2
<1>9. DOMAIN t2.dirs = DOMAIN t1.dirs
  BY <1>8
<1>10. RegistryAgrees(t1) => RegistryAgrees(t2)
  BY <1>8, <1>9 DEF RegistryAgrees
<1>11. /\ fs \in [DOMAIN fs -> Numbered(N)] /\ DOMAIN fs \subseteq Paths
       /\ DOMAIN fs = DOMAIN g.files \cup {path}
       /\ fs[path] = own /\ \A q \in DOMAIN g.files \ {path} : fs[q] = g.files[q]
  BY <1>1, <1>2, <1>4, GrouperShape
<1> HIDE DEF fs
<1>12. fs \in UNION {[S -> Numbered(N)] : S \in SUBSET Paths}
  BY <1>11
<1>13. /\ u \in Groupers(N) /\ u.groups = g.groups /\ u.root = g.root
       /\ u.files = fs /\ u.tree = t2
  BY <1>3, <1>4, <1>8, <1>12 DEF Groupers
<1> HIDE DEF u
<1>14. /\ t2.dirs[path] = Dir!FilesOf(own)
       /\ \A q \in DOMAIN g.tree.dirs \ {path} : t2.dirs[q] = g.tree.dirs[q]
       /\ DOMAIN t2.subdirs = DOMAIN t2.dirs
       /\ DOMAIN t2.dirs = DOMAIN g.tree.dirs \cup {path}
  BY <1>5, <1>8, <1>9
<1>15. /\ u \in SameDomains(N)
       /\ u.groups = g.groups /\ u.root = g.root
       /\ DOMAIN u.files = DOMAIN g.files \cup {path}
       /\ u.files[path] = own
       /\ \A q \in DOMAIN g.files \ {path} : u.files[q] = g.files[q]
       /\ DOMAIN u.tree.dirs = DOMAIN g.tree.dirs \cup {path}
       /\ u.tree.dirs[path] = Dir!FilesOf(own)
       /\ \A q \in DOMAIN g.tree.dirs \ {path} : u.tree.dirs[q] = g.tree.dirs[q]
  BY <1>11, <1>13, <1>14 DEF SameDomains
<1>16. RegistryAgrees(g.tree) /\ Parent(path) \in DOMAIN g.tree.dirs => RegistryAgrees(u.tree)
  BY <1>6, <1>10, <1>13
<1>17. QED
  BY <1>15, <1>16 DEF u, path, own

PathsOf(n) == {<<n>> \o p : p \in Range(Parts)}

\* These parts of a group have been created for its messages.
Created(g, u, n, ms, parts) ==
  LET paths == {<<n>> \o p : p \in parts}
  IN  /\ u.groups = g.groups /\ u.root = g.root /\ RegistryAgrees(u.tree)
      /\ DOMAIN u.files = DOMAIN g.files \cup paths
      /\ DOMAIN u.tree.dirs = DOMAIN g.tree.dirs \cup paths
      /\ \A p \in parts :
           /\ u.files[<<n>> \o p] = Dir!Matching(ms, Wanted[p])
           /\ u.tree.dirs[<<n>> \o p] = Dir!FilesOf(Dir!Matching(ms, Wanted[p]))
      /\ \A q \in DOMAIN g.files \ paths : u.files[q] = g.files[q]
      /\ \A q \in DOMAIN g.tree.dirs \ paths : u.tree.dirs[q] = g.tree.dirs[q]

\* One more part is created: it has a place.
LEMMA CreatedOne ==
  ASSUME NEW N \in Nat, NEW g \in SameDomains(N), NEW u \in SameDomains(N), NEW n \in Words,
         NEW ms \in Numbered(N), RegistryAgrees(g.tree), <<n>> \in DOMAIN g.tree.dirs,
         NEW k \in DOMAIN Parts, Created(g, u, n, ms, {Parts[l] : l \in 1..(k - 1)})
  PROVE  Created(g, ProducePart(u, n, Parts[k], ms), n, ms, {Parts[l] : l \in 1..k})
<1> DEFINE part   == Parts[k]
           parts  == {Parts[l] : l \in 1..(k - 1)}
           after  == {Parts[l] : l \in 1..k}
           path   == <<n>> \o part
           paths  == {<<n>> \o p : p \in parts}
           v      == ProducePart(u, n, part, ms)
           own    == Dir!Matching(ms, Wanted[part])
<1>1. /\ after = parts \cup {part} /\ parts \subseteq Range(Parts)
      /\ part \in Range(Parts) \ parts
  BY FirstParts
<1>2. part \in Paths /\ \A p \in parts : p \in Paths
  BY <1>1, PartIsPath
<1>3. /\ u.groups = g.groups /\ u.root = g.root /\ RegistryAgrees(u.tree)
      /\ DOMAIN u.files = DOMAIN g.files \cup paths
      /\ DOMAIN u.tree.dirs = DOMAIN g.tree.dirs \cup paths
      /\ \A p \in parts :
           /\ u.files[<<n>> \o p] = Dir!Matching(ms, Wanted[p])
           /\ u.tree.dirs[<<n>> \o p] = Dir!FilesOf(Dir!Matching(ms, Wanted[p]))
      /\ \A q \in DOMAIN g.files \ paths : u.files[q] = g.files[q]
      /\ \A q \in DOMAIN g.tree.dirs \ paths : u.tree.dirs[q] = g.tree.dirs[q]
  BY DEF Created
<1>4. /\ v \in SameDomains(N) /\ v.groups = u.groups /\ v.root = u.root
      /\ DOMAIN v.files = DOMAIN u.files \cup {path}
      /\ v.files[path] = own
      /\ \A q \in DOMAIN u.files \ {path} : v.files[q] = u.files[q]
      /\ DOMAIN v.tree.dirs = DOMAIN u.tree.dirs \cup {path}
      /\ v.tree.dirs[path] = Dir!FilesOf(own)
      /\ \A q \in DOMAIN u.tree.dirs \ {path} : v.tree.dirs[q] = u.tree.dirs[q]
      /\ RegistryAgrees(u.tree) /\ Parent(path) \in DOMAIN u.tree.dirs
           => RegistryAgrees(v.tree)
  BY <1>2, ProducePartProps
<1> HIDE DEF v
<1>5. Parent(path) \in DOMAIN u.tree.dirs
  <2>1. CASE part = <<>>
    <3>1. path = <<n>>
      BY <2>1
    <3>2. Parent(path) = <<>> /\ <<n>> # <<>>
      BY <3>1, GroupPath
    <3>3. Parent(path) \in DOMAIN g.tree.dirs
      BY <3>1, <3>2 DEF RegistryAgrees, RootPath
    <3>4. QED
      BY <1>3, <3>3
  <2>2. CASE part # <<>>
    <3>1. Parent(path) = <<n>> \o Front(part) /\ Front(part) \in Paths
      BY <1>2, <2>2, PartParent
    <3>2. Front(part) = <<>> \/ Front(part) \in parts
      BY <2>2, PartsAssumption
    <3>3. CASE Front(part) = <<>>
      <4>1. Parent(path) = <<n>>
        BY <3>1, <3>3
      <4>2. QED
        BY <1>3, <4>1
    <3>4. CASE Front(part) \in parts
      BY <1>3, <3>1, <3>4
    <3>5. QED
      BY <3>2, <3>3, <3>4
  <2>3. QED
    BY <2>1, <2>2
<1>6. \A p \in parts : <<n>> \o p # path /\ <<n>> \o p \in paths
  BY <1>1, <1>2, PartPathsDiffer
<1> DEFINE all == {<<n>> \o p : p \in parts \cup {part}}
<1>7. all = paths \cup {path}
  OBVIOUS
<1> HIDE DEF all, paths, path
<1>8. /\ RegistryAgrees(v.tree)
      /\ DOMAIN v.files = DOMAIN g.files \cup all
      /\ DOMAIN v.tree.dirs = DOMAIN g.tree.dirs \cup all
      /\ \A q \in DOMAIN g.files \ all : v.files[q] = g.files[q]
      /\ \A q \in DOMAIN g.tree.dirs \ all : v.tree.dirs[q] = g.tree.dirs[q]
  BY <1>3, <1>4, <1>5, <1>7
<1>9. ASSUME NEW p \in parts \cup {part}
      PROVE  /\ v.files[<<n>> \o p] = Dir!Matching(ms, Wanted[p])
             /\ v.tree.dirs[<<n>> \o p] = Dir!FilesOf(Dir!Matching(ms, Wanted[p]))
  <2>1. CASE p = part
    BY <1>4, <2>1 DEF path
  <2>2. CASE p # part
    <3> DEFINE q == <<n>> \o p
    <3>1. p \in parts /\ q # path /\ q \in DOMAIN u.files /\ q \in DOMAIN u.tree.dirs
      BY <1>3, <1>6, <2>2
    <3>2. /\ u.files[q] = Dir!Matching(ms, Wanted[p])
          /\ u.tree.dirs[q] = Dir!FilesOf(Dir!Matching(ms, Wanted[p]))
      BY <1>3, <3>1
    <3> HIDE DEF q
    <3>3. v.files[q] = u.files[q] /\ v.tree.dirs[q] = u.tree.dirs[q]
      BY <1>4, <3>1
    <3>4. QED
      BY <3>2, <3>3 DEF q
  <2>3. QED
    BY <2>1, <2>2
<1> HIDE DEF parts, part, own
<1>10. Created(g, v, n, ms, parts \cup {part})
  BY <1>3, <1>4, <1>8, <1>9, Zenon DEF Created, all
<1>11. QED
  BY <1>1, <1>10 DEF v, part

\* A directory is created for a group, and in it those of its structure.
DirAdded(N, g, u, n, ms) ==
  /\ u \in Groupers(N) /\ u.root = g.root /\ RegistryAgrees(u.tree)
  /\ u.groups = [m \in DOMAIN g.groups \cup {n} |-> IF m = n THEN ms ELSE g.groups[m]]
  /\ DOMAIN u.files = DOMAIN g.files \cup PathsOf(n)
  /\ DOMAIN u.tree.dirs = DOMAIN g.tree.dirs \cup ({<<n>>} \cup PathsOf(n))
  /\ \A p \in Range(Parts) :
       /\ u.files[<<n>> \o p] = Dir!Matching(ms, Wanted[p])
       /\ u.tree.dirs[<<n>> \o p] = Dir!FilesOf(Dir!Matching(ms, Wanted[p]))
  /\ \A q \in DOMAIN g.files \ ({<<n>>} \cup PathsOf(n)) : u.files[q] = g.files[q]
  /\ \A q \in DOMAIN g.tree.dirs \ ({<<n>>} \cup PathsOf(n)) :
       u.tree.dirs[q] = g.tree.dirs[q]

LEMMA AddDirProps ==
  ASSUME NEW N \in Nat, NEW g \in Groupers(N), RegistryAgrees(g.tree),
         RootPath \in DOMAIN g.tree.dirs, NEW n \in Words, NEW ms \in Numbered(N)
  PROVE  DirAdded(N, g, AddDir(g, n, ms), n, ms)
<1> DEFINE gs     == [m \in DOMAIN g.groups \cup {n} |-> IF m = n THEN ms ELSE g.groups[m]]
           t1     == PutDir(g.tree, <<n>>)
           t2     == PutDir(t1, <<n>>)
           h      == [g EXCEPT !.tree = t2, !.groups = gs]
           list   == Parts
           top    == Len(Parts)
           A      == SameDomains(N)
           step == [p \in A \X (1..top) |-> ProducePart(p[1], n, list[p[2]], ms)]
           Is(f, T) == f[T] = IF T = {} THEN h
                              ELSE ProducePart(f[T \ {Max(T)}], n, list[Max(T)], ms)
           Equation(f) ==
             f = [T \in SUBSET (1..top) |->
                    IF T = {} THEN h
                    ELSE ProducePart(f[T \ {Max(T)}], n, list[Max(T)], ms)]
           folded == CHOOSE f : Equation(f)
<1>1. top \in Nat /\ DOMAIN list = 1..top /\ \A k \in 1..top : list[k] \in Paths
  BY PartsAssumption, PartIsPath DEF Range
<1>2. FoldLeft(LAMBDA acc, part : ProducePart(acc, n, part, ms), h, list) = folded[1..top]
  BY <1>1 DEF FoldLeft, MapThenFoldSet
<1>3. AddDir(g, n, ms) = folded[1..top]
  BY <1>2 DEF AddDir
<1>4. <<n>> \in Paths /\ <<n>> # <<>> /\ Parent(<<n>>) = RootPath
  BY GroupPath DEF RootPath
<1>5. /\ t1 \in Trees /\ RegistryAgrees(t1) /\ DOMAIN t1.dirs = DOMAIN g.tree.dirs \cup {<<n>>}
      /\ \A p \in DOMAIN g.tree.dirs \ {<<n>>} : t1.dirs[p] = g.tree.dirs[p]
  BY <1>4, GrouperShape, PutDirProps
<1> HIDE DEF t1
<1>6. /\ t2 \in Trees /\ RegistryAgrees(t2) /\ DOMAIN t2.dirs = DOMAIN t1.dirs \cup {<<n>>}
      /\ \A p \in DOMAIN t1.dirs \ {<<n>>} : t2.dirs[p] = t1.dirs[p]
  BY <1>4, <1>5, PutDirProps
<1> HIDE DEF t2
<1>7. gs \in UNION {[S -> Numbered(N)] : S \in SUBSET Words}
  <2>1. gs \in [DOMAIN g.groups \cup {n} -> Numbered(N)]
    BY GrouperShape
  <2>2. DOMAIN g.groups \cup {n} \in SUBSET Words
    BY GrouperShape
  <2> HIDE DEF gs
  <2>3. QED
    BY <2>1, <2>2
<1> HIDE DEF gs
<1>8. /\ h \in Groupers(N) /\ h.tree = t2 /\ h.groups = gs
      /\ h.root = g.root /\ h.files = g.files
  BY <1>6, <1>7 DEF Groupers
<1> HIDE DEF h, list, top
<1>9. h \in A /\ RegistryAgrees(h.tree) /\ <<n>> \in DOMAIN h.tree.dirs
  BY <1>5, <1>6, <1>8 DEF SameDomains, RegistryAgrees
<1> HIDE DEF A
<1>10. step \in [A \X (1..top) -> A]
  <2>1. ASSUME NEW u \in A, NEW k \in 1..top PROVE ProducePart(u, n, list[k], ms) \in A
    BY <1>1, ProducePartProps DEF A
  <2>2. QED
    BY <2>1
<1>11. PICK iter \in [SUBSET (1..top) -> A] : Folds(iter, top, h, step)
  BY <1>1, <1>9, <1>10, FoldDefined
<1>12. ASSUME NEW T \in SUBSET (1..top) PROVE Is(iter, T)
  <2>1. T # {} => Max(T) \in 1..top /\ iter[T \ {Max(T)}] \in A
    BY <1>1, MaxOfSome
  <2>2. QED
    BY <1>11, <2>1 DEF Folds
<1>13. Equation(iter)
  BY <1>12
<1>14. Equation(folded)
  <2> HIDE DEF Equation
  <2>1. QED
    BY <1>13, Zenon
<1> HIDE DEF folded
<1>15. StepsIn(A, folded, top, h, step)
  BY <1>1, <1>14, FirstNumbers DEF StepsIn
<1> HIDE DEF Equation
<1> DEFINE parts(k) == {list[l] : l \in 1..k}
           good == [k \in 0..top |-> {u \in A : Created(h, u, n, ms, parts(k))}]
<1>16. Created(h, h, n, ms, parts(0))
  <2>1. parts(0) = {}
    OBVIOUS
  <2> HIDE DEF parts
  <2>2. QED
    BY <1>9, <2>1 DEF Created
<1>17. ASSUME NEW k \in 1..top, NEW u \in A, Created(h, u, n, ms, parts(k - 1))
       PROVE  Created(h, step[<<u, k>>], n, ms, parts(k))
  <2> DEFINE v == ProducePart(u, n, list[k], ms)
  <2>1. step[<<u, k>>] = v
    BY <1>17
  <2>2. Created(h, v, n, ms, parts(k))
    BY <1>1, <1>9, <1>17, CreatedOne DEF list, A
  <2> HIDE DEF v, step, parts
  <2>3. QED
    BY <2>1, <2>2
<1> HIDE DEF parts
<1>18. Keeps(A, good, top, h, step)
  <2>1. \A k \in 1..top : k - 1 \in 0..top /\ k \in 0..top
    BY <1>1
  <2>2. ASSUME NEW k \in 1..top, NEW u \in good[k - 1] PROVE step[<<u, k>>] \in good[k]
    <3>1. u \in A /\ Created(h, u, n, ms, parts(k - 1))
      BY <2>1
    <3>2. step[<<u, k>>] \in A
      BY <1>10, <3>1
    <3>3. Created(h, step[<<u, k>>], n, ms, parts(k))
      BY <1>17, <3>1
    <3> HIDE DEF step
    <3>4. QED
      BY <2>1, <3>2, <3>3
  <2>3. good \in [0..top -> SUBSET A] /\ h \in good[0]
    <3>1. 0 \in 0..top
      BY <1>1
    <3>2. QED
      BY <1>9, <1>16, <3>1
  <2> HIDE DEF good, step
  <2>4. QED
    BY <2>2, <2>3 DEF Keeps
<1> HIDE DEF step
<1> DEFINE u == folded[1..top]
<1>19. u \in A /\ Created(h, u, n, ms, parts(top))
  <2>1. u \in good[top]
    <3> HIDE DEF good
    <3>1. QED
      BY <1>1, <1>15, <1>18, FoldKeeps
  <2>2. top \in 0..top
    BY <1>1
  <2>3. QED
    BY <2>1, <2>2
<1>20. parts(top) = Range(Parts)
  BY <1>1 DEF parts, Range, list
<1> HIDE DEF u
<1>21. /\ u.groups = h.groups /\ u.root = h.root /\ RegistryAgrees(u.tree)
       /\ DOMAIN u.files = DOMAIN h.files \cup PathsOf(n)
       /\ DOMAIN u.tree.dirs = DOMAIN h.tree.dirs \cup PathsOf(n)
       /\ \A p \in Range(Parts) :
            /\ u.files[<<n>> \o p] = Dir!Matching(ms, Wanted[p])
            /\ u.tree.dirs[<<n>> \o p] = Dir!FilesOf(Dir!Matching(ms, Wanted[p]))
       /\ \A q \in DOMAIN h.files \ PathsOf(n) : u.files[q] = h.files[q]
       /\ \A q \in DOMAIN h.tree.dirs \ PathsOf(n) : u.tree.dirs[q] = h.tree.dirs[q]
  BY <1>19, <1>20, Zenon DEF Created, PathsOf
<1>22. /\ DOMAIN h.tree.dirs = DOMAIN g.tree.dirs \cup {<<n>>}
       /\ \A q \in DOMAIN g.tree.dirs \ {<<n>>} : h.tree.dirs[q] = g.tree.dirs[q]
  BY <1>5, <1>6, <1>8
<1>23. u \in Groupers(N)
  BY <1>19 DEF A, SameDomains
<1>24. /\ DOMAIN u.tree.dirs = DOMAIN g.tree.dirs \cup ({<<n>>} \cup PathsOf(n))
       /\ \A q \in DOMAIN g.files \ ({<<n>>} \cup PathsOf(n)) : u.files[q] = g.files[q]
       /\ \A q \in DOMAIN g.tree.dirs \ ({<<n>>} \cup PathsOf(n)) :
            u.tree.dirs[q] = g.tree.dirs[q]
  BY <1>8, <1>21, <1>22
<1>25. QED
  BY <1>3, <1>8, <1>21, <1>23, <1>24 DEF u, gs, DirAdded

-----------------------------------------------------------------------------
(* The groups and their directories *)

DirsOf(names) == {RootPath} \cup UNION {{<<n>>} \cup PathsOf(n) : n \in names}

FilesIn(names) == UNION {PathsOf(n) : n \in names}

\* The tree and the producers are those of the groups, and of "top".
Standing(N, top) ==
  {g \in Groupers(N) : /\ RegistryAgrees(g.tree)
                       /\ DOMAIN g.tree.dirs = DirsOf(DOMAIN g.groups)
                       /\ DOMAIN g.files = top \cup FilesIn(DOMAIN g.groups)}

\* A group is the same in two states.
SameAt(g, u, n) ==
  /\ n \in DOMAIN g.groups <=> n \in DOMAIN u.groups
  /\ n \in DOMAIN g.groups =>
       /\ u.groups[n] = g.groups[n]
       /\ \A q \in PathsOf(n) : u.files[q] = g.files[q] /\ u.tree.dirs[q] = g.tree.dirs[q]

\* What is beside the groups is the same, if it has been produced.
SameBeside(g, u, top) ==
  /\ u.root = g.root /\ u.tree.dirs[RootPath] = g.tree.dirs[RootPath]
  /\ \A q \in top : u.files[q] = g.files[q]

\* A group has just been created for these messages.
FreshAt(u, n, ms) ==
  /\ n \in DOMAIN u.groups /\ u.groups[n] = ms
  /\ \A p \in Range(Parts) :
       /\ u.files[<<n>> \o p] = Dir!Matching(ms, Wanted[p])
       /\ u.tree.dirs[<<n>> \o p] = Dir!FilesOf(Dir!Matching(ms, Wanted[p]))

\* The producers of a group have been told of a notice.
PartsTold(g, u, n, notice) ==
  \A p \in Range(Parts) :
    /\ u.files[<<n>> \o p] = FilesNow(g.files[<<n>> \o p], Wanted[p], notice)
    /\ u.tree.dirs[<<n>> \o p]
         = ItemsNow(g.tree.dirs[<<n>> \o p], g.files[<<n>> \o p], Wanted[p], notice)

LEMMA PathsApart ==
  ASSUME NEW n \in Words, NEW m \in Words, m # n
  PROVE  /\ PathsOf(m) \cap ({<<n>>} \cup PathsOf(n)) = {}
         /\ RootPath \notin {<<n>>} \cup PathsOf(n)
         /\ {<<m>>} \cap ({<<n>>} \cup PathsOf(n)) = {}
         /\ \A q \in {<<n>>} \cup PathsOf(n) : q \in Paths /\ IsPrefix(<<n>>, q)
         /\ \A q \in {<<m>>} \cup PathsOf(m) : ~IsPrefix(<<n>>, q)
<1>1. ASSUME NEW l \in Words, NEW q \in {<<l>>} \cup PathsOf(l)
      PROVE  q \in Paths /\ q # <<>> /\ q[1] = l
  <2>1. CASE q = <<l>>
    BY <2>1, GroupPath
  <2>2. CASE q \in PathsOf(l)
    <3>1. PICK p \in Range(Parts) : q = <<l>> \o p
      BY <2>2 DEF PathsOf
    <3>2. QED
      BY <3>1, PartIsPath, PartPath
  <2>3. QED
    BY <2>1, <2>2
<1>2. \A q \in Paths : IsPrefix(<<n>>, q) <=> q # <<>> /\ q[1] = n
  BY GroupPath
<1>3. QED
  BY <1>1, <1>2 DEF RootPath

LEMMA OwnPaths ==
  ASSUME NEW n \in Words
  PROVE  /\ RootPath \notin {<<n>>} \cup PathsOf(n)
         /\ \A q \in {<<n>>} \cup PathsOf(n) : q \in Paths /\ IsPrefix(<<n>>, q)
<1>1. ASSUME NEW q \in {<<n>>} \cup PathsOf(n) PROVE q \in Paths /\ q # <<>> /\ q[1] = n
  <2>1. CASE q = <<n>>
    BY <2>1, GroupPath
  <2>2. CASE q \in PathsOf(n)
    <3>1. PICK p \in Range(Parts) : q = <<n>> \o p
      BY <2>2 DEF PathsOf
    <3>2. QED
      BY <3>1, PartIsPath, PartPath
  <2>3. QED
    BY <2>1, <2>2
<1>2. \A q \in Paths : IsPrefix(<<n>>, q) <=> q # <<>> /\ q[1] = n
  BY GroupPath
<1>3. QED
  BY <1>1, <1>2 DEF RootPath

LEMMA StandingShape ==
  ASSUME NEW N \in Nat, NEW top, NEW g \in Standing(N, top)
  PROVE  /\ g \in Groupers(N) /\ RegistryAgrees(g.tree)
         /\ g.groups \in [DOMAIN g.groups -> Numbered(N)] /\ DOMAIN g.groups \subseteq Words
         /\ g.root \in Numbered(N)
         /\ RootPath \in DOMAIN g.tree.dirs
         /\ \A n \in DOMAIN g.groups : PathsOf(n) \subseteq DOMAIN g.files
                                       /\ PathsOf(n) \subseteq DOMAIN g.tree.dirs
                                       /\ <<n>> \in DOMAIN g.tree.dirs
         /\ \A n \in DOMAIN g.groups : PartsThere(g, n)
<1>1. g \in Groupers(N)
  BY DEF Standing
<1>2. \A n \in DOMAIN g.groups : PathsOf(n) \subseteq DOMAIN g.files
                                 /\ PathsOf(n) \subseteq DOMAIN g.tree.dirs
                                 /\ <<n>> \in DOMAIN g.tree.dirs
  BY DEF Standing, DirsOf, FilesIn
<1>3. \A n \in DOMAIN g.groups : PartsThere(g, n)
  BY <1>2 DEF PartsThere, PathsOf
<1>4. QED
  BY <1>1, <1>2, <1>3, GrouperShape DEF Standing, DirsOf

\* The source of a group changes: nothing but its files and directories does.
LEMMA TellMoves ==
  ASSUME NEW N \in Nat, NEW top, top \subseteq {RootPath}, NEW g \in Standing(N, top),
         NEW n \in DOMAIN g.groups, NEW result, result.messages \in Numbered(N),
         result.notice \in Notices(N)
  PROVE  LET u == Tell(g, n, result)
         IN  /\ u \in Standing(N, top)
             /\ u.groups = [g.groups EXCEPT ![n] = result.messages]
             /\ SameBeside(g, u, top) /\ \A m \in Words \ {n} : SameAt(g, u, m)
             /\ PartsTold(g, u, n, result.notice)
<1> DEFINE u == Tell(g, n, result)
           h == [g EXCEPT !.groups[n] = result.messages]
<1>1. /\ g \in Groupers(N) /\ RegistryAgrees(g.tree) /\ PartsThere(g, n) /\ n \in Words
      /\ DOMAIN g.groups \subseteq Words /\ RootPath \in DOMAIN g.tree.dirs
      /\ DOMAIN g.tree.dirs = DirsOf(DOMAIN g.groups)
      /\ DOMAIN g.files = top \cup FilesIn(DOMAIN g.groups)
      /\ \A m \in DOMAIN g.groups : PathsOf(m) \subseteq DOMAIN g.files
                                    /\ PathsOf(m) \subseteq DOMAIN g.tree.dirs
  BY StandingShape DEF Standing
<1>2. u \in Groupers(N) /\ Told(h, u, n, result.notice, Range(Parts))
  BY <1>1, TellProps
<1>3. /\ h.groups = [g.groups EXCEPT ![n] = result.messages]
      /\ h.root = g.root /\ h.files = g.files /\ h.tree = g.tree
  BY <1>1 DEF Groupers
<1> HIDE DEF u, h
<1>4. /\ u.groups = h.groups /\ u.root = h.root /\ u.tree.subdirs = h.tree.subdirs
      /\ DOMAIN u.files = DOMAIN h.files /\ DOMAIN u.tree.dirs = DOMAIN h.tree.dirs
      /\ \A q \in DOMAIN h.files : q \notin PathsOf(n) => u.files[q] = h.files[q]
      /\ \A q \in DOMAIN h.tree.dirs : q \notin PathsOf(n) => u.tree.dirs[q] = h.tree.dirs[q]
  BY <1>2 DEF Told, PathsOf
<1>5. PartsTold(g, u, n, result.notice)
  BY <1>2, <1>3 DEF Told, PartsTold
<1>6. RegistryAgrees(u.tree)
  BY <1>1, <1>3, <1>4 DEF RegistryAgrees
<1>7. DOMAIN u.groups = DOMAIN g.groups
  BY <1>3, <1>4
<1>8. u \in Standing(N, top)
  BY <1>1, <1>2, <1>3, <1>4, <1>6, <1>7 DEF Standing
<1>9. SameBeside(g, u, top)
  <2>1. RootPath \notin PathsOf(n)
    BY <1>1, OwnPaths
  <2>2. QED
    BY <1>1, <1>3, <1>4, <2>1 DEF SameBeside
<1>10. ASSUME NEW m \in Words \ {n} PROVE SameAt(g, u, m)
  <2>1. PathsOf(m) \cap PathsOf(n) = {}
    BY <1>1, PathsApart
  <2>2. u.groups[m] = g.groups[m]
    BY <1>3, <1>4
  <2>3. m \in DOMAIN g.groups =>
          \A q \in PathsOf(m) : u.files[q] = g.files[q] /\ u.tree.dirs[q] = g.tree.dirs[q]
    BY <1>1, <1>3, <1>4, <2>1
  <2>4. QED
    BY <1>7, <2>2, <2>3 DEF SameAt
<1>11. QED
  BY <1>3, <1>4, <1>5, <1>8, <1>9, <1>10 DEF u

-----------------------------------------------------------------------------
(* Messages and notices *)

LEMMA NoneNumbered ==
  ASSUME NEW N \in Nat
  PROVE  None \in Numbered(N) /\ DOMAIN None = {} /\ Source!Empty = None
<1>1. None = <<>> /\ DOMAIN <<>> = {} /\ <<>> \in [{} -> Contents]
  BY DEF None, Source!Empty
<1>2. {} \in SUBSET (1..N)
  OBVIOUS
<1>3. QED
  BY <1>1, <1>2 DEF Numbered, None

LEMMA NoneIs ==
  ASSUME NEW N \in Nat, NEW ms \in Numbered(N)
  PROVE  ms = None <=> DOMAIN ms = {}
<1>1. None \in [{} -> Contents] /\ ms \in [DOMAIN ms -> Contents] /\ DOMAIN None = {}
  BY NumberedProps, NoneNumbered
<1>2. QED
  BY <1>1

LEMMA RestrictNumbered ==
  ASSUME NEW N \in Nat, NEW ms \in Numbered(N), NEW S, S \subseteq DOMAIN ms
  PROVE  /\ Restrict(ms, S) \in Numbered(N) /\ DOMAIN Restrict(ms, S) = S
         /\ \A i \in S : Restrict(ms, S)[i] = ms[i]
         /\ Source!Restrict(ms, S) = Restrict(ms, S)
         /\ Dir!Restrict(ms, S) = Restrict(ms, S)
<1> DEFINE own == Restrict(ms, S)
<1>1. own = [i \in S |-> ms[i]]
  BY DEF Restrict
<1>2. Source!Restrict(ms, S) = own /\ Dir!Restrict(ms, S) = own
  BY <1>1 DEF Source!Restrict, Dir!Restrict
<1> HIDE DEF own
<1>3. own \in [DOMAIN own -> Contents] /\ DOMAIN own \subseteq 1..N
  BY <1>1, NumberedProps
<1>4. own \in Numbered(N)
  BY <1>3, NumberedMade
<1>5. QED
  BY <1>1, <1>2, <1>4 DEF own

LEMMA FilteredNumbered ==
  ASSUME NEW N \in Nat, NEW ms \in Numbered(N)
  PROVE  Source!Filtered(ms) = ms
<1>1. Source!Filtered(ms) = [i \in {j \in DOMAIN ms : ms[j] \in Contents} |-> ms[i]]
  BY DEF Source!Filtered, Source!RestrictValues, Source!Restrict
<1>2. ms \in [DOMAIN ms -> Contents]
  BY NumberedProps
<1>3. {j \in DOMAIN ms : ms[j] \in Contents} = DOMAIN ms
  BY <1>2
<1>4. QED
  BY <1>1, <1>2, <1>3

LEMMA OverwrittenNumbered ==
  ASSUME NEW N \in Nat, NEW ms \in Numbered(N), NEW others \in Numbered(N)
  PROVE  LET own == Source!Overwritten(ms, others)
         IN  /\ own \in Numbered(N) /\ DOMAIN own = DOMAIN ms \cup DOMAIN others
             /\ \A i \in DOMAIN own :
                  own[i] = IF i \in DOMAIN others THEN others[i] ELSE ms[i]
<1> DEFINE own == Source!Overwritten(ms, others)
<1>1. own = [i \in DOMAIN ms \cup DOMAIN others |->
               IF i \in DOMAIN others THEN others[i] ELSE ms[i]]
  BY DEF Source!Overwritten, Source!Ids
<1> HIDE DEF own
<1>2. own \in [DOMAIN own -> Contents] /\ DOMAIN own \subseteq 1..N
  BY <1>1, NumberedProps
<1>3. own \in Numbered(N)
  BY <1>2, NumberedMade
<1>4. QED
  BY <1>1, <1>3 DEF own

LEMMA NoticeTyped ==
  ASSUME NEW N \in Nat, NEW kind \in {"none", "new", "removed", "edited"},
         NEW old \in Numbered(N), NEW new \in Numbered(N)
  PROVE  /\ Source!Notice(kind, old, new) \in Notices(N)
         /\ Source!Notice(kind, old, new).kind = kind
         /\ Source!Notice(kind, old, new).old = old
         /\ Source!Notice(kind, old, new).new = new
BY DEF Source!Notice, Notices

\* Messages are removed from a source.
LEMMA RemoveGivenProps ==
  ASSUME NEW N \in Nat, NEW own \in Numbered(N), NEW ms \in Numbered(N)
  PROVE  LET r == Source!RemoveGiven(own, ms)
         IN  /\ r.messages = Restrict(own, DOMAIN own \ DOMAIN ms)
             /\ r.messages \in Numbered(N) /\ r.notice \in Notices(N)
             /\ r.notice.kind = "removed" /\ r.notice.new = None
             /\ r.notice.old = Restrict(ms, DOMAIN ms \cap DOMAIN own)
<1> DEFINE left == Restrict(own, DOMAIN own \ DOMAIN ms)
           old  == Restrict(ms, DOMAIN ms \cap DOMAIN own)
<1>1. left \in Numbered(N) /\ Source!Restrict(own, DOMAIN own \ DOMAIN ms) = left
  BY RestrictNumbered
<1>2. old \in Numbered(N) /\ Source!Restrict(ms, DOMAIN ms \cap DOMAIN own) = old
  <2>1. DOMAIN ms \cap DOMAIN own \subseteq DOMAIN ms
    OBVIOUS
  <2>2. QED
    BY <2>1, RestrictNumbered
<1>3. Source!RemoveGiven(own, ms)
        = [messages |-> left, notice |-> Source!Notice("removed", old, None)]
  BY <1>1, <1>2, NoneNumbered
  DEF Source!RemoveGiven, Source!Result, Source!Without, Source!Ids
<1> HIDE DEF left, old
<1> DEFINE told == Source!Notice("removed", old, None)
<1>4. /\ told \in Notices(N) /\ told.kind = "removed" /\ told.old = old /\ told.new = None
  BY <1>2, NoneNumbered, NoticeTyped
<1> HIDE DEF told
<1>5. QED
  BY <1>1, <1>3, <1>4 DEF left, old, told

LEMMA RemoveMessagesProps ==
  ASSUME NEW N \in Nat, NEW own \in Numbered(N), NEW ids
  PROVE  LET r == Source!RemoveMessages(own, ids)
         IN  /\ r.messages = Restrict(own, DOMAIN own \ ids)
             /\ r.messages \in Numbered(N) /\ r.notice \in Notices(N)
             /\ r.notice.kind = "removed" /\ r.notice.new = None
             /\ r.notice.old = Restrict(own, ids \cap DOMAIN own)
<1> DEFINE left == Restrict(own, DOMAIN own \ ids)
           old  == Restrict(own, ids \cap DOMAIN own)
<1>1. left \in Numbered(N) /\ Source!Restrict(own, DOMAIN own \ ids) = left
  BY RestrictNumbered
<1>2. old \in Numbered(N) /\ Source!Restrict(own, ids \cap DOMAIN own) = old
  <2>1. ids \cap DOMAIN own \subseteq DOMAIN own
    OBVIOUS
  <2>2. QED
    BY <2>1, RestrictNumbered
<1>3. Source!RemoveMessages(own, ids)
        = [messages |-> left, notice |-> Source!Notice("removed", old, None)]
  BY <1>1, <1>2, NoneNumbered
  DEF Source!RemoveMessages, Source!Result, Source!Without, Source!Ids
<1> HIDE DEF left, old
<1> DEFINE told == Source!Notice("removed", old, None)
<1>4. /\ told \in Notices(N) /\ told.kind = "removed" /\ told.old = old /\ told.new = None
  BY <1>2, NoneNumbered, NoticeTyped
<1> HIDE DEF told
<1>5. QED
  BY <1>1, <1>3, <1>4 DEF left, old, told

\* Messages are added to a source: those that are not there yet.
MessagesAdded(N, r, own, ms) ==
  LET diff == Restrict(ms, DOMAIN ms \ DOMAIN own)
  IN  /\ r.messages \in Numbered(N) /\ r.notice \in Notices(N)
      /\ DOMAIN r.messages = DOMAIN own \cup DOMAIN ms
      /\ \A i \in DOMAIN r.messages :
           r.messages[i] = IF i \in DOMAIN own THEN own[i] ELSE ms[i]
      /\ r.notice.old = None /\ r.notice.new = diff
      /\ r.notice.kind = IF diff = None THEN "none" ELSE "new"

LEMMA AddMessagesProps ==
  ASSUME NEW N \in Nat, NEW own \in Numbered(N), NEW ms \in Numbered(N)
  PROVE  MessagesAdded(N, Source!AddMessages(own, ms), own, ms)
<1> DEFINE diff == Restrict(ms, DOMAIN ms \ DOMAIN own)
           all  == Source!Overwritten(diff, own)
           told == IF DOMAIN diff = {} THEN Source!Notice("none", None, None)
                   ELSE Source!Notice("new", None, diff)
<1>1. /\ diff \in Numbered(N) /\ DOMAIN diff = DOMAIN ms \ DOMAIN own
      /\ \A i \in DOMAIN diff : diff[i] = ms[i]
      /\ Source!Restrict(ms, DOMAIN ms \ DOMAIN own) = diff
  BY RestrictNumbered
<1>2. Source!AddMessages(own, ms) = [messages |-> all, notice |-> told]
  BY <1>1, FilteredNumbered, NoneNumbered
  DEF Source!AddMessages, Source!Result, Source!Without, Source!Ids, Source!Extended,
      Source!NoNotice
<1>3. diff = None <=> DOMAIN diff = {}
  BY <1>1, NoneIs
<1> HIDE DEF diff
<1>4. /\ all \in Numbered(N) /\ DOMAIN all = DOMAIN own \cup DOMAIN ms
      /\ \A i \in DOMAIN all : all[i] = IF i \in DOMAIN own THEN own[i] ELSE ms[i]
  <2>1. /\ all \in Numbered(N) /\ DOMAIN all = DOMAIN diff \cup DOMAIN own
        /\ \A i \in DOMAIN all : all[i] = IF i \in DOMAIN own THEN own[i] ELSE diff[i]
    <3>1. diff \in Numbered(N)
      BY <1>1
    <3>2. QED
      BY <3>1, OverwrittenNumbered
  <2> HIDE DEF all
  <2>2. QED
    BY <1>1, <2>1
<1>5. /\ told \in Notices(N) /\ told.old = None /\ told.new = diff
      /\ told.kind = IF diff = None THEN "none" ELSE "new"
  BY <1>1, <1>3, NoneNumbered, NoticeTyped
<1> HIDE DEF all, told
<1>6. QED
  BY <1>2, <1>4, <1>5 DEF diff, MessagesAdded

\* Messages of a source are edited, if all of them are there.
LEMMA EditMessagesProps ==
  ASSUME NEW N \in Nat, NEW own \in Numbered(N), NEW ms \in Numbered(N)
  PROVE  LET r == Source!EditMessages(own, ms)
         IN  /\ r.messages \in Numbered(N) /\ r.notice \in Notices(N)
             /\ DOMAIN r.messages = DOMAIN own
             /\ DOMAIN ms \subseteq DOMAIN own =>
                  /\ \A i \in DOMAIN own :
                       r.messages[i] = IF i \in DOMAIN ms THEN ms[i] ELSE own[i]
                  /\ r.notice.kind = "edited" /\ r.notice.new = ms
                  /\ r.notice.old = Restrict(own, DOMAIN ms)
<1> DEFINE r   == Source!EditMessages(own, ms)
           all == Source!Overwritten(own, ms)
           old == Restrict(own, DOMAIN ms)
<1>1. CASE DOMAIN ms \subseteq DOMAIN own
  <2>1. old \in Numbered(N) /\ Source!Restrict(own, DOMAIN ms) = old
    BY <1>1, RestrictNumbered
  <2> DEFINE told == Source!Notice("edited", old, ms)
  <2>2. r = [messages |-> all, notice |-> told]
    BY <1>1, <2>1, FilteredNumbered DEF Source!EditMessages, Source!Result, Source!Ids
  <2> HIDE DEF old
  <2>3. /\ all \in Numbered(N) /\ DOMAIN all = DOMAIN own \cup DOMAIN ms
        /\ \A i \in DOMAIN all : all[i] = IF i \in DOMAIN ms THEN ms[i] ELSE own[i]
    BY OverwrittenNumbered
  <2>4. told \in Notices(N) /\ told.kind = "edited" /\ told.old = old /\ told.new = ms
    BY <2>1, NoticeTyped
  <2> HIDE DEF r, all, told
  <2>5. QED
    BY <1>1, <2>2, <2>3, <2>4 DEF r, old
<1>2. CASE ~(DOMAIN ms \subseteq DOMAIN own)
  <2> DEFINE told == Source!Notice("none", None, None)
  <2>1. r = [messages |-> own, notice |-> told]
    BY <1>2, FilteredNumbered, NoneNumbered
    DEF Source!EditMessages, Source!Result, Source!Ids, Source!NoNotice
  <2>2. told \in Notices(N)
    BY NoneNumbered, NoticeTyped
  <2> HIDE DEF r, told
  <2>3. QED
    BY <1>2, <2>1, <2>2 DEF r
<1>3. QED
  BY <1>1, <1>2

-----------------------------------------------------------------------------
(* One group is updated *)

\* Messages without those of others, with those of others, and with those of
\* others in their place.
Less(own, ms) == Restrict(own, DOMAIN own \ DOMAIN ms)

More(own, ms) ==
  [i \in DOMAIN own \cup DOMAIN ms |-> IF i \in DOMAIN own THEN own[i] ELSE ms[i]]

Changed(own, ms) ==
  IF DOMAIN ms \subseteq DOMAIN own
  THEN [i \in DOMAIN own |-> IF i \in DOMAIN ms THEN ms[i] ELSE own[i]] ELSE own

\* The source of a group has become "own", and its producers were told so.
Moves(N, top, g, u, n, own, notice) ==
  /\ u \in Standing(N, top) /\ notice \in Notices(N)
  /\ u.groups = [g.groups EXCEPT ![n] = own]
  /\ SameBeside(g, u, top) /\ \A m \in Words \ {n} : SameAt(g, u, m)
  /\ PartsTold(g, u, n, notice)

\* What is told of messages that are removed, added or edited.
ToldRemoved(notice, own, ms) ==
  IF ms = None THEN notice.kind = "none"
  ELSE /\ notice.kind = "removed" /\ notice.new = None
       /\ notice.old = Restrict(ms, DOMAIN ms \cap DOMAIN own)

ToldAdded(notice, own, ms) ==
  IF Less(ms, own) = None THEN notice.kind = "none"
  ELSE notice.kind = "new" /\ notice.old = None /\ notice.new = Less(ms, own)

ToldEdited(notice, own, ms) ==
  IF ms = None THEN notice.kind = "none"
  ELSE DOMAIN ms \subseteq DOMAIN own =>
         /\ notice.kind = "edited" /\ notice.new = ms
         /\ notice.old = Restrict(own, DOMAIN ms)

\* Nobody is told of nothing.
LEMMA StaysPut ==
  ASSUME NEW N \in Nat, NEW top, NEW g \in Standing(N, top), NEW n \in DOMAIN g.groups
  PROVE  /\ Moves(N, top, g, g, n, g.groups[n], Source!NoNotice)
         /\ Source!NoNotice.kind = "none"
<1>1. Source!NoNotice \in Notices(N) /\ Source!NoNotice.kind = "none"
  BY NoneNumbered, NoticeTyped DEF Source!NoNotice
<1>2. g.groups = [g.groups EXCEPT ![n] = g.groups[n]]
  BY StandingShape
<1>3. PartsTold(g, g, n, Source!NoNotice)
  BY <1>1 DEF PartsTold, FilesNow, ItemsNow
<1>4. QED
  BY <1>1, <1>2, <1>3 DEF Moves, SameBeside, SameAt

LEMMA RemoveFromMoves ==
  ASSUME NEW N \in Nat, NEW top, top \subseteq {RootPath}, NEW g \in Standing(N, top),
         NEW n \in DOMAIN g.groups, NEW ms \in Numbered(N)
  PROVE  /\ Less(g.groups[n], ms) \in Numbered(N)
         /\ \E notice \in Notices(N) :
              /\ Moves(N, top, g, RemoveFrom(g, n, ms), n, Less(g.groups[n], ms), notice)
              /\ ToldRemoved(notice, g.groups[n], ms)
<1> DEFINE own == g.groups[n]
<1>1. own \in Numbered(N)
  BY StandingShape
<1> HIDE DEF own
<1>2. Less(own, ms) \in Numbered(N) /\ (ms = None => Less(own, ms) = own)
  <2>1. ms = None => DOMAIN ms = {}
    BY NoneIs
  <2>2. DOMAIN own \ DOMAIN ms \subseteq DOMAIN own
    OBVIOUS
  <2>3. own = [i \in DOMAIN own |-> own[i]]
    BY <1>1, NumberedProps
  <2>4. QED
    BY <1>1, <2>1, <2>2, <2>3, RestrictNumbered DEF Less, Restrict
<1>3. CASE ms = None
  <2>1. RemoveFrom(g, n, ms) = g
    BY <1>3 DEF RemoveFrom
  <2>2. QED
    BY <1>2, <1>3, <2>1, StaysPut DEF ToldRemoved, own, Moves
<1>4. CASE ms # None
  <2> DEFINE r == Source!RemoveGiven(own, ms)
             u == Tell(g, n, r)
  <2>1. /\ r.messages = Less(own, ms) /\ r.messages \in Numbered(N) /\ r.notice \in Notices(N)
        /\ ToldRemoved(r.notice, own, ms)
    BY <1>1, <1>4, RemoveGivenProps DEF ToldRemoved, Less
  <2>2. RemoveFrom(g, n, ms) = u
    BY <1>4 DEF RemoveFrom, own
  <2> HIDE DEF r
  <2>3. /\ u \in Standing(N, top) /\ u.groups = [g.groups EXCEPT ![n] = r.messages]
        /\ SameBeside(g, u, top) /\ \A m \in Words \ {n} : SameAt(g, u, m)
        /\ PartsTold(g, u, n, r.notice)
    BY <2>1, TellMoves
  <2> HIDE DEF u
  <2>4. QED
    BY <1>2, <2>1, <2>2, <2>3 DEF Moves, own
<1>5. QED
  BY <1>3, <1>4

LEMMA AddToMoves ==
  ASSUME NEW N \in Nat, NEW top, top \subseteq {RootPath}, NEW g \in Standing(N, top),
         NEW n \in DOMAIN g.groups, NEW ms \in Numbered(N)
  PROVE  /\ More(g.groups[n], ms) \in Numbered(N)
         /\ \E notice \in Notices(N) :
              /\ Moves(N, top, g, AddTo(g, n, ms), n, More(g.groups[n], ms), notice)
              /\ ToldAdded(notice, g.groups[n], ms)
<1> DEFINE own == g.groups[n]
           r == Source!AddMessages(own, ms)
           u == Tell(g, n, r)
<1>1. own \in Numbered(N)
  BY StandingShape
<1> HIDE DEF own
<1>2. /\ r.messages \in Numbered(N) /\ r.notice \in Notices(N)
      /\ DOMAIN r.messages = DOMAIN own \cup DOMAIN ms
      /\ \A i \in DOMAIN r.messages :
           r.messages[i] = IF i \in DOMAIN own THEN own[i] ELSE ms[i]
      /\ ToldAdded(r.notice, own, ms)
  <2> DEFINE diff == Restrict(ms, DOMAIN ms \ DOMAIN own)
  <2>1. /\ r.messages \in Numbered(N) /\ r.notice \in Notices(N)
        /\ DOMAIN r.messages = DOMAIN own \cup DOMAIN ms
        /\ \A i \in DOMAIN r.messages :
             r.messages[i] = IF i \in DOMAIN own THEN own[i] ELSE ms[i]
        /\ r.notice.old = None /\ r.notice.new = diff
        /\ r.notice.kind = IF diff = None THEN "none" ELSE "new"
    <3>1. MessagesAdded(N, r, own, ms)
      BY <1>1, AddMessagesProps, Zenon
    <3> HIDE DEF r
    <3>2. QED
      BY <3>1, Zenon DEF MessagesAdded
  <2>2. Less(ms, own) = diff
    BY DEF Less
  <2> HIDE DEF diff, r
  <2>3. QED
    BY <2>1, <2>2 DEF ToldAdded
<1> HIDE DEF r
<1>3. r.messages = More(own, ms)
  <2>1. r.messages = [i \in DOMAIN r.messages |-> r.messages[i]]
    BY <1>2, NumberedProps
  <2>2. QED
    BY <1>2, <2>1 DEF More
<1>4. CASE ms = None
  <2>1. DOMAIN ms = {}
    BY <1>4, NoneIs
  <2>2. AddTo(g, n, ms) = g
    BY <1>4 DEF AddTo
  <2>3. own = [i \in DOMAIN own |-> own[i]]
    BY <1>1, NumberedProps
  <2>4. More(own, ms) = own
    BY <2>1, <2>3 DEF More
  <2>5. Less(ms, own) = None
    <3>1. DOMAIN ms \ DOMAIN own \subseteq DOMAIN ms
      OBVIOUS
    <3>2. Less(ms, own) \in Numbered(N) /\ DOMAIN Less(ms, own) = {}
      BY <2>1, <3>1, RestrictNumbered DEF Less
    <3>3. QED
      BY <3>2, NoneIs
  <2>6. QED
    BY <1>2, <1>3, <2>2, <2>4, <2>5, StaysPut DEF ToldAdded, own, Moves
<1>5. CASE ms # None
  <2>1. AddTo(g, n, ms) = u
    BY <1>5 DEF AddTo, own, r
  <2>2. /\ u \in Standing(N, top) /\ u.groups = [g.groups EXCEPT ![n] = r.messages]
        /\ SameBeside(g, u, top) /\ \A m \in Words \ {n} : SameAt(g, u, m)
        /\ PartsTold(g, u, n, r.notice)
    BY <1>2, TellMoves
  <2> HIDE DEF u
  <2>3. QED
    BY <1>2, <1>3, <2>1, <2>2 DEF Moves, own
<1>6. QED
  BY <1>4, <1>5

LEMMA EditInMoves ==
  ASSUME NEW N \in Nat, NEW top, top \subseteq {RootPath}, NEW g \in Standing(N, top),
         NEW n \in DOMAIN g.groups, NEW ms \in Numbered(N)
  PROVE  \E own \in Numbered(N), notice \in Notices(N) :
           /\ DOMAIN own = DOMAIN g.groups[n]
           /\ DOMAIN ms \subseteq DOMAIN g.groups[n] => own = Changed(g.groups[n], ms)
           /\ Moves(N, top, g, EditIn(g, n, ms), n, own, notice)
           /\ ToldEdited(notice, g.groups[n], ms)
<1> DEFINE own == g.groups[n]
<1>1. own \in Numbered(N)
  BY StandingShape
<1> HIDE DEF own
<1>2. CASE ms = None
  <2>1. DOMAIN ms = {}
    BY <1>2, NoneIs
  <2>2. EditIn(g, n, ms) = g
    BY <1>2 DEF EditIn
  <2>3. own = [i \in DOMAIN own |-> own[i]]
    BY <1>1, NumberedProps
  <2>4. Changed(own, ms) = own
    BY <2>1, <2>3 DEF Changed
  <2>5. QED
    BY <1>1, <1>2, <2>2, <2>4, StaysPut DEF ToldEdited, own, Moves
<1>3. CASE ms # None
  <2> DEFINE r == Source!EditMessages(own, ms)
             u == Tell(g, n, r)
  <2>1. /\ r.messages \in Numbered(N) /\ r.notice \in Notices(N)
        /\ DOMAIN r.messages = DOMAIN own
        /\ DOMAIN ms \subseteq DOMAIN own =>
             \A i \in DOMAIN own : r.messages[i] = IF i \in DOMAIN ms THEN ms[i] ELSE own[i]
        /\ ToldEdited(r.notice, own, ms)
    BY <1>1, <1>3, EditMessagesProps DEF ToldEdited
  <2>2. EditIn(g, n, ms) = u
    BY <1>3 DEF EditIn, own
  <2> HIDE DEF r
  <2>3. DOMAIN ms \subseteq DOMAIN own => r.messages = Changed(own, ms)
    <3>1. r.messages = [i \in DOMAIN r.messages |-> r.messages[i]]
      BY <2>1, NumberedProps
    <3>2. QED
      BY <2>1, <3>1 DEF Changed
  <2>4. /\ u \in Standing(N, top) /\ u.groups = [g.groups EXCEPT ![n] = r.messages]
        /\ SameBeside(g, u, top) /\ \A m \in Words \ {n} : SameAt(g, u, m)
        /\ PartsTold(g, u, n, r.notice)
    BY <2>1, TellMoves
  <2> HIDE DEF u
  <2>5. QED
    BY <2>1, <2>2, <2>3, <2>4 DEF Moves, own
<1>4. QED
  BY <1>2, <1>3

\* A group is gone.
GoneAt(u, n) == n \notin DOMAIN u.groups

LEMMA RemoveGroupProps ==
  ASSUME NEW N \in Nat, NEW top, top \subseteq {RootPath}, NEW g \in Standing(N, top),
         NEW n \in DOMAIN g.groups
  PROVE  LET u == RemoveGroup(g, n)
         IN  /\ u \in Standing(N, top) /\ SameBeside(g, u, top)
             /\ \A m \in Words \ {n} : SameAt(g, u, m)
             /\ GoneAt(u, n)
<1> DEFINE u     == RemoveGroup(g, n)
           names == DOMAIN g.groups
           left  == {p \in DOMAIN g.files : ~IsPrefix(<<n>>, p)}
           t     == RemoveDir(g.tree, <<n>>)
           gs    == Restrict(g.groups, names \ {n})
           fs    == Restrict(g.files, left)
<1>1. /\ g \in Groupers(N) /\ RegistryAgrees(g.tree) /\ n \in Words /\ names \subseteq Words
      /\ g.groups \in [names -> Numbered(N)] /\ <<n>> \in DOMAIN g.tree.dirs
      /\ DOMAIN g.tree.dirs = DirsOf(names) /\ DOMAIN g.files = top \cup FilesIn(names)
      /\ g.files \in [DOMAIN g.files -> Numbered(N)] /\ DOMAIN g.files \subseteq Paths
      /\ g.tree \in Trees
  BY StandingShape, GrouperShape DEF Standing
<1>2. <<n>> # <<>>
  BY <1>1, GroupPath
<1>3. /\ t \in Trees /\ RegistryAgrees(t)
      /\ DOMAIN t.dirs = {p \in DOMAIN g.tree.dirs : ~IsPrefix(<<n>>, p)}
      /\ \A p \in DOMAIN t.dirs : t.dirs[p] = g.tree.dirs[p]
  BY <1>1, <1>2, RemoveDirProps
<1>4. u = [g EXCEPT !.tree = t, !.groups = gs, !.files = fs]
  BY DEF RemoveGroup, Inside
<1> HIDE DEF t
<1>5. /\ DOMAIN gs = names \ {n} /\ \A m \in names \ {n} : gs[m] = g.groups[m]
      /\ gs \in UNION {[S -> Numbered(N)] : S \in SUBSET Words}
      /\ DOMAIN fs = left /\ \A p \in left : fs[p] = g.files[p]
      /\ fs \in UNION {[S -> Numbered(N)] : S \in SUBSET Paths}
  <2>1. gs \in [names \ {n} -> Numbered(N)] /\ names \ {n} \in SUBSET Words
    BY <1>1 DEF Restrict
  <2>2. fs \in [left -> Numbered(N)] /\ left \in SUBSET Paths
    BY <1>1 DEF Restrict
  <2>3. \A m \in names \ {n} : gs[m] = g.groups[m]
    BY DEF Restrict
  <2>4. \A p \in left : fs[p] = g.files[p]
    BY DEF Restrict
  <2> HIDE DEF gs, fs, left, names
  <2>5. QED
    BY <2>1, <2>2, <2>3, <2>4
<1> HIDE DEF gs, fs
<1>6. /\ u \in Groupers(N) /\ u.tree = t /\ u.groups = gs /\ u.files = fs
      /\ u.root = g.root
  BY <1>1, <1>3, <1>4, <1>5 DEF Groupers
<1> HIDE DEF u
<1>7. ASSUME NEW m \in names \ {n}
      PROVE  \A q \in {<<m>>} \cup PathsOf(m) : ~IsPrefix(<<n>>, q)
  <2>1. m \in Words /\ m # n
    BY <1>1
  <2>2. QED
    BY <1>1, <2>1, PathsApart
<1>8. \A q \in {<<n>>} \cup PathsOf(n) : IsPrefix(<<n>>, q)
  BY <1>1, OwnPaths
<1>9. ~IsPrefix(<<n>>, RootPath)
  <2>1. <<>> \in Paths
    BY DEF Paths
  <2>2. QED
    BY <1>1, <2>1, GroupPath DEF RootPath
<1>10. DOMAIN u.tree.dirs = DirsOf(DOMAIN u.groups)
  BY <1>1, <1>3, <1>5, <1>6, <1>7, <1>8, <1>9 DEF DirsOf
<1>11. DOMAIN u.files = top \cup FilesIn(DOMAIN u.groups)
  BY <1>1, <1>5, <1>6, <1>7, <1>8, <1>9 DEF FilesIn
<1>12. u \in Standing(N, top)
  BY <1>3, <1>6, <1>10, <1>11 DEF Standing
<1>13. SameBeside(g, u, top)
  <2>1. RootPath \in DOMAIN t.dirs
    BY <1>6, <1>10 DEF DirsOf
  <2>2. \A q \in top : q \in left
    BY <1>1, <1>9
  <2>3. QED
    BY <1>3, <1>5, <1>6, <2>1, <2>2 DEF SameBeside
<1>14. ASSUME NEW m \in Words \ {n} PROVE SameAt(g, u, m)
  <2>1. m \in DOMAIN g.groups <=> m \in DOMAIN u.groups
    BY <1>5, <1>6
  <2>2. ASSUME m \in DOMAIN g.groups
        PROVE  /\ u.groups[m] = g.groups[m]
               /\ \A q \in PathsOf(m) : u.files[q] = g.files[q] /\ u.tree.dirs[q] = g.tree.dirs[q]
    <3>1. m \in names \ {n}
      BY <2>2
    <3>2. u.groups[m] = g.groups[m]
      BY <1>5, <1>6, <3>1
    <3>3. \A q \in PathsOf(m) : q \in left /\ q \in DOMAIN t.dirs
      BY <1>1, <1>3, <1>7, <3>1 DEF DirsOf, FilesIn
    <3>4. QED
      BY <1>3, <1>5, <1>6, <3>2, <3>3
  <2>3. QED
    BY <2>1, <2>2 DEF SameAt
<1>15. GoneAt(u, n)
  BY <1>5, <1>6 DEF GoneAt
<1>16. QED
  BY <1>12, <1>13, <1>14, <1>15 DEF u

\* The steps of the update of a group that is there: what left the messages is
\* removed, what came is added, the rest is edited, and an empty group goes.
Steps(N, top, g, u, n, gone, new, common) ==
  \E a, b, c \in Standing(N, top), first, second, third \in Notices(N), own \in Numbered(N) :
    /\ Moves(N, top, g, a, n, Less(g.groups[n], gone), first)
    /\ ToldRemoved(first, g.groups[n], gone)
    /\ Moves(N, top, a, b, n, More(a.groups[n], new), second)
    /\ ToldAdded(second, a.groups[n], new)
    /\ Moves(N, top, b, c, n, own, third) /\ DOMAIN own = DOMAIN b.groups[n]
    /\ DOMAIN common \subseteq DOMAIN b.groups[n] => own = Changed(b.groups[n], common)
    /\ ToldEdited(third, b.groups[n], common)
    /\ IF own = None THEN GoneAt(u, n) ELSE SameAt(c, u, n)

\* What the update of a group does to it.
Becomes(N, top, g, u, n, before, after) ==
  IF n \notin DOMAIN g.groups THEN FreshAt(u, n, after)
  ELSE Steps(N, top, g, u, n, Less(before, after), Less(after, before),
             Restrict(after, DOMAIN after \cap DOMAIN before))

LEMMA SameTogether ==
  ASSUME NEW g, NEW u, NEW v, NEW n, SameAt(g, u, n), SameAt(u, v, n)
  PROVE  SameAt(g, v, n)
BY DEF SameAt

LEMMA BesideTogether ==
  ASSUME NEW g, NEW u, NEW v, NEW top, SameBeside(g, u, top), SameBeside(u, v, top)
  PROVE  SameBeside(g, v, top)
BY DEF SameBeside

\* A directory that is created does nothing to the other groups.
LEMMA AddDirStands ==
  ASSUME NEW N \in Nat, NEW top, top \subseteq {RootPath}, NEW g \in Standing(N, top),
         NEW n \in Words, NEW after \in Numbered(N)
  PROVE  LET v == AddDir(g, n, after)
         IN  /\ v \in Standing(N, top) /\ SameBeside(g, v, top)
             /\ \A m \in Words \ {n} : SameAt(g, v, m)
             /\ FreshAt(v, n, after) /\ DOMAIN v.groups = DOMAIN g.groups \cup {n}
<1> DEFINE v == AddDir(g, n, after)
<1>1. /\ g \in Groupers(N) /\ RegistryAgrees(g.tree) /\ RootPath \in DOMAIN g.tree.dirs
      /\ DOMAIN g.tree.dirs = DirsOf(DOMAIN g.groups)
      /\ DOMAIN g.files = top \cup FilesIn(DOMAIN g.groups) /\ DOMAIN g.groups \subseteq Words
  BY StandingShape DEF Standing
<1>2. /\ v \in Groupers(N) /\ v.root = g.root /\ RegistryAgrees(v.tree)
      /\ v.groups = [m \in DOMAIN g.groups \cup {n} |-> IF m = n THEN after ELSE g.groups[m]]
      /\ DOMAIN v.files = DOMAIN g.files \cup PathsOf(n)
      /\ DOMAIN v.tree.dirs = DOMAIN g.tree.dirs \cup ({<<n>>} \cup PathsOf(n))
      /\ \A p \in Range(Parts) :
           /\ v.files[<<n>> \o p] = Dir!Matching(after, Wanted[p])
           /\ v.tree.dirs[<<n>> \o p] = Dir!FilesOf(Dir!Matching(after, Wanted[p]))
      /\ \A q \in DOMAIN g.files \ ({<<n>>} \cup PathsOf(n)) : v.files[q] = g.files[q]
      /\ \A q \in DOMAIN g.tree.dirs \ ({<<n>>} \cup PathsOf(n)) :
           v.tree.dirs[q] = g.tree.dirs[q]
  <2>1. DirAdded(N, g, v, n, after)
    BY <1>1, AddDirProps, Zenon
  <2> HIDE DEF v
  <2>2. QED
    BY <2>1, Zenon DEF DirAdded
<1> HIDE DEF v
<1>3. v \in Standing(N, top)
  BY <1>1, <1>2 DEF Standing, DirsOf, FilesIn
<1>4. FreshAt(v, n, after)
  BY <1>2 DEF FreshAt
<1>5. SameBeside(g, v, top)
  <2>1. RootPath \notin {<<n>>} \cup PathsOf(n)
    BY OwnPaths
  <2>2. QED
    BY <1>1, <1>2, <2>1 DEF SameBeside
<1>6. ASSUME NEW m \in Words \ {n} PROVE SameAt(g, v, m)
  <2>1. PathsOf(m) \cap ({<<n>>} \cup PathsOf(n)) = {}
    BY PathsApart
  <2>2. m \in DOMAIN g.groups => PathsOf(m) \subseteq DOMAIN g.files
                                 /\ PathsOf(m) \subseteq DOMAIN g.tree.dirs
    BY StandingShape
  <2>3. QED
    BY <1>2, <2>1, <2>2 DEF SameAt
<1>7. DOMAIN v.groups = DOMAIN g.groups \cup {n}
  BY <1>2
<1>8. QED
  BY <1>3, <1>4, <1>5, <1>6, <1>7 DEF v

\* The update of a group does nothing to the others.
LEMMA UpdateGroupProps ==
  ASSUME NEW N \in Nat, NEW top, top \subseteq {RootPath}, NEW g \in Standing(N, top),
         NEW n \in Words, NEW before \in Numbered(N), NEW after \in Numbered(N)
  PROVE  LET u == UpdateGroup(g, n, before, after)
         IN  /\ u \in Standing(N, top) /\ SameBeside(g, u, top)
             /\ \A m \in Words \ {n} : SameAt(g, u, m)
             /\ Becomes(N, top, g, u, n, before, after)
<1> DEFINE u      == UpdateGroup(g, n, before, after)
           gone   == Less(before, after)
           new    == Less(after, before)
           common == Restrict(after, DOMAIN after \cap DOMAIN before)
<1>1. gone \in Numbered(N) /\ new \in Numbered(N) /\ common \in Numbered(N)
  <2>1. /\ DOMAIN before \ DOMAIN after \subseteq DOMAIN before
        /\ DOMAIN after \ DOMAIN before \subseteq DOMAIN after
        /\ DOMAIN after \cap DOMAIN before \subseteq DOMAIN after
    OBVIOUS
  <2>2. QED
    BY <2>1, RestrictNumbered DEF Less
<1>2. CASE n \notin DOMAIN g.groups
  <2> DEFINE v == AddDir(g, n, after)
  <2>1. u = v
    BY <1>2 DEF UpdateGroup
  <2>2. /\ v \in Standing(N, top) /\ SameBeside(g, v, top)
        /\ \A m \in Words \ {n} : SameAt(g, v, m)
        /\ FreshAt(v, n, after)
    BY AddDirStands
  <2> HIDE DEF u, v
  <2>3. QED
    BY <1>2, <2>1, <2>2 DEF Becomes, u
<1>3. CASE n \in DOMAIN g.groups
  <2> DEFINE a == RemoveFrom(g, n, gone)
             b == AddTo(a, n, new)
             c == EditIn(b, n, common)
  <2>1. u = DropIfEmpty(c, n)
    BY <1>3 DEF UpdateGroup, Less
  <2> HIDE DEF u, gone, new, common
  <2>2. PICK first \in Notices(N) :
          /\ Moves(N, top, g, a, n, Less(g.groups[n], gone), first)
          /\ ToldRemoved(first, g.groups[n], gone)
    BY <1>1, <1>3, RemoveFromMoves
  <2> HIDE DEF a
  <2>3. a \in Standing(N, top) /\ n \in DOMAIN a.groups
    BY <1>3, <2>2 DEF Moves
  <2>4. PICK second \in Notices(N) :
          /\ Moves(N, top, a, b, n, More(a.groups[n], new), second)
          /\ ToldAdded(second, a.groups[n], new)
    BY <1>1, <2>3, AddToMoves
  <2> HIDE DEF b
  <2>5. b \in Standing(N, top) /\ n \in DOMAIN b.groups
    BY <2>3, <2>4 DEF Moves
  <2>6. PICK own \in Numbered(N), third \in Notices(N) :
          /\ DOMAIN own = DOMAIN b.groups[n]
          /\ DOMAIN common \subseteq DOMAIN b.groups[n] => own = Changed(b.groups[n], common)
          /\ Moves(N, top, b, c, n, own, third)
          /\ ToldEdited(third, b.groups[n], common)
    BY <1>1, <2>5, EditInMoves
  <2> HIDE DEF c
  <2>7. c \in Standing(N, top) /\ n \in DOMAIN c.groups /\ c.groups[n] = own
    BY <2>5, <2>6 DEF Moves
  <2>8. SameBeside(g, c, top) /\ \A m \in Words \ {n} : SameAt(g, c, m)
    BY <2>2, <2>4, <2>6, SameTogether, BesideTogether DEF Moves
  <2>9. /\ u \in Standing(N, top) /\ SameBeside(c, u, top)
        /\ \A m \in Words \ {n} : SameAt(c, u, m)
        /\ IF own = None THEN GoneAt(u, n) ELSE SameAt(c, u, n)
    <3>1. CASE own = None
      <4>1. u = RemoveGroup(c, n)
        BY <2>1, <2>7, <3>1 DEF DropIfEmpty, LastLeft
      <4>2. QED
        BY <2>7, <3>1, <4>1, RemoveGroupProps
    <3>2. CASE own # None
      <4>1. u = c
        BY <2>1, <2>7, <3>2 DEF DropIfEmpty, LastLeft
      <4>2. QED
        BY <2>7, <3>2, <4>1 DEF SameAt, SameBeside
    <3>3. QED
      BY <3>1, <3>2
  <2>10. SameBeside(g, u, top) /\ \A m \in Words \ {n} : SameAt(g, u, m)
    BY <2>8, <2>9, SameTogether, BesideTogether
  <2>11. Steps(N, top, g, u, n, gone, new, common)
    BY <2>2, <2>3, <2>4, <2>5, <2>6, <2>7, <2>9 DEF Steps
  <2>12. QED
    BY <1>3, <2>9, <2>10, <2>11 DEF Becomes, u, gone, new, common
<1>4. QED
  BY <1>2, <1>3

-----------------------------------------------------------------------------
(* Groups are updated one after another *)

\* A group has been updated, and only by its own update.
Through(N, top, g, u, n, before, after) ==
  \E w, v \in Standing(N, top) :
    SameAt(g, w, n) /\ Becomes(N, top, w, v, n, before, after) /\ SameAt(v, u, n)

\* These groups have been updated, and no others.
AllUpdated(N, top, g, u, names, before, after) ==
  /\ SameBeside(g, u, top)
  /\ \A m \in Words \ names : SameAt(g, u, m)
  /\ \A m \in names : Through(N, top, g, u, m, GroupIn(before, m), GroupIn(after, m))

LEMMA AllUpdatedOne ==
  ASSUME NEW N \in Nat, NEW top, top \subseteq {RootPath}, NEW g, NEW u \in Standing(N, top),
         NEW names, names \subseteq Words, NEW before, NEW after,
         AllUpdated(N, top, g, u, names, before, after), NEW n \in Words \ names,
         GroupIn(before, n) \in Numbered(N), GroupIn(after, n) \in Numbered(N)
  PROVE  LET v == UpdateGroup(u, n, GroupIn(before, n), GroupIn(after, n))
         IN  /\ v \in Standing(N, top)
             /\ AllUpdated(N, top, g, v, names \cup {n}, before, after)
<1> DEFINE old == GroupIn(before, n)
           new == GroupIn(after, n)
           v   == UpdateGroup(u, n, old, new)
<1>1. old \in Numbered(N) /\ new \in Numbered(N)
  OBVIOUS
<1> HIDE DEF old, new
<1>2. /\ v \in Standing(N, top) /\ SameBeside(u, v, top)
      /\ \A m \in Words \ {n} : SameAt(u, v, m)
      /\ Becomes(N, top, u, v, n, old, new)
  BY <1>1, UpdateGroupProps
<1> HIDE DEF v
<1>3. SameBeside(g, v, top)
  BY <1>2, BesideTogether DEF AllUpdated
<1>4. \A m \in Words \ (names \cup {n}) : SameAt(g, v, m)
  BY <1>2, SameTogether DEF AllUpdated
<1>5. ASSUME NEW m \in names
      PROVE  Through(N, top, g, v, m, GroupIn(before, m), GroupIn(after, m))
  <2>1. Through(N, top, g, u, m, GroupIn(before, m), GroupIn(after, m)) /\ SameAt(u, v, m)
    BY <1>2 DEF AllUpdated
  <2>2. PICK w, x \in Standing(N, top) :
          /\ SameAt(g, w, m) /\ Becomes(N, top, w, x, m, GroupIn(before, m), GroupIn(after, m))
          /\ SameAt(x, u, m)
    BY <2>1 DEF Through
  <2>3. SameAt(x, v, m)
    BY <2>1, <2>2, SameTogether
  <2>4. QED
    BY <2>2, <2>3 DEF Through
<1>6. Through(N, top, g, v, n, old, new)
  <2>1. SameAt(g, u, n) /\ SameAt(v, v, n)
    BY DEF AllUpdated, SameAt
  <2>2. QED
    BY <1>2, <2>1 DEF Through
<1>7. QED
  BY <1>2, <1>3, <1>4, <1>5, <1>6 DEF AllUpdated, v, old, new

LEMMA UpdateGroupsProps ==
  ASSUME NEW N \in Nat, NEW top, top \subseteq {RootPath}, NEW g \in Standing(N, top),
         NEW names, names \subseteq Words, IsFiniteSet(names), NEW before, NEW after,
         \A n \in names : GroupIn(before, n) \in Numbered(N) /\ GroupIn(after, n) \in Numbered(N)
  PROVE  LET u == UpdateGroups(g, names, before, after)
         IN  u \in Standing(N, top) /\ AllUpdated(N, top, g, u, names, before, after)
<1> DEFINE list  == SetToSeq(names)
           count == Cardinality(names)
           A     == Standing(N, top)
           Turn(acc, n) == UpdateGroup(acc, n, GroupIn(before, n), GroupIn(after, n))
           step == [p \in A \X (1..count) |-> Turn(p[1], list[p[2]])]
           Is(f, T) == f[T] = IF T = {} THEN g ELSE Turn(f[T \ {Max(T)}], list[Max(T)])
           Equation(f) ==
             f = [T \in SUBSET (1..count) |->
                    IF T = {} THEN g ELSE Turn(f[T \ {Max(T)}], list[Max(T)])]
           folded == CHOOSE f : Equation(f)
<1>1. /\ count \in Nat /\ DOMAIN list = 1..count /\ \A k \in 1..count : list[k] \in names
      /\ \A k, l \in 1..count : list[k] = list[l] => k = l
      /\ \A n \in names : \E k \in 1..count : list[k] = n
  BY EachOnce
<1>2. FoldLeft(LAMBDA acc, n : Turn(acc, n), g, list) = folded[1..count]
  BY <1>1 DEF FoldLeft, MapThenFoldSet
<1>3. UpdateGroups(g, names, before, after) = folded[1..count]
  BY <1>2 DEF UpdateGroups
<1> HIDE DEF list, count
<1>4. ASSUME NEW u \in A, NEW k \in 1..count PROVE Turn(u, list[k]) \in A
  <2>1. list[k] \in Words /\ list[k] \in names
    BY <1>1
  <2>2. QED
    BY <2>1, UpdateGroupProps
<1>5. g \in A
  OBVIOUS
<1> HIDE DEF A, Turn
<1>6. step \in [A \X (1..count) -> A]
  BY <1>4
<1>7. PICK iter \in [SUBSET (1..count) -> A] : Folds(iter, count, g, step)
  BY <1>1, <1>5, <1>6, FoldDefined
<1>8. ASSUME NEW T \in SUBSET (1..count) PROVE Is(iter, T)
  <2>1. T # {} => Max(T) \in 1..count /\ iter[T \ {Max(T)}] \in A
    BY <1>1, MaxOfSome
  <2>2. QED
    BY <1>7, <2>1 DEF Folds
<1>9. Equation(iter)
  BY <1>8
<1>10. Equation(folded)
  <2> HIDE DEF Equation
  <2>1. QED
    BY <1>9, Zenon
<1> HIDE DEF folded
<1>11. StepsIn(A, folded, count, g, step)
  BY <1>1, <1>10, FirstNumbers, ZenonT(60) DEF StepsIn
<1> HIDE DEF Equation
<1> DEFINE first(k) == {list[l] : l \in 1..k}
           good == [k \in 0..count |-> {u \in A : AllUpdated(N, top, g, u, first(k), before, after)}]
<1>12. AllUpdated(N, top, g, g, first(0), before, after)
  <2>1. first(0) = {}
    OBVIOUS
  <2> HIDE DEF first
  <2>2. QED
    BY <2>1 DEF AllUpdated, SameBeside, SameAt
<1>13. ASSUME NEW k \in 1..count, NEW u \in A, AllUpdated(N, top, g, u, first(k - 1), before, after)
       PROVE  AllUpdated(N, top, g, step[<<u, k>>], first(k), before, after)
  <2>1. step[<<u, k>>] = Turn(u, list[k])
    BY <1>13
  <2>2. /\ first(k) = first(k - 1) \cup {list[k]} /\ first(k - 1) \subseteq Words
        /\ list[k] \in Words \ first(k - 1) /\ list[k] \in names
    <3>1. 1..k = 1..(k - 1) \cup {k} /\ 1..(k - 1) \subseteq 1..count /\ k \notin 1..(k - 1)
      BY <1>1
    <3>2. QED
      BY <1>1, <3>1
  <2> HIDE DEF first, step
  <2> DEFINE n == list[k]
  <2>3. AllUpdated(N, top, g, Turn(u, n), first(k - 1) \cup {n}, before, after)
    <3>1. n \in Words \ first(k - 1) /\ n \in names
      BY <2>2
    <3> HIDE DEF n
    <3>2. u \in Standing(N, top)
      BY DEF A
    <3>3. QED
      BY <1>13, <2>2, <3>1, <3>2, AllUpdatedOne DEF Turn
  <2>4. QED
    BY <2>1, <2>2, <2>3
<1> HIDE DEF first
<1>14. Keeps(A, good, count, g, step)
  <2>1. \A k \in 1..count : k - 1 \in 0..count /\ k \in 0..count
    BY <1>1
  <2>2. ASSUME NEW k \in 1..count, NEW u \in good[k - 1] PROVE step[<<u, k>>] \in good[k]
    <3>1. u \in A /\ AllUpdated(N, top, g, u, first(k - 1), before, after)
      BY <2>1
    <3>2. step[<<u, k>>] \in A
      BY <1>6, <3>1
    <3>3. AllUpdated(N, top, g, step[<<u, k>>], first(k), before, after)
      BY <1>13, <3>1
    <3> HIDE DEF step
    <3>4. QED
      BY <2>1, <3>2, <3>3
  <2>3. good \in [0..count -> SUBSET A] /\ g \in good[0]
    <3>1. 0 \in 0..count
      BY <1>1
    <3>2. QED
      BY <1>5, <1>12, <3>1
  <2> HIDE DEF good, step
  <2>4. QED
    BY <2>2, <2>3 DEF Keeps
<1> HIDE DEF step
<1>15. folded[1..count] \in A /\ AllUpdated(N, top, g, folded[1..count], first(count), before, after)
  <2>1. folded[1..count] \in good[count]
    <3> HIDE DEF good
    <3>1. QED
      BY <1>1, <1>11, <1>14, FoldKeeps
  <2>2. count \in 0..count
    BY <1>1
  <2>3. QED
    BY <2>1, <2>2
<1>16. first(count) = names
  BY <1>1 DEF first
<1>17. QED
  BY <1>3, <1>15, <1>16 DEF A

-----------------------------------------------------------------------------
(* The messages beside the groups *)

\* The root and its directory change, and nothing else.
RootMoves(N, g, u, own, notice) ==
  /\ u \in Standing(N, {RootPath}) /\ notice \in Notices(N)
  /\ u.root = own /\ \A m \in Words : SameAt(g, u, m)
  /\ u.files[RootPath] = FilesNow(g.files[RootPath], Passing, notice)
  /\ u.tree.dirs[RootPath]
       = ItemsNow(g.tree.dirs[RootPath], g.files[RootPath], Passing, notice)

LEMMA TellRootMoves ==
  ASSUME NEW N \in Nat, NEW g \in Standing(N, {RootPath}), NEW result,
         result.messages \in Numbered(N), result.notice \in Notices(N)
  PROVE  RootMoves(N, g, TellRoot(g, result), result.messages, result.notice)
<1> DEFINE h == [g EXCEPT !.root = result.messages]
           u == Listener(h, RootPath, Passing, result.notice)
<1>1. /\ g \in Groupers(N) /\ RegistryAgrees(g.tree) /\ DOMAIN g.groups \subseteq Words
      /\ DOMAIN g.tree.dirs = DirsOf(DOMAIN g.groups)
      /\ DOMAIN g.files = {RootPath} \cup FilesIn(DOMAIN g.groups)
  BY StandingShape DEF Standing
<1>2. /\ h \in Groupers(N) /\ h.root = result.messages
      /\ h.groups = g.groups /\ h.files = g.files /\ h.tree = g.tree
  BY <1>1 DEF Groupers
<1>3. TellRoot(g, result) = u
  BY DEF TellRoot
<1> HIDE DEF h
<1>4. RootPath \in DOMAIN h.files /\ RootPath \in DOMAIN h.tree.dirs
  BY <1>1, <1>2 DEF DirsOf
<1>5. /\ u \in Groupers(N)
      /\ u.groups = h.groups /\ u.root = h.root /\ u.tree.subdirs = h.tree.subdirs
      /\ u.files = [h.files EXCEPT ![RootPath] = FilesNow(@, Passing, result.notice)]
      /\ u.tree.dirs = [h.tree.dirs EXCEPT
                          ![RootPath] = ItemsNow(@, h.files[RootPath], Passing, result.notice)]
  BY <1>2, <1>4, ListenerProps
<1> HIDE DEF u
<1>6. /\ DOMAIN u.tree.dirs = DOMAIN g.tree.dirs /\ DOMAIN u.files = DOMAIN g.files
      /\ u.groups = g.groups /\ u.tree.subdirs = g.tree.subdirs
  BY <1>2, <1>5
<1>7. RegistryAgrees(u.tree)
  BY <1>1, <1>6 DEF RegistryAgrees
<1>8. u \in Standing(N, {RootPath})
  BY <1>1, <1>5, <1>6, <1>7 DEF Standing
<1>9. ASSUME NEW m \in Words PROVE SameAt(g, u, m)
  <2>1. RootPath \notin PathsOf(m)
    BY OwnPaths
  <2>2. m \in DOMAIN g.groups => PathsOf(m) \subseteq DOMAIN g.files
                                 /\ PathsOf(m) \subseteq DOMAIN g.tree.dirs
    BY StandingShape
  <2>3. QED
    BY <1>2, <1>5, <2>1, <2>2 DEF SameAt
<1>10. /\ u.files[RootPath] = FilesNow(g.files[RootPath], Passing, result.notice)
       /\ u.tree.dirs[RootPath]
            = ItemsNow(g.tree.dirs[RootPath], g.files[RootPath], Passing, result.notice)
  BY <1>2, <1>4, <1>5
<1>11. QED
  BY <1>2, <1>3, <1>5, <1>8, <1>9, <1>10 DEF RootMoves

LEMMA RootStays ==
  ASSUME NEW N \in Nat, NEW g \in Standing(N, {RootPath})
  PROVE  RootMoves(N, g, g, g.root, Source!NoNotice) /\ Source!NoNotice.kind = "none"
<1>1. Source!NoNotice \in Notices(N) /\ Source!NoNotice.kind = "none"
  BY NoneNumbered, NoticeTyped DEF Source!NoNotice
<1>2. QED
  BY <1>1 DEF RootMoves, SameAt, FilesNow, ItemsNow

LEMMA AddToRootMoves ==
  ASSUME NEW N \in Nat, NEW g \in Standing(N, {RootPath}), NEW ms \in Numbered(N)
  PROVE  \E notice \in Notices(N) :
           /\ RootMoves(N, g, AddToRoot(g, ms), More(g.root, ms), notice)
           /\ ToldAdded(notice, g.root, ms)
<1> DEFINE own == g.root
           r == Source!AddMessages(own, ms)
           u == TellRoot(g, r)
           diff == Restrict(ms, DOMAIN ms \ DOMAIN own)
<1>1. own \in Numbered(N)
  BY StandingShape
<1> HIDE DEF own
<1>2. /\ r.messages \in Numbered(N) /\ r.notice \in Notices(N)
      /\ DOMAIN r.messages = DOMAIN own \cup DOMAIN ms
      /\ \A i \in DOMAIN r.messages :
           r.messages[i] = IF i \in DOMAIN own THEN own[i] ELSE ms[i]
      /\ r.notice.old = None /\ r.notice.new = diff
      /\ r.notice.kind = IF diff = None THEN "none" ELSE "new"
  <2>1. MessagesAdded(N, r, own, ms)
    BY <1>1, AddMessagesProps, Zenon
  <2> HIDE DEF r
  <2>2. QED
    BY <2>1, Zenon DEF MessagesAdded
<1> HIDE DEF r
<1>3. Less(ms, own) = diff
  BY DEF Less
<1> HIDE DEF diff
<1>4. ToldAdded(r.notice, own, ms)
  BY <1>2, <1>3 DEF ToldAdded
<1>5. r.messages = More(own, ms)
  <2>1. r.messages = [i \in DOMAIN r.messages |-> r.messages[i]]
    BY <1>2, NumberedProps
  <2>2. QED
    BY <1>2, <2>1 DEF More
<1>6. CASE ms = None
  <2>1. DOMAIN ms = {}
    BY <1>6, NoneIs
  <2>2. AddToRoot(g, ms) = g
    BY <1>6 DEF AddToRoot
  <2>3. own = [i \in DOMAIN own |-> own[i]]
    BY <1>1, NumberedProps
  <2>4. More(own, ms) = own
    BY <2>1, <2>3 DEF More
  <2>5. Less(ms, own) = None
    <3>1. DOMAIN ms \ DOMAIN own \subseteq DOMAIN ms
      OBVIOUS
    <3>2. Less(ms, own) \in Numbered(N) /\ DOMAIN Less(ms, own) = {}
      BY <2>1, <3>1, RestrictNumbered DEF Less
    <3>3. QED
      BY <3>2, NoneIs
  <2>6. QED
    BY <2>2, <2>4, <2>5, RootStays DEF ToldAdded, own, RootMoves
<1>7. CASE ms # None
  <2>1. AddToRoot(g, ms) = u
    BY <1>7 DEF AddToRoot, own, r
  <2>2. RootMoves(N, g, u, r.messages, r.notice)
    BY <1>2, TellRootMoves
  <2> HIDE DEF u
  <2>3. QED
    BY <1>2, <1>4, <1>5, <2>1, <2>2 DEF own
<1>8. QED
  BY <1>6, <1>7

LEMMA RemoveFromRootMoves ==
  ASSUME NEW N \in Nat, NEW g \in Standing(N, {RootPath}), NEW ms \in Numbered(N)
  PROVE  \E notice \in Notices(N) :
           /\ RootMoves(N, g, RemoveFromRoot(g, ms), Less(g.root, ms), notice)
           /\ ToldRemoved(notice, g.root, ms)
<1> DEFINE own == g.root
<1>1. own \in Numbered(N)
  BY StandingShape
<1> HIDE DEF own
<1>2. CASE ms = None
  <2>1. DOMAIN ms = {}
    BY <1>2, NoneIs
  <2>2. own = [i \in DOMAIN own |-> own[i]]
    BY <1>1, NumberedProps
  <2>3. Less(own, ms) = own
    BY <2>1, <2>2 DEF Less, Restrict
  <2>4. RemoveFromRoot(g, ms) = g
    BY <1>2 DEF RemoveFromRoot
  <2>5. QED
    BY <1>2, <2>3, <2>4, RootStays DEF ToldRemoved, own, RootMoves
<1>3. CASE ms # None
  <2> DEFINE r == Source!RemoveGiven(own, ms)
             u == TellRoot(g, r)
  <2>1. /\ r.messages = Less(own, ms) /\ r.messages \in Numbered(N) /\ r.notice \in Notices(N)
        /\ ToldRemoved(r.notice, own, ms)
    BY <1>1, <1>3, RemoveGivenProps DEF ToldRemoved, Less
  <2>2. RemoveFromRoot(g, ms) = u
    BY <1>3 DEF RemoveFromRoot, own
  <2> HIDE DEF r
  <2>3. RootMoves(N, g, u, r.messages, r.notice)
    BY <2>1, TellRootMoves
  <2> HIDE DEF u
  <2>4. QED
    BY <2>1, <2>2, <2>3 DEF own
<1>4. QED
  BY <1>2, <1>3

-----------------------------------------------------------------------------
(* Messages are grouped *)

LEMMA ImageFinite ==
  ASSUME NEW S, IsFiniteSet(S), NEW f, DOMAIN f = S
  PROVE  IsFiniteSet({f[x] : x \in S})
<1> DEFINE T == {f[x] : x \in S}
           h == [x \in S |-> f[x]]
<1>1. h \in Surjection(S, T)
  BY DEF Surjection
<1>2. QED
  BY <1>1, FS_Surjection, Zenon

LEMMA KeysFinite ==
  ASSUME NEW N \in Nat, NEW ms \in Numbered(N)
  PROVE  /\ IsFiniteSet(KeysIn(ms)) /\ KeysIn(ms) \subseteq DOMAIN DirOf
         /\ \A i \in DOMAIN ms : KeysOf[ms[i]] \subseteq KeysIn(ms)
<1> DEFINE f == [i \in DOMAIN ms |-> KeysOf[ms[i]]]
           S == {f[i] : i \in DOMAIN ms}
<1>1. ms \in [DOMAIN ms -> Contents] /\ IsFiniteSet(DOMAIN ms)
  BY NumberedProps
<1>2. IsFiniteSet(S)
  BY <1>1, ImageFinite
<1>3. \A T \in S : IsFiniteSet(T)
  BY <1>1, GroupsAssumption
<1>4. KeysIn(ms) = UNION S
  BY DEF KeysIn
<1>5. KeysIn(ms) \subseteq DOMAIN DirOf
  <2>1. \A c \in Contents : KeysOf[c] \subseteq DOMAIN DirOf
    BY GroupsAssumption DEF Keys
  <2>2. QED
    BY <1>1, <2>1 DEF KeysIn
<1>6. IsFiniteSet(UNION S)
  <2> HIDE DEF S
  <2>1. QED
    BY <1>2, <1>3, FS_UNION, Zenon
<1>7. QED
  BY <1>4, <1>5, <1>6 DEF KeysIn

LEMMA OfKeyProps ==
  ASSUME NEW N \in Nat, NEW ms \in Numbered(N), NEW k
  PROVE  /\ OfKey(ms, k) \in Numbered(N)
         /\ DOMAIN OfKey(ms, k) = {i \in DOMAIN ms : k \in KeysOf[ms[i]]}
         /\ \A i \in DOMAIN OfKey(ms, k) : OfKey(ms, k)[i] = ms[i]
<1> DEFINE S == {i \in DOMAIN ms : k \in KeysOf[ms[i]]}
<1>1. OfKey(ms, k) = Restrict(ms, S)
  BY DEF OfKey, RestrictValues
<1> HIDE DEF S
<1>2. S \subseteq DOMAIN ms
  BY DEF S
<1>3. QED
  BY <1>1, <1>2, RestrictNumbered DEF S

LEMMA RootMessagesNumbered ==
  ASSUME NEW N \in Nat, NEW ms \in Numbered(N)
  PROVE  /\ RootMessages(ms) \in Numbered(N)
         /\ DOMAIN RootMessages(ms) = {i \in DOMAIN ms : ms[i] \in InRoot}
         /\ \A i \in DOMAIN RootMessages(ms) : RootMessages(ms)[i] = ms[i]
<1> DEFINE S == {i \in DOMAIN ms : ms[i] \in InRoot}
<1>1. RootMessages(ms) = Restrict(ms, S)
  BY DEF RootMessages, RestrictValues
<1> HIDE DEF S
<1>2. S \subseteq DOMAIN ms
  BY DEF S
<1>3. QED
  BY <1>1, <1>2, RestrictNumbered DEF S

LEMMA GroupedProps ==
  ASSUME NEW N \in Nat, NEW ms \in Numbered(N)
  PROVE  LET grouped == Grouped(ms)
         IN  /\ DOMAIN grouped \subseteq Words /\ IsFiniteSet(DOMAIN grouped)
             /\ DOMAIN grouped = {DirOf[k] : k \in KeysIn(ms)}
             /\ \A n \in DOMAIN grouped : \E k \in KeysIn(ms) :
                  DirOf[k] = n /\ grouped[n] = OfKey(ms, k)
             /\ \A n : GroupIn(grouped, n) \in Numbered(N)
<1> DEFINE grouped == Grouped(ms)
           f == [k \in KeysIn(ms) |-> DirOf[k]]
<1>1. IsFiniteSet(KeysIn(ms)) /\ KeysIn(ms) \subseteq DOMAIN DirOf
  BY KeysFinite
<1>2. DOMAIN grouped = {DirOf[k] : k \in KeysIn(ms)}
  BY DEF Grouped
<1>3. IsFiniteSet({f[k] : k \in KeysIn(ms)})
  BY <1>1, ImageFinite
<1>4. {f[k] : k \in KeysIn(ms)} = {DirOf[k] : k \in KeysIn(ms)}
  OBVIOUS
<1>5. DOMAIN grouped \subseteq Words
  BY <1>1, <1>2 DEF Words, Range
<1>6. ASSUME NEW n \in DOMAIN grouped
      PROVE  \E k \in KeysIn(ms) : DirOf[k] = n /\ grouped[n] = OfKey(ms, k)
  <2> DEFINE key == CHOOSE k \in KeysIn(ms) : DirOf[k] = n
  <2>1. key \in KeysIn(ms) /\ DirOf[key] = n
    BY <1>2
  <2>2. grouped[n] = OfKey(ms, key)
    BY <1>2 DEF Grouped
  <2> HIDE DEF key, grouped
  <2>3. QED
    BY <2>1, <2>2
<1> HIDE DEF grouped
<1>7. ASSUME NEW n PROVE GroupIn(grouped, n) \in Numbered(N)
  <2>1. CASE n \in DOMAIN grouped
    <3>1. PICK k \in KeysIn(ms) : grouped[n] = OfKey(ms, k)
      BY <1>6, <2>1
    <3>2. OfKey(ms, k) \in Numbered(N)
      BY OfKeyProps, Zenon
    <3>3. QED
      BY <2>1, <3>1, <3>2 DEF GroupIn
  <2>2. CASE n \notin DOMAIN grouped
    <3>1. None \in Numbered(N)
      BY NoneNumbered, Zenon
    <3>2. QED
      BY <2>2, <3>1 DEF GroupIn
  <2>3. QED
    BY <2>1, <2>2
<1>8. QED
  BY <1>2, <1>3, <1>4, <1>5, <1>6, <1>7 DEF grouped

-----------------------------------------------------------------------------
(* The callbacks *)

\* Nothing is grouped.
LEMMA NoGroups ==
  ASSUME NEW N \in Nat, NEW n
  PROVE  GroupIn(None, n) = None /\ GroupIn(None, n) \in Numbered(N)
BY NoneNumbered DEF GroupIn

\* New messages: those beside the groups first, then those of the groups.
NewDone(N, g, u, notice) ==
  LET passing == Dir!Matching(notice.new, Passing)
      grouped == Grouped(passing)
  IN  \E r \in Standing(N, {RootPath}), told \in Notices(N) :
        /\ RootMoves(N, g, r, More(g.root, RootMessages(passing)), told)
        /\ ToldAdded(told, g.root, RootMessages(passing))
        /\ AllUpdated(N, {RootPath}, r, u, DOMAIN grouped, None, grouped)

RemovedDone(N, g, u, notice) ==
  LET grouped == Grouped(notice.old)
  IN  \E r \in Standing(N, {RootPath}), told \in Notices(N) :
        /\ RootMoves(N, g, r, Less(g.root, RootMessages(notice.old)), told)
        /\ ToldRemoved(told, g.root, RootMessages(notice.old))
        /\ AllUpdated(N, {RootPath}, r, u, DOMAIN grouped, grouped, None)

EditedDone(N, g, u, notice) ==
  LET before == Grouped(notice.old)
      after  == Grouped(notice.new)
  IN  \E v \in Standing(N, {RootPath}) :
        /\ AllUpdated(N, {RootPath}, g, v, DOMAIN before, before, after)
        /\ AllUpdated(N, {RootPath}, v, u, DOMAIN after \ DOMAIN before, None, after)

LEMMA UpdateNewProps ==
  ASSUME NEW N \in Nat, NEW g \in Standing(N, {RootPath}), NEW notice \in Notices(N)
  PROVE  LET u == UpdateNew(g, notice)
         IN  u \in Standing(N, {RootPath}) /\ NewDone(N, g, u, notice)
<1> DEFINE passing == Dir!Matching(notice.new, Passing)
           grouped == Grouped(passing)
           own     == RootMessages(passing)
           r       == AddToRoot(g, own)
           u       == UpdateGroups(r, DOMAIN grouped, None, grouped)
<1>1. UpdateNew(g, notice) = u
  BY DEF UpdateNew
<1>2. passing \in Numbered(N)
  BY MatchingNumbered DEF Notices
<1> HIDE DEF passing
<1>3. own \in Numbered(N)
  BY <1>2, RootMessagesNumbered
<1>4. /\ DOMAIN grouped \subseteq Words /\ IsFiniteSet(DOMAIN grouped)
      /\ \A n : GroupIn(grouped, n) \in Numbered(N)
  BY <1>2, GroupedProps
<1> HIDE DEF grouped, own
<1>5. PICK told \in Notices(N) : /\ RootMoves(N, g, r, More(g.root, own), told)
                                 /\ ToldAdded(told, g.root, own)
  BY <1>3, AddToRootMoves
<1> HIDE DEF r
<1>6. r \in Standing(N, {RootPath})
  BY <1>5 DEF RootMoves
<1>7. \A n \in DOMAIN grouped :
        GroupIn(None, n) \in Numbered(N) /\ GroupIn(grouped, n) \in Numbered(N)
  BY <1>4, NoGroups
<1>8. /\ u \in Standing(N, {RootPath})
      /\ AllUpdated(N, {RootPath}, r, u, DOMAIN grouped, None, grouped)
  BY <1>4, <1>6, <1>7, UpdateGroupsProps
<1> HIDE DEF u
<1>9. QED
  BY <1>1, <1>5, <1>6, <1>8 DEF NewDone, grouped, own, passing

LEMMA UpdateRemovedProps ==
  ASSUME NEW N \in Nat, NEW g \in Standing(N, {RootPath}), NEW notice \in Notices(N)
  PROVE  LET u == UpdateRemoved(g, notice)
         IN  u \in Standing(N, {RootPath}) /\ RemovedDone(N, g, u, notice)
<1> DEFINE grouped == Grouped(notice.old)
           own     == RootMessages(notice.old)
           r       == RemoveFromRoot(g, own)
           u       == UpdateGroups(r, DOMAIN grouped, grouped, None)
<1>1. UpdateRemoved(g, notice) = u
  BY DEF UpdateRemoved
<1>2. notice.old \in Numbered(N)
  BY DEF Notices
<1>3. own \in Numbered(N)
  BY <1>2, RootMessagesNumbered
<1>4. /\ DOMAIN grouped \subseteq Words /\ IsFiniteSet(DOMAIN grouped)
      /\ \A n : GroupIn(grouped, n) \in Numbered(N)
  BY <1>2, GroupedProps
<1> HIDE DEF grouped, own
<1>5. PICK told \in Notices(N) : /\ RootMoves(N, g, r, Less(g.root, own), told)
                                 /\ ToldRemoved(told, g.root, own)
  BY <1>3, RemoveFromRootMoves
<1> HIDE DEF r
<1>6. r \in Standing(N, {RootPath})
  BY <1>5 DEF RootMoves
<1>7. \A n \in DOMAIN grouped :
        GroupIn(None, n) \in Numbered(N) /\ GroupIn(grouped, n) \in Numbered(N)
  BY <1>4, NoGroups
<1>8. /\ u \in Standing(N, {RootPath})
      /\ AllUpdated(N, {RootPath}, r, u, DOMAIN grouped, grouped, None)
  BY <1>4, <1>6, <1>7, UpdateGroupsProps
<1> HIDE DEF u
<1>9. QED
  BY <1>1, <1>5, <1>6, <1>8 DEF RemovedDone, grouped, own

LEMMA UpdateEditedProps ==
  ASSUME NEW N \in Nat, NEW g \in Standing(N, {RootPath}), NEW notice \in Notices(N)
  PROVE  LET u == UpdateEdited(g, notice)
         IN  u \in Standing(N, {RootPath}) /\ EditedDone(N, g, u, notice)
<1> DEFINE before == Grouped(notice.old)
           after  == Grouped(notice.new)
           others == DOMAIN after \ DOMAIN before
           v      == UpdateGroups(g, DOMAIN before, before, after)
           u      == UpdateGroups(v, others, None, after)
<1>1. UpdateEdited(g, notice) = u
  BY DEF UpdateEdited, GroupsBefore
<1>2. notice.old \in Numbered(N) /\ notice.new \in Numbered(N)
  BY DEF Notices
<1>3. /\ DOMAIN before \subseteq Words /\ IsFiniteSet(DOMAIN before)
      /\ \A n : GroupIn(before, n) \in Numbered(N)
  BY <1>2, GroupedProps
<1>4. /\ DOMAIN after \subseteq Words /\ IsFiniteSet(DOMAIN after)
      /\ \A n : GroupIn(after, n) \in Numbered(N)
  BY <1>2, GroupedProps
<1> HIDE DEF before, after
<1>5. IsFiniteSet(others) /\ others \subseteq Words
  <2>1. others \in SUBSET DOMAIN after
    OBVIOUS
  <2> HIDE DEF others
  <2>2. IsFiniteSet(others)
    BY <1>4, <2>1, FS_Subset, Zenon
  <2>3. QED
    BY <1>4, <2>1, <2>2
<1>6. /\ v \in Standing(N, {RootPath})
      /\ AllUpdated(N, {RootPath}, g, v, DOMAIN before, before, after)
  BY <1>3, <1>4, UpdateGroupsProps
<1> HIDE DEF v, others
<1>7. \A n \in others : GroupIn(None, n) \in Numbered(N) /\ GroupIn(after, n) \in Numbered(N)
  BY <1>4, NoGroups
<1>8. /\ u \in Standing(N, {RootPath})
      /\ AllUpdated(N, {RootPath}, v, u, others, None, after)
  BY <1>5, <1>6, <1>7, UpdateGroupsProps
<1> HIDE DEF u
<1>9. QED
  BY <1>1, <1>6, <1>8 DEF EditedDone, others, before, after

\* What the grouper does with a notice of its source.
LEMMA UpdatedProps ==
  ASSUME NEW N \in Nat, NEW g \in Standing(N, {RootPath}), NEW notice \in Notices(N)
  PROVE  LET u == Updated(g, notice)
         IN  /\ u \in Standing(N, {RootPath})
             /\ notice.kind = "none" => u = g
             /\ notice.kind = "new" => NewDone(N, g, u, notice)
             /\ notice.kind = "removed" => RemovedDone(N, g, u, notice)
             /\ notice.kind = "edited" => EditedDone(N, g, u, notice)
<1> DEFINE u == Updated(g, notice)
<1>1. notice.kind \in {"none", "new", "removed", "edited"}
  BY DEF Notices
<1>2. CASE notice.kind = "none"
  BY <1>2 DEF Updated
<1>3. CASE notice.kind = "new"
  <2>1. u = UpdateNew(g, notice)
    BY <1>3 DEF Updated
  <2> HIDE DEF u
  <2>2. QED
    BY <1>3, <2>1, UpdateNewProps DEF u
<1>4. CASE notice.kind = "removed"
  <2>1. u = UpdateRemoved(g, notice)
    BY <1>4 DEF Updated
  <2> HIDE DEF u
  <2>2. QED
    BY <1>4, <2>1, UpdateRemovedProps DEF u
<1>5. CASE notice.kind = "edited"
  <2>1. u = UpdateEdited(g, notice)
    BY <1>5 DEF Updated
  <2> HIDE DEF u
  <2>2. QED
    BY <1>5, <2>1, UpdateEditedProps DEF u
<1>6. QED
  BY <1>1, <1>2, <1>3, <1>4, <1>5

-----------------------------------------------------------------------------
(* The directories of the messages that are there at first *)

LEMMA NothingStands ==
  ASSUME NEW N \in Nat
  PROVE  /\ Nothing \in Standing(N, {}) /\ DOMAIN Nothing.groups = {}
         /\ Nothing.root = None /\ Nothing.tree.dirs[RootPath] = <<>>
<1> DEFINE t == Nothing.tree
           none == None
<1>1. /\ Nothing.groups = none /\ Nothing.root = none /\ Nothing.files = none
      /\ t = NewTree /\ Nothing = [groups |-> none, root |-> none, files |-> none, tree |-> t]
  BY DEF Nothing
<1>2. /\ t.dirs = [p \in {RootPath} |-> <<>>] /\ t.subdirs = [p \in {RootPath} |-> <<>>]
      /\ t.shown = {} /\ t.events = <<>>
      /\ t = [dirs |-> t.dirs, subdirs |-> t.subdirs, shown |-> t.shown, events |-> t.events]
  BY <1>1 DEF NewTree
<1> HIDE DEF t
<1>3. RootPath \in Paths
  BY DEF RootPath, Paths
<1>4. /\ t.dirs \in UNION {[S -> Seq(Files)] : S \in SUBSET Paths}
      /\ t.subdirs \in UNION {[S -> Seq(Paths)] : S \in SUBSET Paths}
      /\ t.events \in Seq(Events)
  <2>1. t.dirs \in [{RootPath} -> Seq(Files)] /\ t.subdirs \in [{RootPath} -> Seq(Paths)]
    BY <1>2
  <2>2. {RootPath} \in SUBSET Paths
    BY <1>3
  <2>3. <<>> \in Seq(Events)
    OBVIOUS
  <2>4. QED
    BY <1>2, <2>1, <2>2, <2>3
<1>5. t \in Trees
  BY <1>2, <1>4, Zenon DEF Trees
<1>6. none \in Numbered(N) /\ DOMAIN none = {} /\ none \in [{} -> Numbered(N)]
  <2>1. none \in Numbered(N) /\ DOMAIN none = {}
    BY NoneNumbered, Zenon
  <2>2. <<>> \in [{} -> Numbered(N)]
    OBVIOUS
  <2>3. none = <<>>
    BY DEF None, Source!Empty
  <2>4. QED
    BY <2>1, <2>2, <2>3, Zenon
<1> HIDE DEF none
<1>7. Nothing \in Groupers(N)
  BY <1>1, <1>5, <1>6 DEF Groupers
<1>8. RegistryAgrees(t)
  <2>1. DOMAIN t.subdirs = {RootPath} /\ DOMAIN t.dirs = {RootPath}
    BY <1>2
  <2>2. IsInjective(t.subdirs[RootPath]) /\ Range(t.subdirs[RootPath]) = {}
    BY <1>2 DEF IsInjective, Range
  <2>3. QED
    BY <2>1, <2>2 DEF RegistryAgrees
<1>9. QED
  BY <1>1, <1>2, <1>6, <1>7, <1>8 DEF Standing, DirsOf, FilesIn, none, t

\* These groups have been created, and no others.
AllFresh(u, names, grouped) ==
  /\ DOMAIN u.groups = names
  /\ u.root = None /\ u.tree.dirs[RootPath] = <<>>
  /\ \A n \in names : FreshAt(u, n, grouped[n])

LEMMA FreshOne ==
  ASSUME NEW N \in Nat, NEW u \in Standing(N, {}), NEW names, names \subseteq Words,
         NEW grouped, AllFresh(u, names, grouped), NEW n \in Words \ names,
         grouped[n] \in Numbered(N)
  PROVE  LET v == AddDir(u, n, grouped[n])
         IN  v \in Standing(N, {}) /\ AllFresh(v, names \cup {n}, grouped)
<1> DEFINE own == grouped[n]
           v == AddDir(u, n, own)
<1>1. own \in Numbered(N)
  OBVIOUS
<1> HIDE DEF own
<1>2. /\ v \in Standing(N, {}) /\ SameBeside(u, v, {})
      /\ \A m \in Words \ {n} : SameAt(u, v, m)
      /\ FreshAt(v, n, own) /\ DOMAIN v.groups = DOMAIN u.groups \cup {n}
  BY <1>1, AddDirStands
<1> HIDE DEF v
<1>3. ASSUME NEW m \in names PROVE FreshAt(v, m, grouped[m])
  <2>1. FreshAt(u, m, grouped[m]) /\ SameAt(u, v, m)
    BY <1>2 DEF AllFresh
  <2>2. \A p \in Range(Parts) : <<m>> \o p \in PathsOf(m)
    BY DEF PathsOf
  <2>3. QED
    BY <2>1, <2>2 DEF FreshAt, SameAt
<1>4. QED
  BY <1>2, <1>3 DEF AllFresh, SameBeside, v, own

LEMMA AllFreshProps ==
  ASSUME NEW N \in Nat, NEW grouped, DOMAIN grouped \subseteq Words, IsFiniteSet(DOMAIN grouped),
         \A n \in DOMAIN grouped : grouped[n] \in Numbered(N)
  PROVE  LET u == FoldLeft(LAMBDA acc, n : AddDir(acc, n, grouped[n]),
                           Nothing, SetToSeq(DOMAIN grouped))
         IN  u \in Standing(N, {}) /\ AllFresh(u, DOMAIN grouped, grouped)
<1> DEFINE names == DOMAIN grouped
           list  == SetToSeq(names)
           count == Cardinality(names)
           g     == Nothing
           A     == Standing(N, {})
           Turn(acc, n) == AddDir(acc, n, grouped[n])
           step == [p \in A \X (1..count) |-> Turn(p[1], list[p[2]])]
           Is(f, T) == f[T] = IF T = {} THEN g ELSE Turn(f[T \ {Max(T)}], list[Max(T)])
           Equation(f) ==
             f = [T \in SUBSET (1..count) |->
                    IF T = {} THEN g ELSE Turn(f[T \ {Max(T)}], list[Max(T)])]
           folded == CHOOSE f : Equation(f)
<1>1. /\ count \in Nat /\ DOMAIN list = 1..count /\ \A k \in 1..count : list[k] \in names
      /\ \A k, l \in 1..count : list[k] = list[l] => k = l
      /\ \A n \in names : \E k \in 1..count : list[k] = n
  BY EachOnce
<1>2. FoldLeft(LAMBDA acc, n : Turn(acc, n), g, list) = folded[1..count]
  BY <1>1 DEF FoldLeft, MapThenFoldSet
<1>3. g \in A /\ AllFresh(g, {}, grouped)
  BY NothingStands DEF AllFresh
<1> HIDE DEF list, count, g, names
<1>4. ASSUME NEW u \in A, NEW k \in 1..count PROVE Turn(u, list[k]) \in A
  <2>1. list[k] \in Words /\ grouped[list[k]] \in Numbered(N)
    BY <1>1 DEF names
  <2> DEFINE own == grouped[list[k]]
             n == list[k]
  <2> HIDE DEF own, n
  <2>2. AddDir(u, n, own) \in A
    BY <2>1, AddDirStands DEF own, n
  <2>3. QED
    BY <2>2 DEF own, n
<1> HIDE DEF A, Turn
<1>5. step \in [A \X (1..count) -> A]
  BY <1>4
<1>6. PICK iter \in [SUBSET (1..count) -> A] : Folds(iter, count, g, step)
  BY <1>1, <1>3, <1>5, FoldDefined
<1>7. ASSUME NEW T \in SUBSET (1..count) PROVE Is(iter, T)
  <2>1. T # {} => Max(T) \in 1..count /\ iter[T \ {Max(T)}] \in A
    BY <1>1, MaxOfSome
  <2>2. QED
    BY <1>6, <2>1 DEF Folds
<1>8. Equation(iter)
  BY <1>7
<1>9. Equation(folded)
  <2> HIDE DEF Equation
  <2>1. QED
    BY <1>8, Zenon
<1> HIDE DEF folded
<1>10. StepsIn(A, folded, count, g, step)
  BY <1>1, <1>9, FirstNumbers, ZenonT(60) DEF StepsIn
<1> HIDE DEF Equation
<1> DEFINE first(k) == {list[l] : l \in 1..k}
           good == [k \in 0..count |-> {u \in A : AllFresh(u, first(k), grouped)}]
<1>11. AllFresh(g, first(0), grouped)
  <2>1. first(0) = {}
    OBVIOUS
  <2> HIDE DEF first
  <2>2. QED
    BY <1>3, <2>1
<1>12. ASSUME NEW k \in 1..count, NEW u \in A, AllFresh(u, first(k - 1), grouped)
       PROVE  AllFresh(step[<<u, k>>], first(k), grouped)
  <2>1. step[<<u, k>>] = Turn(u, list[k])
    BY <1>12
  <2>2. /\ first(k) = first(k - 1) \cup {list[k]} /\ first(k - 1) \subseteq Words
        /\ list[k] \in Words \ first(k - 1) /\ list[k] \in names
    <3>1. 1..k = 1..(k - 1) \cup {k} /\ 1..(k - 1) \subseteq 1..count /\ k \notin 1..(k - 1)
      BY <1>1
    <3>2. QED
      BY <1>1, <3>1 DEF names
  <2> HIDE DEF first, step
  <2> DEFINE n == list[k]
  <2>3. AllFresh(Turn(u, n), first(k - 1) \cup {n}, grouped)
    <3>1. n \in Words \ first(k - 1) /\ grouped[n] \in Numbered(N)
      BY <2>2 DEF names
    <3> HIDE DEF n
    <3>2. u \in Standing(N, {})
      BY DEF A
    <3>3. QED
      BY <1>12, <2>2, <3>1, <3>2, FreshOne DEF Turn
  <2>4. QED
    BY <2>1, <2>2, <2>3
<1> HIDE DEF first
<1>13. Keeps(A, good, count, g, step)
  <2>1. \A k \in 1..count : k - 1 \in 0..count /\ k \in 0..count
    BY <1>1
  <2>2. ASSUME NEW k \in 1..count, NEW u \in good[k - 1] PROVE step[<<u, k>>] \in good[k]
    <3>1. u \in A /\ AllFresh(u, first(k - 1), grouped)
      BY <2>1
    <3>2. step[<<u, k>>] \in A
      BY <1>5, <3>1
    <3>3. AllFresh(step[<<u, k>>], first(k), grouped)
      BY <1>12, <3>1
    <3> HIDE DEF step
    <3>4. QED
      BY <2>1, <3>2, <3>3
  <2>3. good \in [0..count -> SUBSET A] /\ g \in good[0]
    <3>1. 0 \in 0..count
      BY <1>1
    <3>2. QED
      BY <1>3, <1>11, <3>1
  <2> HIDE DEF good, step
  <2>4. QED
    BY <2>2, <2>3 DEF Keeps
<1> HIDE DEF step
<1>14. folded[1..count] \in A /\ AllFresh(folded[1..count], first(count), grouped)
  <2>1. folded[1..count] \in good[count]
    <3> HIDE DEF good
    <3>1. QED
      BY <1>1, <1>10, <1>13, FoldKeeps
  <2>2. count \in 0..count
    BY <1>1
  <2>3. QED
    BY <2>1, <2>2
<1>15. first(count) = names
  BY <1>1 DEF first
<1>16. FoldLeft(LAMBDA acc, n : AddDir(acc, n, grouped[n]), Nothing, SetToSeq(DOMAIN grouped))
         = folded[1..count]
  BY <1>2 DEF Turn, g, list, names
<1>17. QED
  BY <1>14, <1>15, <1>16 DEF A, names

\* What has been produced for some messages.
LEMMA ProducedProps ==
  ASSUME NEW N \in Nat, NEW ms \in Numbered(N)
  PROVE  LET u       == Produced(ms)
             passing == Dir!Matching(ms, Passing)
             grouped == Grouped(passing)
             own     == RootMessages(passing)
         IN  /\ u \in Standing(N, {RootPath})
             /\ DOMAIN u.groups = DOMAIN grouped
             /\ \A n \in DOMAIN grouped : FreshAt(u, n, grouped[n])
             /\ u.root = own /\ u.files[RootPath] = own
             /\ u.tree.dirs[RootPath] = Dir!FilesOf(own)
<1> DEFINE u       == Produced(ms)
           passing == Dir!Matching(ms, Passing)
           grouped == Grouped(passing)
           own     == RootMessages(passing)
           g       == FoldLeft(LAMBDA acc, n : AddDir(acc, n, grouped[n]),
                               Nothing, SetToSeq(DOMAIN grouped))
           fs      == [p \in DOMAIN g.files \cup {RootPath} |->
                         IF p = RootPath THEN own ELSE g.files[p]]
           t       == PutFiles(g.tree, RootPath, own)
<1>1. u = ProduceRoot(g, own)
  BY DEF Produced
<1>2. passing \in Numbered(N)
  BY MatchingNumbered
<1> HIDE DEF passing
<1>3. own \in Numbered(N) /\ Collection(own)
  BY <1>2, RootMessagesNumbered, NumberedProps
<1>4. /\ DOMAIN grouped \subseteq Words /\ IsFiniteSet(DOMAIN grouped)
      /\ \A n \in DOMAIN grouped : grouped[n] \in Numbered(N)
  <2>1. /\ DOMAIN grouped \subseteq Words /\ IsFiniteSet(DOMAIN grouped)
        /\ \A n : GroupIn(grouped, n) \in Numbered(N)
    BY <1>2, GroupedProps
  <2> HIDE DEF grouped
  <2>2. QED
    BY <2>1 DEF GroupIn
<1> HIDE DEF grouped, own
<1>5. g \in Standing(N, {}) /\ AllFresh(g, DOMAIN grouped, grouped)
  BY <1>4, AllFreshProps
<1> HIDE DEF g
<1>6. /\ g \in Groupers(N) /\ RegistryAgrees(g.tree) /\ DOMAIN g.groups \subseteq Words
      /\ DOMAIN g.tree.dirs = DirsOf(DOMAIN g.groups) /\ DOMAIN g.files = FilesIn(DOMAIN g.groups)
      /\ RootPath \in DOMAIN g.tree.dirs
      /\ g.files \in [DOMAIN g.files -> Numbered(N)] /\ DOMAIN g.files \subseteq Paths
      /\ g.tree \in Trees
  BY <1>5, StandingShape, GrouperShape DEF Standing
<1>7. /\ t \in Trees /\ t.subdirs = g.tree.subdirs
      /\ t.dirs = [g.tree.dirs EXCEPT ![RootPath] = Dir!FilesOf(own)]
  BY <1>3, <1>5, <1>6, PutFilesProps DEF AllFresh
<1>8. u = [g EXCEPT !.root = own, !.files = fs, !.tree = t]
  BY <1>1 DEF ProduceRoot
<1>9. fs \in UNION {[S -> Numbered(N)] : S \in SUBSET Paths}
  <2>1. fs \in [DOMAIN g.files \cup {RootPath} -> Numbered(N)]
    BY <1>3, <1>6
  <2>2. RootPath \in Paths
    BY DEF RootPath, Paths
  <2>3. DOMAIN g.files \cup {RootPath} \in SUBSET Paths
    BY <1>6, <2>2
  <2> HIDE DEF fs
  <2>4. QED
    BY <2>1, <2>3
<1>10. /\ DOMAIN fs = {RootPath} \cup DOMAIN g.files /\ fs[RootPath] = own
       /\ \A p \in DOMAIN g.files \ {RootPath} : fs[p] = g.files[p]
  OBVIOUS
<1> HIDE DEF t, fs, u
<1>11. /\ u \in Groupers(N) /\ u.groups = g.groups /\ u.root = own /\ u.files = fs
       /\ u.tree = t
  BY <1>3, <1>6, <1>7, <1>8, <1>9 DEF Groupers
<1>12. RegistryAgrees(u.tree) /\ DOMAIN u.tree.dirs = DOMAIN g.tree.dirs
  BY <1>6, <1>7, <1>11 DEF RegistryAgrees
<1>13. u \in Standing(N, {RootPath})
  BY <1>6, <1>10, <1>11, <1>12 DEF Standing
<1>14. ASSUME NEW n \in DOMAIN grouped PROVE FreshAt(u, n, grouped[n])
  <2>1. FreshAt(g, n, grouped[n]) /\ n \in Words /\ n \in DOMAIN g.groups
    BY <1>4, <1>5 DEF AllFresh
  <2>2. \A p \in Range(Parts) : /\ <<n>> \o p \in DOMAIN g.files \ {RootPath}
                                /\ <<n>> \o p \in DOMAIN g.tree.dirs \ {RootPath}
    <3>1. \A p \in Range(Parts) : <<n>> \o p \in PathsOf(n)
      BY DEF PathsOf
    <3>2. RootPath \notin PathsOf(n)
      BY <2>1, OwnPaths
    <3>3. PathsOf(n) \subseteq DOMAIN g.files /\ PathsOf(n) \subseteq DOMAIN g.tree.dirs
      BY <1>5, <2>1, StandingShape
    <3>4. QED
      BY <3>1, <3>2, <3>3
  <2>3. QED
    BY <1>6, <1>7, <1>10, <1>11, <2>1, <2>2 DEF FreshAt
<1>15. DOMAIN u.groups = DOMAIN grouped
  BY <1>5, <1>11 DEF AllFresh
<1>16. u.files[RootPath] = own /\ u.tree.dirs[RootPath] = Dir!FilesOf(own)
  BY <1>6, <1>7, <1>10, <1>11
<1>17. QED
  BY <1>11, <1>13, <1>14, <1>15, <1>16 DEF u, own, grouped, passing

-----------------------------------------------------------------------------
(* The file system that follows the events *)

Sights(D, V) ==
  {s \in [seen : UNION {[S -> SUBSET V] : S \in SUBSET D}, fresh : SUBSET D, twice : BOOLEAN] :
     s.fresh \subseteq DOMAIN s.seen}

\* One event leaves nothing fresh that is not seen.
LEMMA SeeTyped ==
  ASSUME NEW D, NEW V, Things \subseteq D, Things \subseteq V,
         NEW s \in Sights(D, V), NEW event \in Events
  PROVE  See(s, event) \in Sights(D, V)
<1> DEFINE dir   == event.sender
           items == Range(event.items)
           known == dir \in DOMAIN s.seen \ s.fresh
           Seens == UNION {[S -> SUBSET V] : S \in SUBSET D}
           named == {f \in s.seen[dir] : \E i \in items : i.id = f.id}
           kind  == event.kind
           left  == {p \in DOMAIN s.seen : \A d \in items : ~IsPrefix(d, p)}
           u     == See(s, event)
<1>1. /\ s.seen \in [DOMAIN s.seen -> SUBSET V] /\ DOMAIN s.seen \subseteq D
      /\ s.fresh \subseteq DOMAIN s.seen /\ s.twice \in BOOLEAN
      /\ s = [seen |-> s.seen, fresh |-> s.fresh, twice |-> s.twice]
  BY DEF Sights
<1>2. items \subseteq Things
  <2>1. event.items \in Seq(Things)
    BY DEF Events
  <2>2. QED
    BY <2>1 DEF Range
<1> DEFINE files1 == [s.seen EXCEPT ![dir] = @ \cup items]
           files2 == [s.seen EXCEPT ![dir] = (@ \ named) \cup items]
           files3 == [s.seen EXCEPT ![dir] = @ \ named]
           dirs1  == [p \in DOMAIN s.seen \cup items |->
                        IF p \in items THEN {} ELSE s.seen[p]]
           dirs2  == Restrict(s.seen, left)
<1>3. \/ u = [s EXCEPT !.twice = @ \/ named # {}, !.seen[dir] = @ \cup items] /\ known
      \/ u = [s EXCEPT !.seen[dir] = (@ \ named) \cup items] /\ known
      \/ u = [s EXCEPT !.seen[dir] = @ \ named] /\ known
      \/ u = [s EXCEPT !.twice = @ \/ items \cap DOMAIN s.seen # {},
                       !.fresh = @ \cup items,
                       !.seen  = [p \in DOMAIN @ \cup items |->
                                    IF p \in items THEN {} ELSE @[p]]]
      \/ u = [s EXCEPT !.seen = Restrict(@, left), !.fresh = @ \cap left]
      \/ u = s
  <2>1. CASE kind = "newItems" /\ known
    BY <2>1 DEF See
  <2>2. CASE kind = "updatedItems" /\ known
    BY <2>2 DEF See
  <2>3. CASE kind = "removedItems" /\ known
    BY <2>3 DEF See
  <2>4. CASE kind = "newDirs" /\ known
    BY <2>4 DEF See
  <2>5. CASE kind = "removedDirs"
    BY <2>5 DEF See
  <2>6. CASE /\ ~(kind = "newItems" /\ known) /\ ~(kind = "updatedItems" /\ known)
             /\ ~(kind = "removedItems" /\ known) /\ ~(kind = "newDirs" /\ known)
             /\ kind # "removedDirs"
    BY <2>6 DEF See
  <2>7. QED
    BY <2>1, <2>2, <2>3, <2>4, <2>5, <2>6
<1> SUFFICES u \in Sights(D, V)
  OBVIOUS
<1> HIDE DEF u
<1>4. \/ u = [s EXCEPT !.twice = s.twice \/ named # {}, !.seen = files1] /\ known
      \/ u = [s EXCEPT !.seen = files2] /\ known
      \/ u = [s EXCEPT !.seen = files3] /\ known
      \/ u = [s EXCEPT !.twice = s.twice \/ items \cap DOMAIN s.seen # {},
                       !.fresh = s.fresh \cup items, !.seen = dirs1]
      \/ u = [s EXCEPT !.seen = dirs2, !.fresh = s.fresh \cap left]
      \/ u = s
  BY <1>1, <1>3
<1>5. \A f, S : f \in [S -> SUBSET V] /\ S \subseteq D => f \in Seens /\ DOMAIN f = S
  OBVIOUS
<1>6. /\ files1 \in [DOMAIN s.seen -> SUBSET V] \/ ~known
      /\ files2 \in [DOMAIN s.seen -> SUBSET V] \/ ~known
      /\ files3 \in [DOMAIN s.seen -> SUBSET V] \/ ~known
      /\ dirs1 \in [DOMAIN s.seen \cup items -> SUBSET V] /\ dirs2 \in [left -> SUBSET V]
  <2>1. known => /\ (s.seen[dir] \cup items) \in SUBSET V
                 /\ ((s.seen[dir] \ named) \cup items) \in SUBSET V
                 /\ (s.seen[dir] \ named) \in SUBSET V
    BY <1>1, <1>2
  <2>2. dirs1 \in [DOMAIN s.seen \cup items -> SUBSET V]
    BY <1>1, <1>2
  <2>3. dirs2 \in [left -> SUBSET V]
    BY <1>1 DEF Restrict
  <2>4. QED
    BY <1>1, <2>1, <2>2, <2>3
<1> HIDE DEF files1, files2, files3, dirs1, dirs2, named
<1> HIDE DEF Seens
<1>7. ASSUME NEW f, f \in [DOMAIN s.seen -> SUBSET V]
      PROVE  /\ [s EXCEPT !.twice = s.twice \/ named # {}, !.seen = f] \in Sights(D, V)
             /\ [s EXCEPT !.seen = f] \in Sights(D, V)
  <2>1. f \in Seens /\ DOMAIN f = DOMAIN s.seen
    BY <1>1, <1>5, <1>7
  <2>2. QED
    BY <1>1, <2>1 DEF Sights, Seens
<1>8. [s EXCEPT !.twice = s.twice \/ items \cap DOMAIN s.seen # {},
                !.fresh = s.fresh \cup items, !.seen = dirs1] \in Sights(D, V)
  <2>1. DOMAIN s.seen \cup items \subseteq D
    BY <1>1, <1>2
  <2>2. dirs1 \in Seens /\ DOMAIN dirs1 = DOMAIN s.seen \cup items
    BY <1>5, <1>6, <2>1
  <2>3. s.fresh \cup items \subseteq DOMAIN dirs1 /\ s.fresh \cup items \subseteq D
    BY <1>1, <2>1, <2>2
  <2>4. QED
    BY <2>2, <2>3 DEF Sights, Seens
<1>9. [s EXCEPT !.seen = dirs2, !.fresh = s.fresh \cap left] \in Sights(D, V)
  <2>1. left \subseteq D
    BY <1>1
  <2>2. dirs2 \in Seens /\ DOMAIN dirs2 = left
    BY <1>5, <1>6, <2>1
  <2>3. s.fresh \cap left \subseteq DOMAIN dirs2 /\ s.fresh \cap left \subseteq D
    BY <2>1, <2>2
  <2>4. QED
    BY <2>2, <2>3 DEF Sights, Seens
<1>10. known => /\ [s EXCEPT !.twice = s.twice \/ named # {}, !.seen = files1] \in Sights(D, V)
                /\ [s EXCEPT !.seen = files2] \in Sights(D, V)
                /\ [s EXCEPT !.seen = files3] \in Sights(D, V)
  <2> HIDE DEF known
  <2>1. QED
    BY <1>6, <1>7, Zenon
<1>11. QED
  <2> HIDE DEF known
  <2>1. QED
    BY <1>4, <1>8, <1>9, <1>10, Zenon

\* What has just been read, or is about to be, is seen.
LEMMA DispatchedProps ==
  ASSUME NEW t \in Trees, seen = [p \in DOMAIN seen |-> seen[p]]
  PROVE  LET s == Dispatched(t)
         IN  s.fresh \subseteq DOMAIN s.seen /\ s.seen = [p \in DOMAIN s.seen |-> s.seen[p]]
<1> DEFINE list  == t.events
           count == Len(list)
           base  == [seen |-> seen, fresh |-> {}, twice |-> FALSE]
           D     == DOMAIN seen \cup Things
           V     == (UNION {seen[p] : p \in DOMAIN seen}) \cup Things
           A     == Sights(D, V)
           step  == [p \in A \X (1..count) |-> See(p[1], list[p[2]])]
           Is(f, T) == f[T] = IF T = {} THEN base ELSE See(f[T \ {Max(T)}], list[Max(T)])
           Equation(f) ==
             f = [T \in SUBSET (1..count) |->
                    IF T = {} THEN base ELSE See(f[T \ {Max(T)}], list[Max(T)])]
           folded == CHOOSE f : Equation(f)
<1>1. /\ list \in Seq(Events) /\ count \in Nat /\ DOMAIN list = 1..count
      /\ \A k \in 1..count : list[k] \in Events
  BY DEF Trees
<1>2. FoldLeft(See, base, list) = folded[1..count]
  BY <1>1 DEF FoldLeft, MapThenFoldSet
<1>3. base \in A
  <2>1. seen \in [DOMAIN seen -> SUBSET V]
    OBVIOUS
  <2>2. DOMAIN seen \in SUBSET D
    OBVIOUS
  <2> HIDE DEF D, V
  <2>3. QED
    BY <2>1, <2>2 DEF Sights
<1>4. Things \subseteq D /\ Things \subseteq V
  <2> HIDE DEF Things
  <2>1. QED
    OBVIOUS
<1> HIDE DEF list, count, base, D, V
<1>5. ASSUME NEW u \in A, NEW k \in 1..count PROVE See(u, list[k]) \in A
  BY <1>1, <1>4, SeeTyped
<1> DEFINE A2 == A
<1>6. \A u \in A : u.fresh \subseteq DOMAIN u.seen /\ u.seen = [p \in DOMAIN u.seen |-> u.seen[p]]
  BY DEF Sights
<1> HIDE DEF A
<1>7. step \in [A \X (1..count) -> A]
  BY <1>5
<1>8. PICK iter \in [SUBSET (1..count) -> A] : Folds(iter, count, base, step)
  BY <1>1, <1>3, <1>7, FoldDefined
<1>9. ASSUME NEW T \in SUBSET (1..count) PROVE Is(iter, T)
  <2>1. T # {} => Max(T) \in 1..count /\ iter[T \ {Max(T)}] \in A
    BY <1>1, MaxOfSome
  <2>2. QED
    BY <1>8, <2>1 DEF Folds
<1>10. Equation(iter)
  BY <1>9
<1>11. Equation(folded)
  <2> HIDE DEF Equation
  <2>1. QED
    BY <1>10, Zenon
<1> HIDE DEF folded
<1>12. StepsIn(A, folded, count, base, step)
  BY <1>1, <1>11, FirstNumbers DEF StepsIn
<1> HIDE DEF Equation, step
<1> DEFINE s == folded[1..count]
           below == UNION {Reachable(t, d) : d \in s.fresh \cap DOMAIN t.dirs}
           after == [p \in DOMAIN s.seen \cup below |->
                       IF p \in below THEN Range(t.dirs[p]) ELSE s.seen[p]]
<1>13. s \in A
  BY <1>1, <1>3, <1>7, <1>12, FoldStays
<1>14. s.fresh \subseteq DOMAIN s.seen
  BY <1>6, <1>13
<1>15. s \in [seen : {s.seen}, fresh : {s.fresh}, twice : {s.twice}]
  BY <1>13 DEF A, Sights
<1>16. Dispatched(t) = [s EXCEPT !.seen = after, !.fresh = @ \cup below]
  BY <1>2 DEF Dispatched, base, list
<1> HIDE DEF s, below
<1>17. Dispatched(t).seen = after /\ Dispatched(t).fresh = s.fresh \cup below
  BY <1>15, <1>16
<1>18. QED
  BY <1>14, <1>17

-----------------------------------------------------------------------------
(* The invariant *)

Kept == [groups |-> groups, root |-> root, files |-> files, tree |-> tree]

\* The state that every operation leaves: a tree that agrees with its registry
\* and has the directories of the groups, producers for the same paths, and
\* messages that have been posted.
GroupInv ==
  /\ posted \in 0..MaxMessages /\ messages \in Numbered(posted)
  /\ Kept \in Standing(posted, {RootPath})
  /\ seen = [p \in DOMAIN seen |-> seen[p]] /\ fresh \subseteq DOMAIN seen

LEMMA NumberedMore ==
  ASSUME NEW N \in Nat, NEW M \in Nat, N <= M
  PROVE  Numbered(N) \subseteq Numbered(M)
<1>1. SUBSET (1..N) \subseteq SUBSET (1..M)
  OBVIOUS
<1>2. QED
  BY <1>1 DEF Numbered

LEMMA StandingMore ==
  ASSUME NEW N \in Nat, NEW M \in Nat, N <= M, NEW top, NEW g \in Standing(N, top)
  PROVE  g \in Standing(M, top)
<1>1. Numbered(N) \subseteq Numbered(M)
  BY NumberedMore
<1>2. g \in Groupers(N)
  BY DEF Standing
<1>3. g \in Groupers(M)
  BY <1>1, <1>2 DEF Groupers
<1>4. QED
  BY <1>3 DEF Standing

\* The events of a step do not outlive it.
LEMMA EventsDropped ==
  ASSUME NEW N \in Nat, NEW top, NEW g \in Standing(N, top)
  PROVE  /\ [groups |-> g.groups, root |-> g.root, files |-> g.files,
             tree |-> [g.tree EXCEPT !.events = <<>>]] \in Standing(N, top)
         /\ [g.tree EXCEPT !.events = <<>>].dirs = g.tree.dirs
<1> DEFINE t == [g.tree EXCEPT !.events = <<>>]
<1>1. g \in Groupers(N) /\ g.tree \in Trees
  BY DEF Standing, Groupers
<1>2. <<>> \in Seq(Events)
  OBVIOUS
<1>3. t \in Trees /\ t.dirs = g.tree.dirs /\ t.subdirs = g.tree.subdirs
  BY <1>1, <1>2 DEF Trees
<1> HIDE DEF t
<1> DEFINE u == [groups |-> g.groups, root |-> g.root, files |-> g.files, tree |-> t]
<1>4. /\ u.groups = g.groups /\ u.files = g.files /\ u.tree = t
      /\ u \in Groupers(N)
  BY <1>1, <1>3 DEF Groupers
<1> HIDE DEF u
<1>5. RegistryAgrees(u.tree)
  BY <1>3, <1>4 DEF RegistryAgrees, Standing
<1>6. u \in Standing(N, top)
  BY <1>3, <1>4, <1>5 DEF Standing
<1>7. QED
  BY <1>3, <1>6 DEF t, u

\* What an operation on the source does.
LEMMA ChangeKeeps ==
  ASSUME NEW N \in Nat, N \in 0..MaxMessages, posted' = N,
         messages \in Numbered(N), Kept \in Standing(N, {RootPath}),
         seen = [p \in DOMAIN seen |-> seen[p]],
         NEW result, result.messages \in Numbered(N), result.notice \in Notices(N),
         Change(result)
  PROVE  /\ GroupInv' /\ messages' = result.messages
         /\ LET u == Updated(Kept, result.notice)
            IN  /\ u \in Standing(N, {RootPath})
                /\ groups' = u.groups /\ root' = u.root /\ files' = u.files
                /\ tree'.dirs = u.tree.dirs
<1> DEFINE u == Updated(Kept, result.notice)
           s == Dispatched(u.tree)
<1>1. /\ messages' = result.messages
      /\ groups' = u.groups /\ root' = u.root /\ files' = u.files
      /\ tree' = [u.tree EXCEPT !.events = <<>>]
      /\ seen' = s.seen /\ fresh' = s.fresh
  BY DEF Change, Kept
<1>2. u \in Standing(N, {RootPath})
  BY UpdatedProps
<1> HIDE DEF u
<1>3. u.tree \in Trees
  BY <1>2 DEF Standing, Groupers
<1>4. s.fresh \subseteq DOMAIN s.seen /\ s.seen = [p \in DOMAIN s.seen |-> s.seen[p]]
  BY <1>3, DispatchedProps
<1> HIDE DEF s
<1>5. seen' = [p \in DOMAIN seen' |-> seen'[p]] /\ fresh' \subseteq DOMAIN seen'
  BY <1>1, <1>4
<1>6. Kept' \in Standing(N, {RootPath}) /\ tree'.dirs = u.tree.dirs
  BY <1>1, <1>2, EventsDropped DEF Kept
<1>7. QED
  BY <1>1, <1>2, <1>5, <1>6 DEF GroupInv, u

LEMMA InitKeeps ==
  ASSUME Init
  PROVE  /\ GroupInv
         /\ LET u == Produced(messages)
            IN  /\ groups = u.groups /\ root = u.root /\ files = u.files
                /\ tree.dirs = u.tree.dirs
<1> DEFINE u == Produced(messages)
<1>1. PICK k \in 0..MaxMessages : messages \in [1..k -> Contents]
  BY DEF Init, Initials
<1>2. k \in Nat /\ Cardinality(1..k) = k
  BY <1>1, BoundAssumption, FS_Interval
<1>3. posted = k
  BY <1>1, <1>2 DEF Init
<1>4. messages \in Numbered(k)
  BY <1>1, <1>2 DEF Numbered
<1>5. u \in Standing(k, {RootPath})
  BY <1>2, <1>4, ProducedProps
<1>6. /\ groups = u.groups /\ root = u.root /\ files = u.files
      /\ tree = [u.tree EXCEPT !.events = <<>>]
      /\ seen = Reading(u.tree, RootPath) /\ fresh = {}
  BY DEF Init
<1>7. seen = [p \in DOMAIN seen |-> seen[p]]
  BY <1>6 DEF Reading
<1> HIDE DEF u
<1>8. Kept \in Standing(k, {RootPath}) /\ tree.dirs = u.tree.dirs
  BY <1>2, <1>5, <1>6, EventsDropped DEF Kept
<1>9. QED
  BY <1>3, <1>4, <1>6, <1>7, <1>8 DEF GroupInv, u

\* Every operation on the source, as a change: with its result, and what it
\* leaves of the messages.
LEMMA PostIs ==
  ASSUME GroupInv, NEW c \in Contents, Post(c)
  PROVE  LET N == posted + 1
             one == [j \in {N} |-> c]
             result == Source!AddMessages(messages, one)
         IN  /\ N \in Nat /\ N \in 0..MaxMessages /\ posted' = N /\ one \in Numbered(N)
             /\ N \notin DOMAIN messages
             /\ messages \in Numbered(N) /\ Kept \in Standing(N, {RootPath})
             /\ result.messages \in Numbered(N) /\ result.notice \in Notices(N)
             /\ Change(result)
<1> DEFINE N == posted + 1
           one == [j \in {N} |-> c]
           result == Source!AddMessages(messages, one)
<1>1. posted \in Nat /\ N \in Nat /\ posted < MaxMessages /\ posted <= N
      /\ N \in 0..MaxMessages /\ posted' = N /\ Change(result)
  BY BoundAssumption DEF GroupInv, Post
<1>2. messages \in Numbered(N) /\ Kept \in Standing(N, {RootPath})
  BY <1>1, NumberedMore, StandingMore DEF GroupInv
<1>3. N \notin DOMAIN messages
  <2>1. DOMAIN messages \subseteq 1..posted
    BY <1>1, NumberedProps DEF GroupInv
  <2>2. QED
    BY <1>1, <2>1
<1>4. one \in Numbered(N)
  <2>1. one \in [{N} -> Contents] /\ {N} \in SUBSET (1..N)
    BY <1>1
  <2> HIDE DEF one, N
  <2>2. QED
    BY <2>1 DEF Numbered
<1> HIDE DEF one, N
<1>5. result.messages \in Numbered(N) /\ result.notice \in Notices(N)
  <2>1. MessagesAdded(N, result, messages, one)
    BY <1>1, <1>2, <1>4, AddMessagesProps, Zenon
  <2> HIDE DEF result
  <2>2. QED
    BY <2>1, Zenon DEF MessagesAdded
<1>6. QED
  BY <1>1, <1>2, <1>3, <1>4, <1>5 DEF N, one

LEMMA EditIs ==
  ASSUME GroupInv, NEW i \in DOMAIN messages, NEW c \in Contents, Edit(i, c)
  PROVE  LET one == [j \in {i} |-> c]
             result == Source!EditMessages(messages, one)
         IN  /\ posted \in Nat /\ one \in Numbered(posted) /\ posted' = posted
             /\ result.messages \in Numbered(posted) /\ result.notice \in Notices(posted)
             /\ <<messages[i], c>> \in Edits /\ Change(result)
<1> DEFINE one == [j \in {i} |-> c]
           result == Source!EditMessages(messages, one)
<1>1. posted \in Nat /\ messages \in Numbered(posted) /\ posted' = posted
      /\ <<messages[i], c>> \in Edits /\ Change(result)
  BY BoundAssumption DEF GroupInv, Edit
<1>2. one \in Numbered(posted)
  <2>1. i \in 1..posted
    BY <1>1, NumberedProps
  <2>2. one \in [{i} -> Contents] /\ {i} \in SUBSET (1..posted)
    BY <2>1
  <2> HIDE DEF one
  <2>3. QED
    BY <2>2 DEF Numbered
<1> HIDE DEF one
<1>3. result.messages \in Numbered(posted) /\ result.notice \in Notices(posted)
  BY <1>1, <1>2, EditMessagesProps
<1>4. QED
  BY <1>1, <1>2, <1>3 DEF one

LEMMA DeleteIs ==
  ASSUME GroupInv, NEW ids \in SUBSET DOMAIN messages, Delete(ids)
  PROVE  LET result == Source!RemoveMessages(messages, ids)
         IN  /\ posted \in Nat /\ posted' = posted
             /\ result.messages \in Numbered(posted) /\ result.notice \in Notices(posted)
             /\ Change(result)
<1> DEFINE result == Source!RemoveMessages(messages, ids)
<1>1. posted \in Nat /\ messages \in Numbered(posted) /\ posted' = posted /\ Change(result)
  BY BoundAssumption DEF GroupInv, Delete
<1>2. result.messages \in Numbered(posted) /\ result.notice \in Notices(posted)
  BY <1>1, RemoveMessagesProps
<1>3. QED
  BY <1>1, <1>2

LEMMA NextKeeps ==
  ASSUME GroupInv, [Next]_vars
  PROVE  GroupInv'
<1>1. ASSUME NEW c \in Contents, Post(c) PROVE GroupInv'
  <2> DEFINE N == posted + 1
             result == Source!AddMessages(messages, [j \in {N} |-> c])
  <2>1. /\ N \in Nat /\ N \in 0..MaxMessages /\ posted' = N
        /\ messages \in Numbered(N) /\ Kept \in Standing(N, {RootPath})
        /\ result.messages \in Numbered(N) /\ result.notice \in Notices(N)
        /\ Change(result)
    BY <1>1, PostIs
  <2> HIDE DEF N, result
  <2>2. QED
    BY <2>1, ChangeKeeps DEF GroupInv
<1>2. ASSUME NEW i \in DOMAIN messages, NEW c \in Contents, Edit(i, c) PROVE GroupInv'
  <2> DEFINE result == Source!EditMessages(messages, [j \in {i} |-> c])
  <2>1. /\ posted \in Nat /\ posted' = posted
        /\ result.messages \in Numbered(posted) /\ result.notice \in Notices(posted)
        /\ Change(result)
    BY <1>2, EditIs
  <2> HIDE DEF result
  <2>2. QED
    BY <2>1, ChangeKeeps DEF GroupInv
<1>3. ASSUME NEW ids \in SUBSET DOMAIN messages, Delete(ids) PROVE GroupInv'
  <2> DEFINE result == Source!RemoveMessages(messages, ids)
  <2>1. /\ posted \in Nat /\ posted' = posted
        /\ result.messages \in Numbered(posted) /\ result.notice \in Notices(posted)
        /\ Change(result)
    BY <1>3, DeleteIs
  <2> HIDE DEF result
  <2>2. QED
    BY <2>1, ChangeKeeps DEF GroupInv
<1>4. CASE UNCHANGED vars
  BY <1>4 DEF vars, GroupInv, Kept
<1>5. QED
  BY <1>1, <1>2, <1>3, <1>4 DEF Next

\* The types follow from the invariant, and the agreement of the registry.
LEMMA InvImplies ==
  ASSUME GroupInv
  PROVE  TypeOK /\ TreeAgrees
<1>1. posted \in Nat /\ posted \in 0..MaxMessages /\ messages \in Numbered(posted)
  BY BoundAssumption DEF GroupInv
<1>2. Kept \in Standing(posted, {RootPath})
  BY DEF GroupInv
<1>3. /\ Kept.groups = groups /\ Kept.root = root /\ Kept.files = files /\ Kept.tree = tree
  BY DEF Kept
<1>4. /\ RegistryAgrees(tree) /\ DOMAIN tree.dirs = DirsOf(DOMAIN groups)
      /\ DOMAIN files = {RootPath} \cup FilesIn(DOMAIN groups)
      /\ groups \in [DOMAIN groups -> Numbered(posted)] /\ root \in Numbered(posted)
      /\ files \in [DOMAIN files -> Numbered(posted)]
  BY <1>1, <1>2, <1>3, StandingShape, GrouperShape DEF Standing
<1>5. \A ms \in {messages, root} \cup Range(groups) \cup Range(files) : ms \in Numbered(posted)
  BY <1>1, <1>4 DEF Range
<1>6. \A ms \in Numbered(posted) :
        \A i \in DOMAIN ms : i \in 1..posted /\ ms[i] \in Contents
  BY <1>1, NumberedProps
<1>7. DOMAIN messages \subseteq 1..posted
  BY <1>1, NumberedProps
<1>8. DOMAIN files \subseteq DOMAIN tree.dirs
  BY <1>4 DEF DirsOf, FilesIn
<1>9. FilesIn(DOMAIN groups) = UNION {{<<n>> \o p : p \in Range(Parts)} : n \in DOMAIN groups}
  BY DEF FilesIn, PathsOf
<1>10. \A ms \in {messages, root} \cup Range(groups) \cup Range(files) :
         \A i \in DOMAIN ms : i \in 1..posted /\ ms[i] \in Contents
  BY <1>5, <1>6, Zenon
<1>11. DOMAIN files = {RootPath} \cup UNION {{<<n>> \o p : p \in Range(Parts)} : n \in DOMAIN groups}
  BY <1>4, <1>9
<1>12. fresh \subseteq DOMAIN seen
  BY DEF GroupInv
<1>13. TypeOK
  BY <1>1, <1>7, <1>8, <1>10, <1>11, <1>12, Zenon DEF TypeOK
<1>14. QED
  BY <1>4, <1>13, Zenon DEF TreeAgrees

THEOREM InvariantHolds == Spec => []GroupInv
<1>1. Init => GroupInv
  BY InitKeeps
<1>2. GroupInv /\ [Next]_vars => GroupInv'
  BY NextKeeps
<1>3. QED
  BY <1>1, <1>2, PTL DEF Spec

\* The state keeps its shape: what a group and its directories have are
\* messages that were posted, and there is a producer for every part of every
\* group, in a directory of the tree.
THEOREM TypeCorrect == Spec => []TypeOK
<1>1. GroupInv => TypeOK
  BY InvImplies
<1>2. QED
  BY <1>1, InvariantHolds, PTL

\* The registry of the tree and its directories have the same paths, each
\* listed once by its parent, after any sequence of groups that come and go
\* (remove_dir, vfs_tree.py:369).
THEOREM RegistryHolds == Spec => []TreeAgrees
<1>1. GroupInv => TreeAgrees
  BY InvImplies
<1>2. QED
  BY <1>1, InvariantHolds, PTL

-----------------------------------------------------------------------------
(* What a notice makes of a directory that shows its messages *)

\* A directory has an item for each message that is wanted there, made of it as
\* it is, and its producer has made nothing of the other messages.
Shows(list, made, own, wanted) ==
  /\ OneEach(list, made)
  /\ IdsOf(list) = {i \in DOMAIN own : own[i] \in wanted}
  /\ \A i \in IdsOf(list) : made[i] = own[i]
  /\ DOMAIN made \cap DOMAIN own \subseteq IdsOf(list)

\* What a notice makes of the files of a producer and of its directory.
LEMMA NowProps ==
  ASSUME NEW N \in Nat, NEW made \in Numbered(N), NEW wanted, NEW notice \in Notices(N),
         notice.kind # "none", NEW list, OneEach(list, made),
         Adds(notice, made, wanted) \cap (IdsOf(list) \ Removes(notice, made, wanted)) = {},
         notice.kind = "new" => notice.old = None
  PROVE  LET after == FilesNow(made, wanted, notice)
             items == ItemsNow(list, made, wanted, notice)
         IN  /\ FilesBecome(after, notice, made, wanted) /\ OneEach(items, after)
             /\ IdsOf(items) = (IdsOf(list) \ Removes(notice, made, wanted))
                                 \cup Adds(notice, made, wanted)
<1>1. notice.old \in Numbered(N) /\ notice.new \in Numbered(N)
  BY DEF Notices
<1>2. IsFiniteSet(DOMAIN notice.old) /\ Collection(notice.new) /\ Made(made)
  BY <1>1, NumberedProps
<1>3. None = <<>>
  BY DEF None, Source!Empty
<1>4. FilesBecome(Dir!FilesAfter(made, PlanFor(notice, made, wanted)), notice, made, wanted)
  BY <1>2, FilesAfterProps
<1>5. /\ OneEach(Dir!ItemsAfter(list, PlanFor(notice, made, wanted)),
                 Dir!FilesAfter(made, PlanFor(notice, made, wanted)))
      /\ IdsOf(Dir!ItemsAfter(list, PlanFor(notice, made, wanted)))
           = (IdsOf(list) \ Removes(notice, made, wanted)) \cup Adds(notice, made, wanted)
  BY <1>2, <1>3, ItemsAfterProps
<1>6. QED
  BY <1>4, <1>5 DEF FilesNow, ItemsNow

LEMMA ShownRemoved ==
  ASSUME NEW N \in Nat, NEW made \in Numbered(N), NEW own \in Numbered(N),
         NEW ms \in Numbered(N), NEW wanted, NEW list, NEW notice \in Notices(N),
         Shows(list, made, own, wanted), ToldRemoved(notice, own, ms)
  PROVE  LET after == FilesNow(made, wanted, notice)
         IN  /\ Shows(ItemsNow(list, made, wanted, notice), after, Less(own, ms), wanted)
             /\ DOMAIN after = DOMAIN made
<1> DEFINE after == FilesNow(made, wanted, notice)
           items == ItemsNow(list, made, wanted, notice)
           less  == Less(own, ms)
<1>1. DOMAIN less = DOMAIN own \ DOMAIN ms /\ \A i \in DOMAIN less : less[i] = own[i]
  BY DEF Less, Restrict
<1>2. DOMAIN None = {}
  BY NoneNumbered
<1>3. /\ OneEach(list, made) /\ IdsOf(list) = {i \in DOMAIN own : own[i] \in wanted}
      /\ \A i \in IdsOf(list) : i \in DOMAIN made /\ made[i] = own[i]
      /\ DOMAIN made \cap DOMAIN own \subseteq IdsOf(list)
  BY DEF Shows, OneEach, IdsOf
<1>4. CASE ms = None
  <2>1. after = made /\ items = list
    BY <1>4 DEF ToldRemoved, FilesNow, ItemsNow
  <2> HIDE DEF after, items, less
  <2>2. DOMAIN less = DOMAIN own /\ \A i \in DOMAIN own : less[i] = own[i]
    BY <1>1, <1>2, <1>4
  <2>3. Shows(items, after, less, wanted)
    BY <1>3, <2>1, <2>2 DEF Shows
  <2>4. QED
    BY <2>1, <2>3 DEF after, items, less
<1>5. CASE ms # None
  <2>1. /\ notice.kind = "removed" /\ notice.new = None
        /\ DOMAIN notice.old = DOMAIN ms \cap DOMAIN own
    BY <1>5 DEF ToldRemoved, Restrict
  <2>2. /\ Adds(notice, made, wanted) = {} /\ Updates(notice, made, wanted) = {}
        /\ Removes(notice, made, wanted) = DOMAIN ms \cap DOMAIN own \cap DOMAIN made
        /\ Prunes(notice, made, wanted) = {}
    BY <1>2, <2>1 DEF Adds, Updates, Removes, Prunes, Passed, Olds
  <2>3. /\ FilesBecome(after, notice, made, wanted) /\ OneEach(items, after)
        /\ IdsOf(items) = (IdsOf(list) \ Removes(notice, made, wanted))
                            \cup Adds(notice, made, wanted)
    BY <1>3, <2>1, <2>2, NowProps
  <2> HIDE DEF after, items, less
  <2>4. DOMAIN after = DOMAIN made /\ \A i \in DOMAIN after : after[i] = made[i]
    BY <2>2, <2>3 DEF FilesBecome
  <2>5. IdsOf(items) = {i \in DOMAIN less : less[i] \in wanted}
    BY <1>1, <1>3, <2>2, <2>3
  <2>6. Shows(items, after, less, wanted)
    BY <1>1, <1>3, <2>3, <2>4, <2>5 DEF Shows
  <2>7. QED
    BY <2>4, <2>6 DEF after, items, less
<1>6. QED
  BY <1>4, <1>5

LEMMA ShownAdded ==
  ASSUME NEW N \in Nat, NEW made \in Numbered(N), NEW own \in Numbered(N),
         NEW ms \in Numbered(N), NEW wanted, NEW list, NEW notice \in Notices(N),
         Shows(list, made, own, wanted), ToldAdded(notice, own, ms),
         \A i \in DOMAIN ms \ DOMAIN own : i \in DOMAIN made => ms[i] \in wanted
  PROVE  LET after == FilesNow(made, wanted, notice)
         IN  /\ Shows(ItemsNow(list, made, wanted, notice), after, More(own, ms), wanted)
             /\ DOMAIN after \subseteq DOMAIN made \cup DOMAIN ms
<1> DEFINE after == FilesNow(made, wanted, notice)
           items == ItemsNow(list, made, wanted, notice)
           more  == More(own, ms)
           diff  == Less(ms, own)
           those == {i \in DOMAIN ms \ DOMAIN own : ms[i] \in wanted}
<1>1. /\ DOMAIN more = DOMAIN own \cup DOMAIN ms
      /\ \A i \in DOMAIN more : more[i] = IF i \in DOMAIN own THEN own[i] ELSE ms[i]
  BY DEF More
<1>2. DOMAIN diff = DOMAIN ms \ DOMAIN own /\ \A i \in DOMAIN diff : diff[i] = ms[i]
  BY DEF Less, Restrict
<1>3. DOMAIN None = {}
  BY NoneNumbered
<1>4. /\ OneEach(list, made) /\ IdsOf(list) = {i \in DOMAIN own : own[i] \in wanted}
      /\ \A i \in IdsOf(list) : i \in DOMAIN made /\ made[i] = own[i]
      /\ DOMAIN made \cap DOMAIN own \subseteq IdsOf(list)
  BY DEF Shows, OneEach, IdsOf
<1>5. CASE diff = None
  <2>1. after = made /\ items = list
    BY <1>5 DEF ToldAdded, FilesNow, ItemsNow
  <2> HIDE DEF after, items, more, diff
  <2>2. DOMAIN more = DOMAIN own /\ \A i \in DOMAIN own : more[i] = own[i]
    BY <1>1, <1>2, <1>3, <1>5
  <2>3. Shows(items, after, more, wanted)
    BY <1>4, <2>1, <2>2 DEF Shows
  <2>4. QED
    BY <2>1, <2>3 DEF after, items, more
<1>6. CASE diff # None
  <2>1. notice.kind = "new" /\ notice.old = None /\ notice.new = diff
    BY <1>6 DEF ToldAdded
  <2> HIDE DEF diff
  <2>2. /\ Adds(notice, made, wanted) = those /\ Updates(notice, made, wanted) = {}
        /\ Removes(notice, made, wanted) = {} /\ Prunes(notice, made, wanted) = {}
    BY <1>2, <1>3, <2>1 DEF Adds, Updates, Removes, Prunes, Passed, Olds
  <2> HIDE DEF those
  <2>3. those \cap IdsOf(list) = {}
    BY <1>4 DEF those
  <2>4. /\ FilesBecome(after, notice, made, wanted) /\ OneEach(items, after)
        /\ IdsOf(items) = (IdsOf(list) \ Removes(notice, made, wanted))
                            \cup Adds(notice, made, wanted)
    BY <1>4, <2>1, <2>2, <2>3, NowProps
  <2> HIDE DEF after, items, more
  <2>5. /\ DOMAIN after = DOMAIN made \cup those
        /\ \A i \in DOMAIN after : after[i] = IF i \in those THEN ms[i] ELSE made[i]
    BY <1>2, <2>1, <2>2, <2>4 DEF FilesBecome, those
  <2>6. IdsOf(items) = IdsOf(list) \cup those
    BY <2>2, <2>4
  <2>7. IdsOf(items) = {i \in DOMAIN more : more[i] \in wanted}
    BY <1>1, <1>4, <2>6 DEF those
  <2>8. ASSUME NEW i \in IdsOf(items) PROVE after[i] = more[i]
    BY <1>1, <1>4, <2>5, <2>6 DEF those
  <2>9. DOMAIN after \cap DOMAIN more \subseteq IdsOf(items)
    BY <1>1, <1>4, <2>5, <2>6 DEF those
  <2>10. Shows(items, after, more, wanted)
    BY <2>4, <2>7, <2>8, <2>9 DEF Shows
  <2>11. QED
    BY <2>5, <2>10 DEF after, items, more, those
<1>7. QED
  BY <1>5, <1>6

LEMMA ShownEdited ==
  ASSUME NEW N \in Nat, NEW made \in Numbered(N), NEW own \in Numbered(N),
         NEW ms \in Numbered(N), NEW wanted, NEW list, NEW notice \in Notices(N),
         Shows(list, made, own, wanted), ToldEdited(notice, own, ms),
         DOMAIN ms \subseteq DOMAIN own
  PROVE  LET after == FilesNow(made, wanted, notice)
         IN  /\ Shows(ItemsNow(list, made, wanted, notice), after, Changed(own, ms), wanted)
             /\ DOMAIN after \subseteq DOMAIN made \cup DOMAIN ms
<1> DEFINE after == FilesNow(made, wanted, notice)
           items == ItemsNow(list, made, wanted, notice)
           now   == Changed(own, ms)
           pass  == {i \in DOMAIN ms : ms[i] \in wanted}
           had   == DOMAIN ms \cap DOMAIN made
<1>1. /\ DOMAIN now = DOMAIN own
      /\ \A i \in DOMAIN now : now[i] = IF i \in DOMAIN ms THEN ms[i] ELSE own[i]
  BY DEF Changed
<1>2. DOMAIN None = {}
  BY NoneNumbered
<1>3. /\ OneEach(list, made) /\ IdsOf(list) = {i \in DOMAIN own : own[i] \in wanted}
      /\ \A i \in IdsOf(list) : i \in DOMAIN made /\ made[i] = own[i]
      /\ DOMAIN made \cap DOMAIN own \subseteq IdsOf(list)
  BY DEF Shows, OneEach, IdsOf
<1>4. CASE ms = None
  <2>1. after = made /\ items = list
    BY <1>4 DEF ToldEdited, FilesNow, ItemsNow
  <2> HIDE DEF after, items, now
  <2>2. \A i \in DOMAIN own : now[i] = own[i]
    BY <1>1, <1>2, <1>4
  <2>3. Shows(items, after, now, wanted)
    BY <1>1, <1>3, <2>1, <2>2 DEF Shows
  <2>4. QED
    BY <2>1, <2>3 DEF after, items, now
<1>5. CASE ms # None
  <2>1. notice.kind = "edited" /\ notice.new = ms /\ DOMAIN notice.old = DOMAIN ms
    BY <1>5 DEF ToldEdited, Restrict
  <2>2. /\ Adds(notice, made, wanted) = pass \ had /\ Updates(notice, made, wanted) = pass \cap had
        /\ Removes(notice, made, wanted) = had \ pass /\ Prunes(notice, made, wanted) = had \ pass
    BY <2>1 DEF Adds, Updates, Removes, Prunes, Passed, Olds
  <2> HIDE DEF pass, had
  <2>3. (pass \ had) \cap (IdsOf(list) \ (had \ pass)) = {}
    BY <1>3 DEF pass, had
  <2>4. /\ FilesBecome(after, notice, made, wanted) /\ OneEach(items, after)
        /\ IdsOf(items) = (IdsOf(list) \ Removes(notice, made, wanted))
                            \cup Adds(notice, made, wanted)
    BY <1>3, <2>1, <2>2, <2>3, NowProps
  <2> HIDE DEF after, items, now
  <2>5. /\ DOMAIN after = (DOMAIN made \cup pass) \ (had \ pass)
        /\ \A i \in DOMAIN after : after[i] = IF i \in pass THEN ms[i] ELSE made[i]
    <3>1. (pass \ had) \cup (pass \cap had) = pass
      OBVIOUS
    <3>2. QED
      BY <2>1, <2>2, <2>4, <3>1 DEF FilesBecome
  <2>6. IdsOf(items) = (IdsOf(list) \ (had \ pass)) \cup (pass \ had)
    BY <2>2, <2>4
  <2>7. IdsOf(items) = {i \in DOMAIN now : now[i] \in wanted}
    BY <1>1, <1>3, <2>6 DEF pass, had
  <2>8. ASSUME NEW i \in IdsOf(items) PROVE after[i] = now[i]
    BY <1>1, <1>3, <2>5, <2>6 DEF pass, had
  <2>9. DOMAIN after \cap DOMAIN now \subseteq IdsOf(items)
    BY <1>1, <1>3, <2>5, <2>6 DEF pass, had
  <2>10. Shows(items, after, now, wanted)
    BY <2>4, <2>7, <2>8, <2>9 DEF Shows
  <2>11. QED
    BY <2>5, <2>10 DEF after, items, now, pass
<1>6. QED
  BY <1>4, <1>5

-----------------------------------------------------------------------------
(* Every group is updated once, or has no reason to be *)

\* The messages that belong to the directory of a group.
In(ms, n) == RestrictValues(ms, LAMBDA c : n \in NamesOf(c))

LEMMA InProps ==
  ASSUME NEW N \in Nat, NEW ms \in Numbered(N), NEW n
  PROVE  /\ In(ms, n) \in Numbered(N)
         /\ DOMAIN In(ms, n) = {i \in DOMAIN ms : n \in NamesOf(ms[i])}
         /\ \A i \in DOMAIN In(ms, n) : In(ms, n)[i] = ms[i]
<1> DEFINE S == {i \in DOMAIN ms : n \in NamesOf(ms[i])}
<1>1. In(ms, n) = Restrict(ms, S)
  BY DEF In, RestrictValues
<1> HIDE DEF S
<1>2. S \subseteq DOMAIN ms
  BY DEF S
<1>3. QED
  BY <1>1, <1>2, RestrictNumbered DEF S

LEMMA InIs ==
  ASSUME NEW N \in Nat, NEW ms \in Numbered(N), NEW n
  PROVE  /\ \A i : i \in DOMAIN In(ms, n) <=> i \in DOMAIN ms /\ n \in NamesOf(ms[i])
         /\ \A i \in DOMAIN In(ms, n) : In(ms, n)[i] = ms[i]
<1>1. /\ DOMAIN In(ms, n) = {i \in DOMAIN ms : n \in NamesOf(ms[i])}
      /\ \A i \in DOMAIN In(ms, n) : In(ms, n)[i] = ms[i]
  BY InProps, Zenon
<1>2. QED
  BY <1>1

\* Two collections are equal that have the same messages.
LEMMA NumberedSame ==
  ASSUME NEW N \in Nat, NEW ms \in Numbered(N), NEW others \in Numbered(N),
         DOMAIN ms = DOMAIN others, \A i \in DOMAIN ms : ms[i] = others[i]
  PROVE  ms = others
<1>1. ms \in [DOMAIN ms -> Contents] /\ others \in [DOMAIN others -> Contents]
  BY NumberedProps
<1>2. QED
  BY <1>1

\* Without two groups of one name, the messages that are grouped under a name
\* are all that belong there.
LEMMA GroupedIs ==
  ASSUME NamesApart, NEW N \in Nat, NEW ms \in Numbered(N), NEW n
  PROVE  /\ n \in DOMAIN Grouped(ms) <=> In(ms, n) # None
         /\ GroupIn(Grouped(ms), n) = In(ms, n)
<1> DEFINE grouped == Grouped(ms)
           own     == In(ms, n)
<1>1. /\ own \in Numbered(N)
      /\ DOMAIN own = {i \in DOMAIN ms : n \in NamesOf(ms[i])}
      /\ \A i \in DOMAIN own : own[i] = ms[i]
  BY InProps
<1>2. /\ DOMAIN grouped = {DirOf[k] : k \in KeysIn(ms)}
      /\ \A m \in DOMAIN grouped : \E k \in KeysIn(ms) :
           DirOf[k] = m /\ grouped[m] = OfKey(ms, k)
  BY GroupedProps
<1> HIDE DEF grouped, own
<1>3. own # None <=> \E i \in DOMAIN ms : n \in NamesOf(ms[i])
  BY <1>1, NoneIs
<1>4. n \in DOMAIN grouped <=> own # None
  BY <1>2, <1>3 DEF KeysIn, NamesOf
<1>5. CASE n \in DOMAIN grouped
  <2>1. PICK k \in KeysIn(ms) : DirOf[k] = n /\ grouped[n] = OfKey(ms, k)
    BY <1>2, <1>5
  <2>2. ms \in [DOMAIN ms -> Contents]
    BY NumberedProps
  <2>3. \A i \in DOMAIN ms : n \in NamesOf(ms[i]) <=> k \in KeysOf[ms[i]]
    <3>1. k \in Keys /\ \A i \in DOMAIN ms : KeysOf[ms[i]] \subseteq Keys
      BY <2>2 DEF KeysIn, Keys
    <3>2. QED
      BY <2>1, <3>1 DEF NamesOf, NamesApart
  <2>4. /\ OfKey(ms, k) \in Numbered(N)
        /\ DOMAIN OfKey(ms, k) = {i \in DOMAIN ms : k \in KeysOf[ms[i]]}
        /\ \A i \in DOMAIN OfKey(ms, k) : OfKey(ms, k)[i] = ms[i]
    BY OfKeyProps
  <2>5. OfKey(ms, k) = own
    BY <1>1, <2>3, <2>4, NumberedSame
  <2>6. QED
    BY <1>4, <1>5, <2>1, <2>5 DEF GroupIn, grouped, own
<1>6. CASE n \notin DOMAIN grouped
  BY <1>4, <1>6 DEF GroupIn, grouped, own
<1>7. QED
  BY <1>5, <1>6

\* The filters let through every message of a group.
LEMMA InPasses ==
  ASSUME GroupsPass, NEW N \in Nat, NEW ms \in Numbered(N), NEW n
  PROVE  In(Dir!Matching(ms, Passing), n) = In(ms, n)
<1> DEFINE some == Dir!Matching(ms, Passing)
           own  == In(some, n)
           all  == In(ms, n)
<1>1. /\ some \in Numbered(N) /\ DOMAIN some = {i \in DOMAIN ms : ms[i] \in Passing}
      /\ \A i \in DOMAIN some : some[i] = ms[i]
  BY MatchingNumbered
<1> HIDE DEF some
<1>2. /\ own \in Numbered(N) /\ DOMAIN own = {i \in DOMAIN some : n \in NamesOf(some[i])}
      /\ \A i \in DOMAIN own : own[i] = some[i]
  BY <1>1, InProps
<1>3. /\ all \in Numbered(N) /\ DOMAIN all = {i \in DOMAIN ms : n \in NamesOf(ms[i])}
      /\ \A i \in DOMAIN all : all[i] = ms[i]
  BY InProps
<1> HIDE DEF own, all
<1>4. ASSUME NEW i \in DOMAIN ms, n \in NamesOf(ms[i]) PROVE ms[i] \in Passing
  <2>1. ms[i] \in Contents
    BY NumberedProps
  <2>2. KeysOf[ms[i]] # {}
    BY <1>4 DEF NamesOf
  <2>3. QED
    BY <2>1, <2>2 DEF GroupsPass
<1>5. own = all
  <2>1. DOMAIN own = DOMAIN all
    BY <1>1, <1>2, <1>3, <1>4
  <2>2. \A i \in DOMAIN own : own[i] = all[i]
    BY <1>1, <1>2, <1>3, <2>1
  <2>3. QED
    BY <1>2, <1>3, <2>1, <2>2, NumberedSame, Zenon
<1>6. QED
  BY <1>5 DEF own, all, some

LEMMA NoneIn ==
  ASSUME NEW N \in Nat, NEW n
  PROVE  In(None, n) = None
<1> DEFINE none == None
           own  == In(none, n)
<1>1. none \in Numbered(N) /\ DOMAIN none = {}
  BY NoneNumbered
<1> HIDE DEF none
<1>2. own \in Numbered(N) /\ DOMAIN own = {i \in DOMAIN none : n \in NamesOf(none[i])}
  BY <1>1, InProps
<1> HIDE DEF own
<1>3. own = None
  BY <1>1, <1>2, NoneIs
<1>4. QED
  BY <1>3 DEF own, none

\* The messages beside the groups.
Top(ms) == RootMessages(Dir!Matching(ms, Passing))

LEMMA TopProps ==
  ASSUME NEW N \in Nat, NEW ms \in Numbered(N)
  PROVE  /\ Top(ms) \in Numbered(N)
         /\ DOMAIN Top(ms) = {i \in DOMAIN ms : ms[i] \in InRoot /\ ms[i] \in Passing}
         /\ \A i \in DOMAIN Top(ms) : Top(ms)[i] = ms[i]
<1> DEFINE some == Dir!Matching(ms, Passing)
           own  == RootMessages(some)
<1>1. /\ some \in Numbered(N) /\ DOMAIN some = {i \in DOMAIN ms : ms[i] \in Passing}
      /\ \A i \in DOMAIN some : some[i] = ms[i]
  BY MatchingNumbered
<1> HIDE DEF some
<1>2. /\ own \in Numbered(N) /\ DOMAIN own = {i \in DOMAIN some : some[i] \in InRoot}
      /\ \A i \in DOMAIN own : own[i] = some[i]
  BY <1>1, RootMessagesNumbered
<1>3. Top(ms) = own
  BY DEF Top, some
<1> HIDE DEF own
<1>4. QED
  BY <1>1, <1>2, <1>3

\* A group is updated for an exchange, or has no reason to be.
Revised(N, top, g, u, n, before, after) ==
  \/ /\ Through(N, top, g, u, n, In(before, n), In(after, n))
     /\ In(before, n) # None \/ In(after, n) # None
  \/ SameAt(g, u, n) /\ In(before, n) = None /\ In(after, n) = None

\* A group is updated once, whichever of its neighbours is updated before it.
LEMMA ThroughAlone ==
  ASSUME NEW N, NEW top, NEW g, NEW r, NEW u, NEW v, NEW n, NEW before, NEW after,
         SameAt(g, r, n), Through(N, top, r, u, n, before, after), SameAt(u, v, n)
  PROVE  Through(N, top, g, v, n, before, after)
<1>1. PICK w, x \in Standing(N, top) :
        SameAt(r, w, n) /\ Becomes(N, top, w, x, n, before, after) /\ SameAt(x, u, n)
  BY DEF Through
<1>2. SameAt(g, w, n) /\ SameAt(x, v, n)
  BY <1>1, SameTogether
<1>3. QED
  BY <1>1, <1>2 DEF Through

LEMMA SameToItself ==
  ASSUME NEW g, NEW n
  PROVE  SameAt(g, g, n)
BY DEF SameAt

\* The messages beside the groups have their files in the directory itself.
TopShows(u) == Shows(u.tree.dirs[RootPath], u.files[RootPath], u.root, Passing)

LEMMA NewRevises ==
  ASSUME NamesApart, GroupsPass, NEW N \in Nat, NEW g \in Standing(N, {RootPath}),
         NEW u \in Standing(N, {RootPath}), NEW notice \in Notices(N), NewDone(N, g, u, notice)
  PROVE  /\ \A n \in Words : Revised(N, {RootPath}, g, u, n, None, notice.new)
         /\ u.root = More(g.root, Top(notice.new))
         /\ TopShows(g) => TopShows(u)
<1> DEFINE new     == notice.new
           passing == Dir!Matching(new, Passing)
           grouped == Grouped(passing)
           own     == RootMessages(passing)
<1>1. new \in Numbered(N) /\ passing \in Numbered(N)
  BY MatchingNumbered DEF Notices
<1>2. /\ own \in Numbered(N) /\ \A i \in DOMAIN own : own[i] \in Passing
  <2>1. /\ DOMAIN passing = {i \in DOMAIN new : new[i] \in Passing}
        /\ \A i \in DOMAIN passing : passing[i] = new[i]
    BY <1>1, MatchingIs
  <2> HIDE DEF passing
  <2>2. /\ own \in Numbered(N) /\ DOMAIN own = {i \in DOMAIN passing : passing[i] \in InRoot}
        /\ \A i \in DOMAIN own : own[i] = passing[i]
    BY <1>1, RootMessagesNumbered
  <2>3. QED
    BY <2>1, <2>2
<1>3. PICK r \in Standing(N, {RootPath}), told \in Notices(N) :
        /\ RootMoves(N, g, r, More(g.root, own), told)
        /\ ToldAdded(told, g.root, own)
        /\ AllUpdated(N, {RootPath}, r, u, DOMAIN grouped, None, grouped)
  BY DEF NewDone
<1> HIDE DEF own, passing
<1>4. ASSUME NEW n \in Words PROVE Revised(N, {RootPath}, g, u, n, None, new)
  <2>1. SameAt(g, r, n)
    BY <1>3 DEF RootMoves
  <2>2. /\ n \in DOMAIN grouped <=> In(passing, n) # None
        /\ GroupIn(grouped, n) = In(passing, n)
    BY <1>1, GroupedIs
  <2>3. In(passing, n) = In(new, n)
    BY <1>1, InPasses DEF passing
  <2>4. In(None, n) = None /\ GroupIn(None, n) = None
    BY NoneIn, NoGroups
  <2> HIDE DEF new, grouped
  <2>5. CASE n \in DOMAIN grouped
    <3>1. Through(N, {RootPath}, r, u, n, In(None, n), In(new, n))
      BY <1>3, <2>2, <2>3, <2>4, <2>5 DEF AllUpdated
    <3>2. Through(N, {RootPath}, g, u, n, In(None, n), In(new, n))
      BY <2>1, <3>1, ThroughAlone, SameToItself
    <3>3. QED
      BY <2>2, <2>3, <2>5, <3>2 DEF Revised
  <2>6. CASE n \notin DOMAIN grouped
    <3>1. SameAt(r, u, n)
      BY <1>3, <2>6 DEF AllUpdated
    <3>2. SameAt(g, u, n)
      BY <2>1, <3>1, SameTogether
    <3>3. QED
      BY <2>2, <2>3, <2>4, <2>6, <3>2 DEF Revised
  <2>7. QED
    BY <2>5, <2>6
<1>5. ASSUME TopShows(g) PROVE TopShows(u)
  <2>1. g.files[RootPath] \in Numbered(N) /\ g.root \in Numbered(N)
    BY GrouperShape DEF Standing
  <2>2. /\ r.root = More(g.root, own)
        /\ r.files[RootPath] = FilesNow(g.files[RootPath], Passing, told)
        /\ r.tree.dirs[RootPath]
             = ItemsNow(g.tree.dirs[RootPath], g.files[RootPath], Passing, told)
    BY <1>3 DEF RootMoves
  <2>3. Shows(g.tree.dirs[RootPath], g.files[RootPath], g.root, Passing)
    BY <1>5 DEF TopShows
  <2>4. Shows(r.tree.dirs[RootPath], r.files[RootPath], r.root, Passing)
    BY <1>2, <1>3, <2>1, <2>2, <2>3, ShownAdded
  <2>5. SameBeside(r, u, {RootPath})
    BY <1>3 DEF AllUpdated
  <2>6. QED
    BY <2>4, <2>5 DEF TopShows, SameBeside
<1>6. u.root = More(g.root, own)
  BY <1>3 DEF RootMoves, AllUpdated, SameBeside
<1>7. QED
  BY <1>4, <1>5, <1>6 DEF Top, own, passing

LEMMA RemovedRevises ==
  ASSUME NamesApart, NEW N \in Nat, NEW g \in Standing(N, {RootPath}),
         NEW u \in Standing(N, {RootPath}), NEW notice \in Notices(N),
         RemovedDone(N, g, u, notice)
  PROVE  /\ \A n \in Words : Revised(N, {RootPath}, g, u, n, notice.old, None)
         /\ u.root = Less(g.root, RootMessages(notice.old))
         /\ TopShows(g) => TopShows(u)
<1> DEFINE gone    == notice.old
           grouped == Grouped(gone)
           own     == RootMessages(gone)
<1>1. gone \in Numbered(N)
  BY DEF Notices
<1>2. own \in Numbered(N)
  BY <1>1, RootMessagesNumbered
<1>3. PICK r \in Standing(N, {RootPath}), told \in Notices(N) :
        /\ RootMoves(N, g, r, Less(g.root, own), told)
        /\ ToldRemoved(told, g.root, own)
        /\ AllUpdated(N, {RootPath}, r, u, DOMAIN grouped, grouped, None)
  BY DEF RemovedDone
<1> HIDE DEF own
<1>4. ASSUME NEW n \in Words PROVE Revised(N, {RootPath}, g, u, n, gone, None)
  <2>1. SameAt(g, r, n)
    BY <1>3 DEF RootMoves
  <2>2. /\ n \in DOMAIN grouped <=> In(gone, n) # None
        /\ GroupIn(grouped, n) = In(gone, n)
    BY <1>1, GroupedIs
  <2>3. In(None, n) = None /\ GroupIn(None, n) = None
    BY NoneIn, NoGroups
  <2> HIDE DEF gone, grouped
  <2>4. CASE n \in DOMAIN grouped
    <3>1. Through(N, {RootPath}, r, u, n, In(gone, n), In(None, n))
      BY <1>3, <2>2, <2>3, <2>4 DEF AllUpdated
    <3>2. Through(N, {RootPath}, g, u, n, In(gone, n), In(None, n))
      BY <2>1, <3>1, ThroughAlone, SameToItself
    <3>3. QED
      BY <2>2, <2>4, <3>2 DEF Revised
  <2>5. CASE n \notin DOMAIN grouped
    <3>1. SameAt(r, u, n)
      BY <1>3, <2>5 DEF AllUpdated
    <3>2. SameAt(g, u, n)
      BY <2>1, <3>1, SameTogether
    <3>3. QED
      BY <2>2, <2>3, <2>5, <3>2 DEF Revised
  <2>6. QED
    BY <2>4, <2>5
<1>5. ASSUME TopShows(g) PROVE TopShows(u)
  <2>1. g.files[RootPath] \in Numbered(N) /\ g.root \in Numbered(N)
    BY GrouperShape DEF Standing
  <2>2. /\ r.root = Less(g.root, own)
        /\ r.files[RootPath] = FilesNow(g.files[RootPath], Passing, told)
        /\ r.tree.dirs[RootPath]
             = ItemsNow(g.tree.dirs[RootPath], g.files[RootPath], Passing, told)
    BY <1>3 DEF RootMoves
  <2>3. Shows(g.tree.dirs[RootPath], g.files[RootPath], g.root, Passing)
    BY <1>5 DEF TopShows
  <2>4. Shows(r.tree.dirs[RootPath], r.files[RootPath], r.root, Passing)
    BY <1>2, <1>3, <2>1, <2>2, <2>3, ShownRemoved
  <2>5. SameBeside(r, u, {RootPath})
    BY <1>3 DEF AllUpdated
  <2>6. QED
    BY <2>4, <2>5 DEF TopShows, SameBeside
<1>6. u.root = Less(g.root, own)
  BY <1>3 DEF RootMoves, AllUpdated, SameBeside
<1>7. QED
  BY <1>4, <1>5, <1>6 DEF own

LEMMA EditedRevises ==
  ASSUME NamesApart, NEW N \in Nat, NEW g \in Standing(N, {RootPath}),
         NEW u \in Standing(N, {RootPath}), NEW notice \in Notices(N),
         EditedDone(N, g, u, notice)
  PROVE  /\ \A n \in Words : Revised(N, {RootPath}, g, u, n, notice.old, notice.new)
         /\ u.root = g.root
         /\ TopShows(g) => TopShows(u)
<1> DEFINE old    == notice.old
           new    == notice.new
           before == Grouped(old)
           after  == Grouped(new)
<1>1. old \in Numbered(N) /\ new \in Numbered(N)
  BY DEF Notices
<1>2. PICK v \in Standing(N, {RootPath}) :
        /\ AllUpdated(N, {RootPath}, g, v, DOMAIN before, before, after)
        /\ AllUpdated(N, {RootPath}, v, u, DOMAIN after \ DOMAIN before, None, after)
  BY DEF EditedDone
<1>3. ASSUME NEW n \in Words PROVE Revised(N, {RootPath}, g, u, n, old, new)
  <2>1. /\ n \in DOMAIN before <=> In(old, n) # None
        /\ GroupIn(before, n) = In(old, n)
    BY <1>1, GroupedIs
  <2>2. /\ n \in DOMAIN after <=> In(new, n) # None
        /\ GroupIn(after, n) = In(new, n)
    BY <1>1, GroupedIs
  <2>3. GroupIn(None, n) = None
    BY NoGroups
  <2> HIDE DEF old, new, before, after
  <2>4. CASE n \in DOMAIN before
    <3>1. Through(N, {RootPath}, g, v, n, In(old, n), In(new, n)) /\ SameAt(v, u, n)
      BY <1>2, <2>1, <2>2, <2>4 DEF AllUpdated
    <3>2. Through(N, {RootPath}, g, u, n, In(old, n), In(new, n))
      BY <3>1, ThroughAlone, SameToItself
    <3>3. QED
      BY <2>1, <2>4, <3>2 DEF Revised
  <2>5. CASE n \notin DOMAIN before /\ n \in DOMAIN after
    <3>1. /\ SameAt(g, v, n) /\ In(old, n) = None
          /\ Through(N, {RootPath}, v, u, n, In(old, n), In(new, n))
      BY <1>2, <2>1, <2>2, <2>3, <2>5 DEF AllUpdated
    <3>2. Through(N, {RootPath}, g, u, n, In(old, n), In(new, n))
      BY <3>1, ThroughAlone, SameToItself
    <3>3. QED
      BY <2>2, <2>5, <3>2 DEF Revised
  <2>6. CASE n \notin DOMAIN before /\ n \notin DOMAIN after
    <3>1. SameAt(g, v, n) /\ SameAt(v, u, n)
      BY <1>2, <2>6 DEF AllUpdated
    <3>2. SameAt(g, u, n)
      BY <3>1, SameTogether
    <3>3. QED
      BY <2>1, <2>2, <2>6, <3>2 DEF Revised
  <2>7. QED
    BY <2>4, <2>5, <2>6
<1>4. SameBeside(g, v, {RootPath}) /\ SameBeside(v, u, {RootPath})
  BY <1>2 DEF AllUpdated
<1>5. QED
  BY <1>3, <1>4 DEF TopShows, SameBeside

-----------------------------------------------------------------------------
(* The groups follow the source *)

\* The group of a name has these messages, and there is one only if it has any.
GroupIs(u, n, own) ==
  /\ n \in DOMAIN u.groups <=> own # None
  /\ n \in DOMAIN u.groups => u.groups[n] = own

\* Messages of which some have been replaced by others.
Exchanged(ms, before, after) ==
  [i \in (DOMAIN ms \ DOMAIN before) \cup DOMAIN after |->
     IF i \in DOMAIN after THEN after[i] ELSE ms[i]]

\* Some messages are there as they are, and others take their place.
Exchange(ms, before, after) ==
  /\ DOMAIN before \subseteq DOMAIN ms /\ \A i \in DOMAIN before : before[i] = ms[i]
  /\ DOMAIN after \cap DOMAIN ms \subseteq DOMAIN before

LEMMA ExchangedNumbered ==
  ASSUME NEW N \in Nat, NEW ms \in Numbered(N), NEW before \in Numbered(N),
         NEW after \in Numbered(N)
  PROVE  Exchanged(ms, before, after) \in Numbered(N)
<1> DEFINE own == Exchanged(ms, before, after)
<1>1. own = [i \in (DOMAIN ms \ DOMAIN before) \cup DOMAIN after |->
               IF i \in DOMAIN after THEN after[i] ELSE ms[i]]
  BY DEF Exchanged
<1> HIDE DEF own
<1>2. own \in [DOMAIN own -> Contents] /\ DOMAIN own \subseteq 1..N
  BY <1>1, NumberedProps
<1>3. QED
  BY <1>2, NumberedMade DEF own

\* The messages of a group are exchanged when those of the source are.
LEMMA ExchangedIn ==
  ASSUME NEW N \in Nat, NEW ms \in Numbered(N), NEW before \in Numbered(N),
         NEW after \in Numbered(N), Exchange(ms, before, after), NEW n
  PROVE  /\ Exchange(In(ms, n), In(before, n), In(after, n))
         /\ In(Exchanged(ms, before, after), n)
              = Exchanged(In(ms, n), In(before, n), In(after, n))
<1> DEFINE all   == Exchanged(ms, before, after)
           inMs  == In(ms, n)
           inOld == In(before, n)
           inNew == In(after, n)
           inAll == In(all, n)
           own   == Exchanged(inMs, inOld, inNew)
<1>1. all \in Numbered(N)
  BY ExchangedNumbered
<1>2. /\ DOMAIN all = (DOMAIN ms \ DOMAIN before) \cup DOMAIN after
      /\ \A i \in DOMAIN all : all[i] = IF i \in DOMAIN after THEN after[i] ELSE ms[i]
  BY DEF Exchanged
<1> HIDE DEF all
<1>3. /\ inMs \in Numbered(N) /\ DOMAIN inMs = {i \in DOMAIN ms : n \in NamesOf(ms[i])}
      /\ \A i \in DOMAIN inMs : inMs[i] = ms[i]
  BY InProps
<1>4. /\ inOld \in Numbered(N) /\ DOMAIN inOld = {i \in DOMAIN before : n \in NamesOf(before[i])}
      /\ \A i \in DOMAIN inOld : inOld[i] = before[i]
  BY InProps
<1>5. /\ inNew \in Numbered(N) /\ DOMAIN inNew = {i \in DOMAIN after : n \in NamesOf(after[i])}
      /\ \A i \in DOMAIN inNew : inNew[i] = after[i]
  BY InProps
<1>6. /\ inAll \in Numbered(N) /\ DOMAIN inAll = {i \in DOMAIN all : n \in NamesOf(all[i])}
      /\ \A i \in DOMAIN inAll : inAll[i] = all[i]
  BY <1>1, InProps
<1> HIDE DEF inMs, inOld, inNew, inAll
<1>7. own \in Numbered(N)
  BY <1>3, <1>4, <1>5, ExchangedNumbered
<1>8. /\ DOMAIN own = (DOMAIN inMs \ DOMAIN inOld) \cup DOMAIN inNew
      /\ \A i \in DOMAIN own : own[i] = IF i \in DOMAIN inNew THEN inNew[i] ELSE inMs[i]
  BY DEF Exchanged
<1> HIDE DEF own
<1>9. Exchange(inMs, inOld, inNew)
  BY <1>3, <1>4, <1>5 DEF Exchange
<1>10. DOMAIN inAll = DOMAIN own
  BY <1>2, <1>3, <1>4, <1>5, <1>6, <1>8 DEF Exchange
<1>11. ASSUME NEW i \in DOMAIN own PROVE inAll[i] = own[i]
  BY <1>2, <1>3, <1>4, <1>5, <1>6, <1>8, <1>10 DEF Exchange
<1>12. inAll = own
  BY <1>6, <1>7, <1>10, <1>11, NumberedSame
<1>13. QED
  BY <1>9, <1>12 DEF inMs, inOld, inNew, inAll, own, all

\* The update of a group exchanges its messages.
LEMMA OwnAfter ==
  ASSUME NEW N \in Nat, NEW top, NEW g \in Standing(N, top), NEW u \in Standing(N, top),
         NEW n, NEW own \in Numbered(N), NEW before \in Numbered(N), NEW after \in Numbered(N),
         GroupIs(g, n, own), Exchange(own, before, after), own = None => after # None,
         Becomes(N, top, g, u, n, before, after)
  PROVE  GroupIs(u, n, Exchanged(own, before, after))
<1> DEFINE all == Exchanged(own, before, after)
<1>1. all \in Numbered(N)
  BY ExchangedNumbered
<1>2. /\ DOMAIN all = (DOMAIN own \ DOMAIN before) \cup DOMAIN after
      /\ \A i \in DOMAIN all : all[i] = IF i \in DOMAIN after THEN after[i] ELSE own[i]
  BY DEF Exchanged
<1> HIDE DEF all
<1>3. all = None <=> DOMAIN all = {}
  BY <1>1, NoneIs
<1>4. /\ own = None <=> DOMAIN own = {}
      /\ after = None <=> DOMAIN after = {}
  BY NoneIs
<1>5. CASE n \notin DOMAIN g.groups
  <2>1. own = None /\ n \in DOMAIN u.groups /\ u.groups[n] = after
    BY <1>5 DEF GroupIs, Becomes, FreshAt
  <2>2. DOMAIN all = DOMAIN after /\ \A i \in DOMAIN all : all[i] = after[i]
    BY <1>2, <1>4, <2>1
  <2>3. all = after
    BY <1>1, <2>2, NumberedSame
  <2>4. QED
    BY <2>1, <2>3 DEF GroupIs, all
<1>6. CASE n \in DOMAIN g.groups
  <2> DEFINE gone   == Less(before, after)
             new    == Less(after, before)
             common == Restrict(after, DOMAIN after \cap DOMAIN before)
  <2>1. g.groups[n] = own
    BY <1>6 DEF GroupIs
  <2>2. DOMAIN gone = DOMAIN before \ DOMAIN after
    BY DEF Less, Restrict
  <2>3. DOMAIN new = DOMAIN after \ DOMAIN before /\ \A i \in DOMAIN new : new[i] = after[i]
    BY DEF Less, Restrict
  <2>4. /\ DOMAIN common = DOMAIN after \cap DOMAIN before
        /\ \A i \in DOMAIN common : common[i] = after[i]
    BY DEF Restrict
  <2>5. Steps(N, top, g, u, n, gone, new, common)
    BY <1>6 DEF Becomes
  <2> HIDE DEF gone, new, common
  <2>6. PICK a, b, c \in Standing(N, top), first, second, third \in Notices(N),
             last \in Numbered(N) :
          /\ Moves(N, top, g, a, n, Less(g.groups[n], gone), first)
          /\ Moves(N, top, a, b, n, More(a.groups[n], new), second)
          /\ Moves(N, top, b, c, n, last, third) /\ DOMAIN last = DOMAIN b.groups[n]
          /\ DOMAIN common \subseteq DOMAIN b.groups[n] => last = Changed(b.groups[n], common)
          /\ IF last = None THEN GoneAt(u, n) ELSE SameAt(c, u, n)
    BY <2>5 DEF Steps
  <2>7. /\ DOMAIN a.groups = DOMAIN g.groups /\ a.groups[n] = Less(own, gone)
        /\ DOMAIN b.groups = DOMAIN g.groups /\ b.groups[n] = More(a.groups[n], new)
        /\ DOMAIN c.groups = DOMAIN g.groups /\ c.groups[n] = last
    BY <1>6, <2>1, <2>6 DEF Moves
  <2> DEFINE fewer == Less(own, gone)
             more  == More(fewer, new)
  <2>8. /\ DOMAIN fewer = DOMAIN own \ DOMAIN gone /\ \A i \in DOMAIN fewer : fewer[i] = own[i]
    BY DEF Less, Restrict
  <2>9. /\ DOMAIN more = DOMAIN fewer \cup DOMAIN new
        /\ \A i \in DOMAIN more : more[i] = IF i \in DOMAIN fewer THEN fewer[i] ELSE new[i]
    BY DEF More
  <2>10. b.groups[n] = more
    BY <2>7
  <2> HIDE DEF fewer, more
  <2>11. DOMAIN common \subseteq DOMAIN more
    BY <2>2, <2>4, <2>8, <2>9 DEF Exchange
  <2>12. last = Changed(more, common)
    BY <2>6, <2>10, <2>11
  <2>13. /\ DOMAIN last = DOMAIN more
         /\ \A i \in DOMAIN last : last[i] = IF i \in DOMAIN common THEN common[i] ELSE more[i]
    BY <2>11, <2>12 DEF Changed
  <2>14. DOMAIN last = DOMAIN all
    BY <1>2, <2>2, <2>3, <2>8, <2>9, <2>13 DEF Exchange
  <2>15. ASSUME NEW i \in DOMAIN all PROVE last[i] = all[i]
    BY <1>2, <2>2, <2>3, <2>4, <2>8, <2>9, <2>13, <2>14 DEF Exchange
  <2>16. last = all
    BY <1>1, <2>6, <2>14, <2>15, NumberedSame
  <2>17. CASE last = None
    BY <2>6, <2>16, <2>17 DEF GoneAt, GroupIs, all
  <2>18. CASE last # None
    BY <1>6, <2>6, <2>7, <2>16, <2>18 DEF SameAt, GroupIs, all
  <2>19. QED
    BY <2>17, <2>18
<1>7. QED
  BY <1>5, <1>6

\* A group that is updated, or has no reason to be, follows an exchange.
LEMMA FollowsExchange ==
  ASSUME NEW N \in Nat, NEW top, NEW g \in Standing(N, top), NEW u \in Standing(N, top),
         NEW ms \in Numbered(N), NEW before \in Numbered(N), NEW after \in Numbered(N),
         Exchange(ms, before, after), NEW n, GroupIs(g, n, In(ms, n)),
         Revised(N, top, g, u, n, before, after)
  PROVE  GroupIs(u, n, In(Exchanged(ms, before, after), n))
<1> DEFINE own == In(ms, n)
           old == In(before, n)
           new == In(after, n)
<1>1. own \in Numbered(N) /\ old \in Numbered(N) /\ new \in Numbered(N)
  BY InProps
<1>2. /\ Exchange(own, old, new)
      /\ In(Exchanged(ms, before, after), n) = Exchanged(own, old, new)
  BY ExchangedIn
<1> HIDE DEF own, old, new
<1>3. CASE SameAt(g, u, n) /\ old = None /\ new = None
  <2>1. DOMAIN old = {} /\ DOMAIN new = {}
    BY <1>3, NoneNumbered
  <2>2. own = [i \in DOMAIN own |-> own[i]]
    BY <1>1, NumberedProps
  <2>3. Exchanged(own, old, new) = own
    BY <2>1, <2>2 DEF Exchanged
  <2>4. GroupIs(u, n, own)
    BY <1>3 DEF SameAt, GroupIs, own
  <2>5. QED
    BY <1>2, <2>3, <2>4
<1>4. CASE Through(N, top, g, u, n, old, new) /\ (old # None \/ new # None)
  <2>1. PICK w, v \in Standing(N, top) :
          SameAt(g, w, n) /\ Becomes(N, top, w, v, n, old, new) /\ SameAt(v, u, n)
    BY <1>4 DEF Through
  <2>2. GroupIs(w, n, own)
    BY <2>1 DEF SameAt, GroupIs, own
  <2>3. own = None => new # None
    <3>1. old = None <=> DOMAIN old = {}
      BY <1>1, NoneIs
    <3>2. own = None => DOMAIN own = {}
      BY NoneNumbered
    <3>3. QED
      BY <1>2, <1>4, <3>1, <3>2 DEF Exchange
  <2>4. GroupIs(v, n, Exchanged(own, old, new))
    BY <1>1, <1>2, <2>1, <2>2, <2>3, OwnAfter
  <2>5. QED
    BY <1>2, <2>1, <2>4 DEF SameAt, GroupIs
<1>5. QED
  BY <1>3, <1>4 DEF Revised, own, old, new

\* The grouper has what these messages of its source ask for.
Follows(u, ms) ==
  /\ \A n \in Words : GroupIs(u, n, In(ms, n))
  /\ u.root = Top(ms)

LEMMA NewFollows ==
  ASSUME NamesApart, GroupsPass, NEW N \in Nat, NEW g \in Standing(N, {RootPath}),
         NEW u \in Standing(N, {RootPath}), NEW notice \in Notices(N), NEW ms \in Numbered(N),
         Follows(g, ms), DOMAIN notice.new \cap DOMAIN ms = {}, NewDone(N, g, u, notice)
  PROVE  Follows(u, Exchanged(ms, None, notice.new))
<1> DEFINE new == notice.new
           own == Top(new)
           all == Exchanged(ms, None, new)
<1>1. new \in Numbered(N) /\ None \in Numbered(N)
  BY NoneNumbered DEF Notices
<1>2. DOMAIN None = {}
  BY NoneNumbered
<1>3. Exchange(ms, None, new)
  BY <1>2 DEF Exchange
<1>4. /\ \A n \in Words : Revised(N, {RootPath}, g, u, n, None, new)
      /\ u.root = More(g.root, own)
  BY NewRevises
<1> HIDE DEF new, own
<1>5. \A n \in Words : GroupIs(u, n, In(all, n))
  BY <1>1, <1>3, <1>4, FollowsExchange DEF Follows
<1>6. u.root = Top(all)
  <2> DEFINE old  == Top(ms)
             sum  == More(old, own)
             last == Top(all)
  <2>1. all \in Numbered(N)
    BY <1>1, ExchangedNumbered
  <2>2. /\ DOMAIN all = (DOMAIN ms \ DOMAIN None) \cup DOMAIN new
        /\ \A i \in DOMAIN all : all[i] = IF i \in DOMAIN new THEN new[i] ELSE ms[i]
    BY DEF Exchanged
  <2> HIDE DEF all, new
  <2>3. /\ old \in Numbered(N)
        /\ DOMAIN old = {i \in DOMAIN ms : ms[i] \in InRoot /\ ms[i] \in Passing}
        /\ \A i \in DOMAIN old : old[i] = ms[i]
    BY TopProps
  <2>4. /\ own \in Numbered(N)
        /\ DOMAIN own = {i \in DOMAIN new : new[i] \in InRoot /\ new[i] \in Passing}
        /\ \A i \in DOMAIN own : own[i] = new[i]
    BY <1>1, TopProps DEF own
  <2>5. /\ last \in Numbered(N)
        /\ DOMAIN last = {i \in DOMAIN all : all[i] \in InRoot /\ all[i] \in Passing}
        /\ \A i \in DOMAIN last : last[i] = all[i]
    BY <2>1, TopProps
  <2>6. g.root = old
    BY DEF Follows
  <2> HIDE DEF old, last
  <2>7. /\ DOMAIN sum = DOMAIN old \cup DOMAIN own
        /\ \A i \in DOMAIN sum : sum[i] = IF i \in DOMAIN old THEN old[i] ELSE own[i]
    BY DEF More
  <2>8. sum \in Numbered(N)
    <3>1. u.root = sum
      BY <1>4, <2>6
    <3>2. u.root \in Numbered(N)
      BY StandingShape
    <3>3. QED
      BY <3>1, <3>2
  <2> HIDE DEF sum
  <2>9. DOMAIN new \cap DOMAIN ms = {}
    BY DEF new
  <2>10. DOMAIN sum = DOMAIN last
    BY <1>2, <2>2, <2>3, <2>4, <2>5, <2>7, <2>9
  <2>11. \A i \in DOMAIN sum : sum[i] = last[i]
    BY <1>2, <2>2, <2>3, <2>4, <2>5, <2>7, <2>9, <2>10
  <2>12. sum = last
    BY <2>5, <2>8, <2>10, <2>11, NumberedSame
  <2>13. QED
    BY <1>4, <2>6, <2>12 DEF sum, last
<1>7. QED
  BY <1>5, <1>6 DEF Follows, new

LEMMA RemovedFollows ==
  ASSUME NamesApart, NEW N \in Nat, NEW g \in Standing(N, {RootPath}),
         NEW u \in Standing(N, {RootPath}), NEW notice \in Notices(N), NEW ms \in Numbered(N),
         Follows(g, ms), Exchange(ms, notice.old, None), RemovedDone(N, g, u, notice)
  PROVE  Follows(u, Exchanged(ms, notice.old, None))
<1> DEFINE gone == notice.old
           own  == RootMessages(gone)
           all  == Exchanged(ms, gone, None)
<1>1. gone \in Numbered(N) /\ None \in Numbered(N)
  BY NoneNumbered DEF Notices
<1>2. DOMAIN None = {}
  BY NoneNumbered
<1>3. /\ \A n \in Words : Revised(N, {RootPath}, g, u, n, gone, None)
      /\ u.root = Less(g.root, own)
  BY RemovedRevises
<1>4. Exchange(ms, gone, None)
  OBVIOUS
<1> HIDE DEF gone, own
<1>5. \A n \in Words : GroupIs(u, n, In(all, n))
  BY <1>1, <1>3, <1>4, FollowsExchange DEF Follows
<1>6. u.root = Top(all)
  <2> DEFINE old  == Top(ms)
             left == Less(old, own)
             last == Top(all)
  <2>1. all \in Numbered(N)
    BY <1>1, ExchangedNumbered
  <2>2. /\ DOMAIN all = (DOMAIN ms \ DOMAIN gone) \cup DOMAIN None
        /\ \A i \in DOMAIN all : all[i] = IF i \in DOMAIN None THEN None[i] ELSE ms[i]
    BY DEF Exchanged
  <2> HIDE DEF all, gone
  <2>3. /\ old \in Numbered(N)
        /\ DOMAIN old = {i \in DOMAIN ms : ms[i] \in InRoot /\ ms[i] \in Passing}
        /\ \A i \in DOMAIN old : old[i] = ms[i]
    BY TopProps
  <2>4. DOMAIN own = {i \in DOMAIN gone : gone[i] \in InRoot}
    BY <1>1, RootMessagesNumbered DEF own
  <2>5. /\ last \in Numbered(N)
        /\ DOMAIN last = {i \in DOMAIN all : all[i] \in InRoot /\ all[i] \in Passing}
        /\ \A i \in DOMAIN last : last[i] = all[i]
    BY <2>1, TopProps
  <2>6. g.root = old
    BY DEF Follows
  <2> HIDE DEF old, last
  <2>7. /\ DOMAIN left = DOMAIN old \ DOMAIN own
        /\ \A i \in DOMAIN left : left[i] = old[i]
    BY DEF Less, Restrict
  <2>8. left \in Numbered(N)
    <3>1. u.root = left
      BY <1>3, <2>6
    <3>2. u.root \in Numbered(N)
      BY StandingShape
    <3>3. QED
      BY <3>1, <3>2
  <2> HIDE DEF left
  <2>9. DOMAIN left = DOMAIN last /\ \A i \in DOMAIN left : left[i] = last[i]
    BY <1>2, <1>4, <2>2, <2>3, <2>4, <2>5, <2>7 DEF Exchange
  <2>10. left = last
    BY <2>5, <2>8, <2>9, NumberedSame
  <2>11. QED
    BY <1>3, <2>6, <2>10 DEF left, last
<1>7. QED
  BY <1>5, <1>6 DEF Follows, gone

LEMMA EditedFollows ==
  ASSUME NamesApart, NEW N \in Nat, NEW g \in Standing(N, {RootPath}),
         NEW u \in Standing(N, {RootPath}), NEW notice \in Notices(N), NEW ms \in Numbered(N),
         Follows(g, ms), Exchange(ms, notice.old, notice.new), EditedDone(N, g, u, notice),
         \A i \in DOMAIN notice.old : notice.old[i] \notin InRoot,
         \A i \in DOMAIN notice.new : notice.new[i] \notin InRoot
  PROVE  Follows(u, Exchanged(ms, notice.old, notice.new))
<1> DEFINE old == notice.old
           new == notice.new
           all == Exchanged(ms, old, new)
<1>1. old \in Numbered(N) /\ new \in Numbered(N)
  BY DEF Notices
<1>2. Exchange(ms, old, new)
  OBVIOUS
<1>3. /\ \A n \in Words : Revised(N, {RootPath}, g, u, n, old, new)
      /\ u.root = g.root
  BY EditedRevises
<1>4. \A n \in Words : GroupIs(u, n, In(all, n))
  BY <1>1, <1>2, <1>3, FollowsExchange DEF Follows
<1>5. u.root = Top(all)
  <2> DEFINE was  == Top(ms)
             last == Top(all)
  <2>1. all \in Numbered(N)
    BY <1>1, ExchangedNumbered
  <2>2. /\ DOMAIN all = (DOMAIN ms \ DOMAIN old) \cup DOMAIN new
        /\ \A i \in DOMAIN all : all[i] = IF i \in DOMAIN new THEN new[i] ELSE ms[i]
    BY DEF Exchanged
  <2> HIDE DEF all
  <2>3. /\ was \in Numbered(N)
        /\ DOMAIN was = {i \in DOMAIN ms : ms[i] \in InRoot /\ ms[i] \in Passing}
        /\ \A i \in DOMAIN was : was[i] = ms[i]
    BY TopProps
  <2>4. /\ last \in Numbered(N)
        /\ DOMAIN last = {i \in DOMAIN all : all[i] \in InRoot /\ all[i] \in Passing}
        /\ \A i \in DOMAIN last : last[i] = all[i]
    BY <2>1, TopProps
  <2>5. g.root = was
    BY DEF Follows
  <2> HIDE DEF was, last
  <2>6. DOMAIN was = DOMAIN last /\ \A i \in DOMAIN was : was[i] = last[i]
    BY <1>2, <2>2, <2>3, <2>4 DEF Exchange
  <2>7. was = last
    BY <2>3, <2>4, <2>6, NumberedSame
  <2>8. QED
    BY <1>3, <2>5, <2>7 DEF was, last
<1>6. QED
  BY <1>4, <1>5 DEF Follows

LEMMA ProducedFollows ==
  ASSUME NamesApart, GroupsPass, NEW N \in Nat, NEW ms \in Numbered(N)
  PROVE  Follows(Produced(ms), ms)
<1> DEFINE u       == Produced(ms)
           passing == Dir!Matching(ms, Passing)
           grouped == Grouped(passing)
<1>1. /\ DOMAIN u.groups = DOMAIN grouped
      /\ \A n \in DOMAIN grouped : FreshAt(u, n, grouped[n])
      /\ u.root = RootMessages(passing)
  BY ProducedProps
<1>2. passing \in Numbered(N)
  BY MatchingNumbered
<1>3. u.root = Top(ms)
  BY <1>1 DEF Top
<1> HIDE DEF u
<1>4. ASSUME NEW n \in Words PROVE GroupIs(u, n, In(ms, n))
  <2>1. In(passing, n) = In(ms, n)
    BY InPasses
  <2> HIDE DEF passing
  <2>2. n \in DOMAIN grouped <=> In(passing, n) # None
    BY <1>2, GroupedIs
  <2>3. GroupIn(grouped, n) = In(passing, n)
    BY <1>2, GroupedIs
  <2> HIDE DEF grouped
  <2>4. QED
    BY <1>1, <2>1, <2>2, <2>3 DEF GroupIs, FreshAt, GroupIn
<1>5. QED
  BY <1>3, <1>4 DEF Follows, u

\* The messages of the source are exchanged, and the grouper is told how.
Exchanges(result) ==
  LET notice == result.notice
  IN  /\ Exchange(messages, notice.old, notice.new)
      /\ result.messages = Exchanged(messages, notice.old, notice.new)
      /\ \/ /\ notice.kind = "new" /\ notice.old = None
            /\ DOMAIN notice.new \cap DOMAIN messages = {}
         \/ notice.kind = "removed" /\ notice.new = None
         \/ /\ notice.kind = "edited"
            /\ \A i \in DOMAIN notice.old : notice.old[i] \notin InRoot
            /\ \A i \in DOMAIN notice.new : notice.new[i] \notin InRoot

LEMMA ChangeFollows ==
  ASSUME NamesApart, GroupsPass,
         NEW N \in Nat, N \in 0..MaxMessages, posted' = N,
         messages \in Numbered(N), Kept \in Standing(N, {RootPath}),
         seen = [p \in DOMAIN seen |-> seen[p]],
         NEW result, result.messages \in Numbered(N), result.notice \in Notices(N),
         Change(result), Exchanges(result), Follows(Kept, messages)
  PROVE  Follows(Kept, messages)'
<1> DEFINE notice == result.notice
           u      == Updated(Kept, notice)
<1>1. /\ messages' = result.messages /\ u \in Standing(N, {RootPath})
      /\ groups' = u.groups /\ root' = u.root
  BY ChangeKeeps
<1>2. /\ notice.kind = "new" => NewDone(N, Kept, u, notice)
      /\ notice.kind = "removed" => RemovedDone(N, Kept, u, notice)
      /\ notice.kind = "edited" => EditedDone(N, Kept, u, notice)
  BY UpdatedProps
<1> HIDE DEF u
<1>3. CASE /\ notice.kind = "new" /\ notice.old = None
           /\ DOMAIN notice.new \cap DOMAIN messages = {}
  <2>1. Follows(u, Exchanged(messages, None, notice.new))
    BY <1>1, <1>2, <1>3, NewFollows
  <2>2. result.messages = Exchanged(messages, None, notice.new)
    BY <1>3 DEF Exchanges
  <2>3. QED
    BY <1>1, <2>1, <2>2 DEF Follows, GroupIs, Kept
<1>4. CASE notice.kind = "removed" /\ notice.new = None
  <2>1. Exchange(messages, notice.old, None)
    BY <1>4 DEF Exchanges
  <2>2. Follows(u, Exchanged(messages, notice.old, None))
    BY <1>1, <1>2, <1>4, <2>1, RemovedFollows
  <2>3. result.messages = Exchanged(messages, notice.old, None)
    BY <1>4 DEF Exchanges
  <2>4. QED
    BY <1>1, <2>2, <2>3 DEF Follows, GroupIs, Kept
<1>5. CASE /\ notice.kind = "edited"
           /\ \A i \in DOMAIN notice.old : notice.old[i] \notin InRoot
           /\ \A i \in DOMAIN notice.new : notice.new[i] \notin InRoot
  <2>1. Exchange(messages, notice.old, notice.new)
    BY DEF Exchanges
  <2>2. Follows(u, Exchanged(messages, notice.old, notice.new))
    BY <1>1, <1>2, <1>5, <2>1, EditedFollows
  <2>3. result.messages = Exchanged(messages, notice.old, notice.new)
    BY DEF Exchanges
  <2>4. QED
    BY <1>1, <2>2, <2>3 DEF Follows, GroupIs, Kept
<1>6. QED
  BY <1>3, <1>4, <1>5 DEF Exchanges

\* Each operation on the source exchanges messages.
LEMMA PostExchanges ==
  ASSUME NEW N \in Nat, messages \in Numbered(N), N \notin DOMAIN messages,
         NEW one \in Numbered(N), DOMAIN one = {N}
  PROVE  LET result == Source!AddMessages(messages, one)
         IN  result.notice.new = one /\ Exchanges(result)
<1> DEFINE result == Source!AddMessages(messages, one)
           diff   == Restrict(one, DOMAIN one \ DOMAIN messages)
           all    == Exchanged(messages, None, one)
<1>1. /\ result.messages \in Numbered(N)
      /\ DOMAIN result.messages = DOMAIN messages \cup DOMAIN one
      /\ \A i \in DOMAIN result.messages :
           result.messages[i] = IF i \in DOMAIN messages THEN messages[i] ELSE one[i]
      /\ result.notice.old = None /\ result.notice.new = diff
      /\ result.notice.kind = IF diff = None THEN "none" ELSE "new"
  <2>1. MessagesAdded(N, result, messages, one)
    BY AddMessagesProps, Zenon
  <2> HIDE DEF result
  <2>2. QED
    BY <2>1, Zenon DEF MessagesAdded
<1> HIDE DEF result
<1>2. diff = one
  <2>1. DOMAIN one \ DOMAIN messages = DOMAIN one
    OBVIOUS
  <2>2. one = [i \in DOMAIN one |-> one[i]]
    BY NumberedProps
  <2>3. QED
    BY <2>1, <2>2 DEF Restrict
<1> HIDE DEF diff
<1>3. one # None
  BY NoneIs
<1>4. DOMAIN None = {} /\ None \in Numbered(N)
  BY NoneNumbered
<1>5. all \in Numbered(N)
  BY <1>4, ExchangedNumbered
<1>6. /\ DOMAIN all = DOMAIN messages \cup DOMAIN one
      /\ \A i \in DOMAIN all : all[i] = IF i \in DOMAIN one THEN one[i] ELSE messages[i]
  BY <1>4 DEF Exchanged
<1> HIDE DEF all
<1>7. \A i \in DOMAIN all : all[i] = result.messages[i]
  BY <1>1, <1>6
<1>8. result.messages = all
  BY <1>1, <1>5, <1>6, <1>7, NumberedSame
<1>9. Exchange(messages, None, one)
  BY <1>4 DEF Exchange
<1>10. DOMAIN one \cap DOMAIN messages = {}
  OBVIOUS
<1>11. QED
  BY <1>1, <1>2, <1>3, <1>8, <1>9, <1>10 DEF Exchanges, all, result

\* The notice of an edit.
EditTold(result, i, c) ==
  /\ result.notice.old = [j \in {i} |-> messages[i]]
  /\ result.notice.new = [j \in {i} |-> c]
  /\ Exchanges(result)

LEMMA EditExchanges ==
  ASSUME EditsStayBelow, NEW N \in Nat, messages \in Numbered(N), NEW i \in DOMAIN messages,
         NEW c \in Contents, <<messages[i], c>> \in Edits, [j \in {i} |-> c] \in Numbered(N)
  PROVE  EditTold(Source!EditMessages(messages, [j \in {i} |-> c]), i, c)
<1> DEFINE one    == [j \in {i} |-> c]
           old    == Restrict(messages, DOMAIN one)
           result == Source!EditMessages(messages, one)
           all    == Exchanged(messages, old, one)
<1>1. one \in Numbered(N) /\ DOMAIN one = {i} /\ one[i] = c
  OBVIOUS
<1>2. DOMAIN old = {i} /\ old[i] = messages[i] /\ old = [j \in {i} |-> messages[i]]
  BY DEF Restrict
<1>3. DOMAIN one \subseteq DOMAIN messages
  BY <1>1
<1> HIDE DEF one
<1>4. /\ result.messages \in Numbered(N) /\ DOMAIN result.messages = DOMAIN messages
      /\ \A j \in DOMAIN messages :
           result.messages[j] = IF j \in DOMAIN one THEN one[j] ELSE messages[j]
      /\ result.notice.kind = "edited" /\ result.notice.new = one
      /\ result.notice.old = old
  BY <1>1, <1>3, EditMessagesProps
<1>5. old \in Numbered(N)
  BY <1>3, RestrictNumbered
<1> HIDE DEF result, old
<1>6. all \in Numbered(N)
  BY <1>1, <1>5, ExchangedNumbered
<1>7. /\ DOMAIN all = DOMAIN messages
      /\ \A j \in DOMAIN all : all[j] = IF j \in DOMAIN one THEN one[j] ELSE messages[j]
  BY <1>1, <1>2 DEF Exchanged
<1> HIDE DEF all
<1>8. result.messages = all
  BY <1>4, <1>6, <1>7, NumberedSame
<1>9. Exchange(messages, old, one)
  BY <1>1, <1>2 DEF Exchange
<1>10. messages[i] \notin InRoot /\ c \notin InRoot
  BY DEF EditsStayBelow
<1>11. QED
  <2>1. Exchanges(result)
    BY <1>1, <1>2, <1>4, <1>8, <1>9, <1>10 DEF Exchanges, all
  <2>2. /\ result.notice.old = [j \in {i} |-> messages[i]]
        /\ result.notice.new = [j \in {i} |-> c]
    BY <1>2, <1>4 DEF one
  <2>3. EditTold(result, i, c)
    BY <2>1, <2>2, Zenon DEF EditTold
  <2>4. QED
    BY <2>3 DEF result, one

LEMMA DeleteExchanges ==
  ASSUME NEW N \in Nat, messages \in Numbered(N), NEW ids \in SUBSET DOMAIN messages
  PROVE  LET result == Source!RemoveMessages(messages, ids)
         IN  /\ result.notice.old = Restrict(messages, ids) /\ result.notice.new = None
             /\ Exchanges(result)
<1> DEFINE old    == Restrict(messages, ids)
           result == Source!RemoveMessages(messages, ids)
           all    == Exchanged(messages, old, None)
<1>1. ids \cap DOMAIN messages = ids
  OBVIOUS
<1>2. /\ result.messages = Restrict(messages, DOMAIN messages \ ids)
      /\ result.messages \in Numbered(N)
      /\ result.notice.kind = "removed" /\ result.notice.new = None
      /\ result.notice.old = Restrict(messages, ids \cap DOMAIN messages)
  BY RemoveMessagesProps
<1>3. result.notice.old = old
  BY <1>1, <1>2
<1> HIDE DEF result
<1>4. DOMAIN old = ids /\ \A i \in ids : old[i] = messages[i]
  BY DEF Restrict
<1>5. old \in Numbered(N) /\ None \in Numbered(N) /\ DOMAIN None = {}
  BY RestrictNumbered, NoneNumbered
<1> HIDE DEF old
<1>6. all \in Numbered(N)
  BY <1>5, ExchangedNumbered
<1>7. DOMAIN all = DOMAIN messages \ ids /\ \A i \in DOMAIN all : all[i] = messages[i]
  BY <1>4, <1>5 DEF Exchanged
<1> HIDE DEF all
<1>8. /\ DOMAIN result.messages = DOMAIN messages \ ids
      /\ \A i \in DOMAIN result.messages : result.messages[i] = messages[i]
  BY <1>2 DEF Restrict
<1>9. result.messages = all
  BY <1>2, <1>6, <1>7, <1>8, NumberedSame
<1>10. Exchange(messages, old, None)
  BY <1>4, <1>5 DEF Exchange
<1>11. QED
  BY <1>2, <1>3, <1>9, <1>10 DEF Exchanges, all, old, result

LEMMA NextFollows ==
  ASSUME NamesApart, GroupsPass, EditsStayBelow, GroupInv, Follows(Kept, messages),
         [Next]_vars
  PROVE  Follows(Kept, messages)'
<1>1. ASSUME NEW c \in Contents, Post(c) PROVE Follows(Kept, messages)'
  <2> DEFINE N == posted + 1
             one == [j \in {N} |-> c]
             result == Source!AddMessages(messages, one)
  <2>1. /\ N \in Nat /\ N \in 0..MaxMessages /\ posted' = N
        /\ one \in Numbered(N) /\ N \notin DOMAIN messages
        /\ messages \in Numbered(N) /\ Kept \in Standing(N, {RootPath})
        /\ result.messages \in Numbered(N) /\ result.notice \in Notices(N)
        /\ Change(result)
    BY <1>1, PostIs
  <2>2. DOMAIN one = {N}
    OBVIOUS
  <2> HIDE DEF N, one
  <2>3. Exchanges(result)
    BY <2>1, <2>2, PostExchanges
  <2> HIDE DEF result
  <2>4. QED
    BY <2>1, <2>3, ChangeFollows DEF GroupInv
<1>2. ASSUME NEW i \in DOMAIN messages, NEW c \in Contents, Edit(i, c)
      PROVE  Follows(Kept, messages)'
  <2> DEFINE one == [j \in {i} |-> c]
             result == Source!EditMessages(messages, one)
  <2>1. /\ posted \in Nat /\ posted' = posted /\ one \in Numbered(posted)
        /\ result.messages \in Numbered(posted) /\ result.notice \in Notices(posted)
        /\ <<messages[i], c>> \in Edits /\ Change(result)
    BY <1>2, EditIs
  <2>2. messages \in Numbered(posted)
    BY DEF GroupInv
  <2>3. Exchanges(result)
    <3>1. EditTold(result, i, c)
      BY <2>1, <2>2, EditExchanges, Zenon
    <3> HIDE DEF result
    <3>2. QED
      BY <3>1, Zenon DEF EditTold
  <2> HIDE DEF result
  <2>4. QED
    BY <2>1, <2>2, <2>3, ChangeFollows DEF GroupInv
<1>3. ASSUME NEW ids \in SUBSET DOMAIN messages, Delete(ids)
      PROVE  Follows(Kept, messages)'
  <2> DEFINE result == Source!RemoveMessages(messages, ids)
  <2>1. /\ posted \in Nat /\ posted' = posted
        /\ result.messages \in Numbered(posted) /\ result.notice \in Notices(posted)
        /\ Change(result)
    BY <1>3, DeleteIs
  <2>2. messages \in Numbered(posted)
    BY DEF GroupInv
  <2>3. Exchanges(result)
    BY <2>1, <2>2, DeleteExchanges
  <2> HIDE DEF result
  <2>4. QED
    BY <2>1, <2>2, <2>3, ChangeFollows DEF GroupInv
<1>4. CASE UNCHANGED vars
  BY <1>4 DEF vars, Follows, GroupIs, Kept
<1>5. QED
  BY <1>1, <1>2, <1>3, <1>4 DEF Next

LEMMA InitFollows ==
  ASSUME NamesApart, GroupsPass, Init
  PROVE  Follows(Kept, messages)
<1> DEFINE u == Produced(messages)
<1>1. GroupInv /\ groups = u.groups /\ root = u.root
  BY InitKeeps
<1>2. Follows(u, messages)
  BY <1>1, BoundAssumption, ProducedFollows DEF GroupInv
<1> HIDE DEF u
<1>3. QED
  BY <1>1, <1>2 DEF Follows, GroupIs, Kept

LEMMA FollowsImplies ==
  ASSUME GroupsPass, GroupInv, Follows(Kept, messages)
  PROVE  GroupsFollowSource
<1>1. posted \in Nat /\ messages \in Numbered(posted) /\ DOMAIN groups \subseteq Words
  <2>1. posted \in Nat /\ messages \in Numbered(posted) /\ Kept \in Standing(posted, {RootPath})
    BY BoundAssumption DEF GroupInv
  <2>2. Kept.groups = groups
    BY DEF Kept
  <2>3. QED
    BY <2>1, <2>2, StandingShape
<1>2. \A n \in Words : GroupIs(Kept, n, In(messages, n))
  BY DEF Follows
<1>3. root = RootMessages(Dir!Matching(messages, Passing))
  BY DEF Follows, Top, Kept
<1>4. messages \in [DOMAIN messages -> Contents]
  BY <1>1, NumberedProps
<1>5. ASSUME NEW n PROVE Members(n) = In(messages, n)
  <2>1. \A i \in DOMAIN messages : n \in NamesOf(messages[i]) => messages[i] \in Passing
    BY <1>4 DEF NamesOf, GroupsPass
  <2>2. {i \in DOMAIN messages : messages[i] \in Passing /\ n \in NamesOf(messages[i])}
          = {i \in DOMAIN messages : n \in NamesOf(messages[i])}
    BY <2>1
  <2>3. QED
    BY <2>2 DEF Members, In, RestrictValues, Restrict
<1>6. ASSUME NEW n, In(messages, n) # None
      PROVE  n \in UNION {NamesOf(c) : c \in Contents} /\ n \in Words
  <2>1. /\ In(messages, n) \in Numbered(posted)
        /\ DOMAIN In(messages, n) = {i \in DOMAIN messages : n \in NamesOf(messages[i])}
    BY <1>1, InProps
  <2>2. PICK i \in DOMAIN messages : n \in NamesOf(messages[i])
    BY <1>1, <1>6, <2>1, NoneIs
  <2>3. messages[i] \in Contents
    BY <1>4
  <2>4. KeysOf[messages[i]] \subseteq DOMAIN DirOf
    BY <2>3, GroupsAssumption DEF Keys
  <2>5. QED
    BY <2>2, <2>3, <2>4 DEF NamesOf, Words, Range
<1>7. ASSUME NEW n PROVE n \in DOMAIN groups <=> In(messages, n) # None
  BY <1>1, <1>2, <1>6 DEF GroupIs, Kept
<1>8. \A n \in DOMAIN groups : groups[n] = In(messages, n)
  BY <1>1, <1>2 DEF GroupIs, Kept
<1>9. QED
  BY <1>3, <1>5, <1>6, <1>7, <1>8 DEF GroupsFollowSource

\* Without two groups of one directory, messages of groups that the filters
\* refuse, or edits of the messages beside the groups, every group has the
\* messages that belong to it, and there is a group for every name that has
\* any: over posts, edits and deletions (_update_group, grouperbase.py:126).
THEOREM GroupsFollow ==
  ASSUME NamesApart, GroupsPass, EditsStayBelow
  PROVE  Spec => []GroupsFollowSource
<1> DEFINE Inv == GroupInv /\ Follows(Kept, messages)
<1>1. Init => Inv
  BY InitKeeps, InitFollows
<1>2. Inv /\ [Next]_vars => Inv'
  BY NextKeeps, NextFollows
<1>3. Inv => GroupsFollowSource
  BY FollowsImplies
<1> HIDE DEF Inv
<1>4. QED
  BY <1>1, <1>2, <1>3, PTL DEF Spec

-----------------------------------------------------------------------------
(* What the directories of the groups show *)

\* So do all the directories of a group.
PartsShow(u, n) ==
  \A p \in Range(Parts) :
    Shows(u.tree.dirs[<<n>> \o p], u.files[<<n>> \o p], u.groups[n], Wanted[p])

\* Their producers have made nothing but of these messages since.
MadeSince(g, u, n, ids) ==
  \A p \in Range(Parts) :
    DOMAIN u.files[<<n>> \o p] \subseteq DOMAIN g.files[<<n>> \o p] \cup ids

LEMMA FilesNumbered ==
  ASSUME NEW N \in Nat, NEW top, NEW g \in Standing(N, top), NEW n \in DOMAIN g.groups,
         NEW p \in Range(Parts)
  PROVE  /\ <<n>> \o p \in PathsOf(n)
         /\ g.files[<<n>> \o p] \in Numbered(N) /\ g.groups[n] \in Numbered(N)
<1>1. <<n>> \o p \in PathsOf(n)
  BY DEF PathsOf
<1>2. <<n>> \o p \in DOMAIN g.files /\ g.groups[n] \in Numbered(N) /\ g \in Groupers(N)
  BY <1>1, StandingShape
<1>3. g.files \in [DOMAIN g.files -> Numbered(N)]
  BY <1>2, GrouperShape
<1>4. QED
  BY <1>1, <1>2, <1>3

LEMMA PartsRemoved ==
  ASSUME NEW N \in Nat, NEW top, NEW g \in Standing(N, top), NEW u, NEW n \in DOMAIN g.groups,
         NEW ms \in Numbered(N), NEW notice \in Notices(N), PartsShow(g, n),
         Moves(N, top, g, u, n, Less(g.groups[n], ms), notice),
         ToldRemoved(notice, g.groups[n], ms)
  PROVE  PartsShow(u, n) /\ MadeSince(g, u, n, {})
<1>1. u.groups[n] = Less(g.groups[n], ms) /\ PartsTold(g, u, n, notice)
  BY DEF Moves
<1>2. ASSUME NEW p \in Range(Parts)
      PROVE  LET q == <<n>> \o p
             IN  /\ Shows(u.tree.dirs[q], u.files[q], u.groups[n], Wanted[p])
                 /\ DOMAIN u.files[q] = DOMAIN g.files[q]
  <2> DEFINE q == <<n>> \o p
  <2>1. g.files[q] \in Numbered(N) /\ g.groups[n] \in Numbered(N)
    BY FilesNumbered
  <2>2. /\ u.files[q] = FilesNow(g.files[q], Wanted[p], notice)
        /\ u.tree.dirs[q] = ItemsNow(g.tree.dirs[q], g.files[q], Wanted[p], notice)
    BY <1>1 DEF PartsTold
  <2>3. Shows(g.tree.dirs[q], g.files[q], g.groups[n], Wanted[p])
    BY DEF PartsShow
  <2> HIDE DEF q
  <2>4. QED
    BY <1>1, <2>1, <2>2, <2>3, ShownRemoved DEF q
<1>3. QED
  BY <1>2 DEF PartsShow, MadeSince

LEMMA PartsAdded ==
  ASSUME NEW N \in Nat, NEW top, NEW g \in Standing(N, top), NEW u, NEW n \in DOMAIN g.groups,
         NEW ms \in Numbered(N), NEW notice \in Notices(N), PartsShow(g, n),
         Moves(N, top, g, u, n, More(g.groups[n], ms), notice),
         ToldAdded(notice, g.groups[n], ms),
         \A p \in Range(Parts) : \A i \in DOMAIN ms \ DOMAIN g.groups[n] :
           i \in DOMAIN g.files[<<n>> \o p] => ms[i] \in Wanted[p]
  PROVE  PartsShow(u, n) /\ MadeSince(g, u, n, DOMAIN ms)
<1>1. u.groups[n] = More(g.groups[n], ms) /\ PartsTold(g, u, n, notice)
  BY DEF Moves
<1>2. ASSUME NEW p \in Range(Parts)
      PROVE  LET q == <<n>> \o p
             IN  /\ Shows(u.tree.dirs[q], u.files[q], u.groups[n], Wanted[p])
                 /\ DOMAIN u.files[q] \subseteq DOMAIN g.files[q] \cup DOMAIN ms
  <2> DEFINE q == <<n>> \o p
  <2>1. g.files[q] \in Numbered(N) /\ g.groups[n] \in Numbered(N)
    BY FilesNumbered
  <2>2. /\ u.files[q] = FilesNow(g.files[q], Wanted[p], notice)
        /\ u.tree.dirs[q] = ItemsNow(g.tree.dirs[q], g.files[q], Wanted[p], notice)
    BY <1>1 DEF PartsTold
  <2>3. Shows(g.tree.dirs[q], g.files[q], g.groups[n], Wanted[p])
    BY DEF PartsShow
  <2>4. \A i \in DOMAIN ms \ DOMAIN g.groups[n] : i \in DOMAIN g.files[q] => ms[i] \in Wanted[p]
    OBVIOUS
  <2> HIDE DEF q
  <2>5. QED
    BY <1>1, <2>1, <2>2, <2>3, <2>4, ShownAdded DEF q
<1>3. QED
  BY <1>2 DEF PartsShow, MadeSince

LEMMA PartsEdited ==
  ASSUME NEW N \in Nat, NEW top, NEW g \in Standing(N, top), NEW u, NEW n \in DOMAIN g.groups,
         NEW ms \in Numbered(N), NEW notice \in Notices(N), PartsShow(g, n),
         DOMAIN ms \subseteq DOMAIN g.groups[n],
         Moves(N, top, g, u, n, Changed(g.groups[n], ms), notice),
         ToldEdited(notice, g.groups[n], ms)
  PROVE  PartsShow(u, n) /\ MadeSince(g, u, n, DOMAIN ms)
<1>1. u.groups[n] = Changed(g.groups[n], ms) /\ PartsTold(g, u, n, notice)
  BY DEF Moves
<1>2. ASSUME NEW p \in Range(Parts)
      PROVE  LET q == <<n>> \o p
             IN  /\ Shows(u.tree.dirs[q], u.files[q], u.groups[n], Wanted[p])
                 /\ DOMAIN u.files[q] \subseteq DOMAIN g.files[q] \cup DOMAIN ms
  <2> DEFINE q == <<n>> \o p
  <2>1. g.files[q] \in Numbered(N) /\ g.groups[n] \in Numbered(N)
    BY FilesNumbered
  <2>2. /\ u.files[q] = FilesNow(g.files[q], Wanted[p], notice)
        /\ u.tree.dirs[q] = ItemsNow(g.tree.dirs[q], g.files[q], Wanted[p], notice)
    BY <1>1 DEF PartsTold
  <2>3. Shows(g.tree.dirs[q], g.files[q], g.groups[n], Wanted[p])
    BY DEF PartsShow
  <2> HIDE DEF q
  <2>4. QED
    BY <1>1, <2>1, <2>2, <2>3, ShownEdited DEF q
<1>3. QED
  BY <1>2 DEF PartsShow, MadeSince

\* A group that has just been created shows its messages.
LEMMA FreshShows ==
  ASSUME NEW N \in Nat, NEW u, NEW n, NEW ms \in Numbered(N), FreshAt(u, n, ms)
  PROVE  /\ PartsShow(u, n)
         /\ \A p \in Range(Parts) : DOMAIN u.files[<<n>> \o p] \subseteq DOMAIN u.groups[n]
<1>1. ASSUME NEW p \in Range(Parts)
      PROVE  LET q == <<n>> \o p
             IN  /\ Shows(u.tree.dirs[q], u.files[q], u.groups[n], Wanted[p])
                 /\ DOMAIN u.files[q] \subseteq DOMAIN u.groups[n]
  <2> DEFINE q    == <<n>> \o p
             some == Dir!Matching(ms, Wanted[p])
             list == Dir!FilesOf(some)
  <2>1. u.groups[n] = ms /\ u.files[q] = some /\ u.tree.dirs[q] = list
    BY DEF FreshAt
  <2>2. /\ some \in Numbered(N) /\ DOMAIN some = {i \in DOMAIN ms : ms[i] \in Wanted[p]}
        /\ \A i \in DOMAIN some : some[i] = ms[i]
    BY MatchingNumbered, ZenonT(60)
  <2> HIDE DEF some
  <2>3. Collection(some)
    BY <2>2, NumberedProps
  <2>4. OneEach(list, some) /\ IdsOf(list) = DOMAIN some
    BY <2>3, FilesOfProps
  <2> HIDE DEF list
  <2>5. Shows(list, some, ms, Wanted[p])
    BY <2>2, <2>4 DEF Shows
  <2> HIDE DEF q
  <2>6. DOMAIN some \subseteq DOMAIN ms
    BY <2>2
  <2>7. QED
    BY <2>1, <2>5, <2>6 DEF q
<1>2. QED
  BY <1>1 DEF PartsShow

\* The update of a group leaves its directories with what is in it: a message
\* that comes, and that a producer has made something of before, is wanted.
LEMMA ShowsAfter ==
  ASSUME NEW N \in Nat, NEW top, NEW g \in Standing(N, top), NEW u \in Standing(N, top),
         NEW n, NEW before \in Numbered(N), NEW after \in Numbered(N),
         n \in DOMAIN g.groups => Exchange(g.groups[n], before, after) /\ PartsShow(g, n),
         \A p \in Range(Parts) : \A i \in DOMAIN after \ DOMAIN before :
           n \in DOMAIN g.groups /\ i \in DOMAIN g.files[<<n>> \o p] => after[i] \in Wanted[p],
         Becomes(N, top, g, u, n, before, after), n \in DOMAIN u.groups
  PROVE  /\ PartsShow(u, n)
         /\ n \in DOMAIN g.groups => MadeSince(g, u, n, DOMAIN after)
         /\ n \notin DOMAIN g.groups => \A p \in Range(Parts) :
              DOMAIN u.files[<<n>> \o p] \subseteq DOMAIN u.groups[n]
<1>1. CASE n \notin DOMAIN g.groups
  <2>1. FreshAt(u, n, after)
    BY <1>1 DEF Becomes
  <2>2. QED
    BY <1>1, <2>1, FreshShows
<1>2. CASE n \in DOMAIN g.groups
  <2> DEFINE gone   == Less(before, after)
             new    == Less(after, before)
             common == Restrict(after, DOMAIN after \cap DOMAIN before)
             own    == g.groups[n]
  <2>1. gone \in Numbered(N) /\ new \in Numbered(N) /\ common \in Numbered(N)
    BY RestrictNumbered DEF Less
  <2>2. /\ DOMAIN gone = DOMAIN before \ DOMAIN after
        /\ DOMAIN new = DOMAIN after \ DOMAIN before /\ \A i \in DOMAIN new : new[i] = after[i]
        /\ DOMAIN common = DOMAIN after \cap DOMAIN before
    BY DEF Less, Restrict
  <2>3. Steps(N, top, g, u, n, gone, new, common)
    BY <1>2 DEF Becomes
  <2>4. Exchange(own, before, after) /\ PartsShow(g, n)
    BY <1>2
  <2> HIDE DEF gone, new, common
  <2>5. PICK a, b, c \in Standing(N, top), first, second, third \in Notices(N),
             last \in Numbered(N) :
          /\ Moves(N, top, g, a, n, Less(own, gone), first)
          /\ ToldRemoved(first, own, gone)
          /\ Moves(N, top, a, b, n, More(a.groups[n], new), second)
          /\ ToldAdded(second, a.groups[n], new)
          /\ Moves(N, top, b, c, n, last, third)
          /\ DOMAIN common \subseteq DOMAIN b.groups[n] => last = Changed(b.groups[n], common)
          /\ ToldEdited(third, b.groups[n], common)
          /\ IF last = None THEN GoneAt(u, n) ELSE SameAt(c, u, n)
    BY <2>3 DEF Steps
  <2>6. /\ DOMAIN a.groups = DOMAIN g.groups /\ a.groups[n] = Less(own, gone)
        /\ DOMAIN b.groups = DOMAIN g.groups /\ b.groups[n] = More(a.groups[n], new)
    BY <1>2, <2>5 DEF Moves
  <2>7. DOMAIN a.groups[n] = DOMAIN own \ DOMAIN gone
    BY <2>6 DEF Less, Restrict
  <2>8. DOMAIN b.groups[n] = DOMAIN a.groups[n] \cup DOMAIN new
    BY <2>6 DEF More
  <2>9. DOMAIN common \subseteq DOMAIN b.groups[n]
    BY <2>2, <2>4, <2>7, <2>8 DEF Exchange
  <2>10. PartsShow(a, n) /\ MadeSince(g, a, n, {})
    BY <1>2, <2>1, <2>4, <2>5, PartsRemoved
  <2>11. PartsShow(b, n) /\ MadeSince(a, b, n, DOMAIN new)
    <3>1. ASSUME NEW p \in Range(Parts), NEW i \in DOMAIN new \ DOMAIN a.groups[n],
                 i \in DOMAIN a.files[<<n>> \o p]
          PROVE  new[i] \in Wanted[p]
      <4>1. i \in DOMAIN g.files[<<n>> \o p]
        BY <2>10, <3>1 DEF MadeSince
      <4>2. QED
        BY <1>2, <2>2, <4>1
    <3>2. QED
      BY <1>2, <2>1, <2>5, <2>6, <2>10, <3>1, PartsAdded
  <2>12. PartsShow(c, n) /\ MadeSince(b, c, n, DOMAIN common)
    BY <1>2, <2>1, <2>5, <2>6, <2>9, <2>11, PartsEdited
  <2>13. SameAt(c, u, n)
    BY <2>5 DEF GoneAt
  <2>14. /\ u.groups[n] = c.groups[n]
         /\ \A p \in Range(Parts) : /\ u.files[<<n>> \o p] = c.files[<<n>> \o p]
                                    /\ u.tree.dirs[<<n>> \o p] = c.tree.dirs[<<n>> \o p]
    BY <2>13 DEF SameAt, PathsOf
  <2>15. PartsShow(u, n)
    BY <2>12, <2>14 DEF PartsShow
  <2>16. MadeSince(g, u, n, DOMAIN after)
    BY <2>2, <2>10, <2>11, <2>12, <2>14 DEF MadeSince
  <2>17. QED
    BY <1>2, <2>15, <2>16
<1>3. QED
  BY <1>1, <1>2

\* The directories of a group show its messages.  What its producers have made
\* of messages that are not in the group is of ones that an edit took out of it.
GroupShows(u, ms, n) ==
  n \in DOMAIN u.groups =>
    /\ PartsShow(u, n)
    /\ \A p \in Range(Parts) :
         \A i \in (DOMAIN u.files[<<n>> \o p] \cap DOMAIN ms) \ DOMAIN u.groups[n] :
           \E f \in Edits : Leaves(f, n) /\ f[1] \in Wanted[p]

\* New messages are not ones that files have been made of.
Unseen(g, ms, new) ==
  \A n \in DOMAIN g.groups : \A p \in Range(Parts) :
    DOMAIN g.files[<<n>> \o p] \cap DOMAIN new \subseteq DOMAIN ms

ByEdits(old, new) == \A i \in DOMAIN old \cap DOMAIN new : <<old[i], new[i]>> \in Edits

LEMMA NameOfGroup ==
  ASSUME NEW c \in Contents, NEW n \in NamesOf(c)
  PROVE  n \in Range(DirOf)
<1>1. KeysOf[c] \subseteq DOMAIN DirOf
  BY GroupsAssumption DEF Keys
<1>2. QED
  BY <1>1 DEF NamesOf, Range

\* A message comes to a group that has made a file of it only by an edit.
LEMMA ComesBack ==
  ASSUME ReturnsAlike, NEW N \in Nat, NEW top, NEW g \in Standing(N, top),
         NEW ms \in Numbered(N), NEW old \in Numbered(N), NEW new \in Numbered(N),
         Exchange(ms, old, new), ByEdits(old, new), NEW n \in DOMAIN g.groups,
         g.groups[n] = In(ms, n), GroupShows(g, ms, n), Unseen(g, ms, new),
         NEW p \in Range(Parts), NEW i \in DOMAIN In(new, n) \ DOMAIN In(old, n),
         i \in DOMAIN g.files[<<n>> \o p]
  PROVE  In(new, n)[i] \in Wanted[p]
<1>1. i \in DOMAIN new /\ n \in NamesOf(new[i]) /\ In(new, n)[i] = new[i]
  BY InIs
<1>2. i \in DOMAIN ms /\ i \in DOMAIN old /\ old[i] = ms[i]
  BY <1>1 DEF Unseen, Exchange
<1>3. n \notin NamesOf(old[i])
  BY <1>2, InIs
<1>4. i \notin DOMAIN g.groups[n]
  BY <1>2, <1>3, InIs
<1>5. PICK f \in Edits : Leaves(f, n) /\ f[1] \in Wanted[p]
  BY <1>2, <1>4 DEF GroupShows
<1> DEFINE e == <<old[i], new[i]>>
<1>6. e \in Edits /\ Enters(e, n)
  BY <1>1, <1>2, <1>3 DEF ByEdits, Enters
<1>7. n \in Range(DirOf)
  <2>1. new[i] \in Contents
    BY <1>1, NumberedProps
  <2>2. QED
    BY <1>1, <2>1, NameOfGroup
<1>8. e[2] \in Wanted[p]
  BY <1>5, <1>6, <1>7 DEF ReturnsAlike
<1>9. QED
  BY <1>1, <1>8

\* What a producer has made of a message that leaves its group, it has made of
\* a message that an edit takes out.
LEMMA GoesOut ==
  ASSUME NEW N \in Nat, NEW top, NEW g \in Standing(N, top),
         NEW ms \in Numbered(N), NEW old \in Numbered(N), NEW new \in Numbered(N),
         Exchange(ms, old, new), ByEdits(old, new), NEW n \in DOMAIN g.groups,
         g.groups[n] = In(ms, n), GroupShows(g, ms, n), Unseen(g, ms, new),
         NEW p \in Range(Parts), NEW i \in DOMAIN g.files[<<n>> \o p],
         i \in DOMAIN Exchanged(ms, old, new), i \notin DOMAIN In(Exchanged(ms, old, new), n)
  PROVE  \E f \in Edits : Leaves(f, n) /\ f[1] \in Wanted[p]
<1> DEFINE all == Exchanged(ms, old, new)
<1>1. /\ DOMAIN all = (DOMAIN ms \ DOMAIN old) \cup DOMAIN new
      /\ \A j \in DOMAIN all : all[j] = IF j \in DOMAIN new THEN new[j] ELSE ms[j]
      /\ all \in Numbered(N)
  BY ExchangedNumbered DEF Exchanged
<1> HIDE DEF all
<1>2. i \in DOMAIN all /\ i \in DOMAIN ms
  BY <1>1 DEF Unseen, all
<1>3. n \notin NamesOf(all[i])
  BY <1>1, <1>2, InIs DEF all
<1>4. CASE i \notin DOMAIN g.groups[n]
  BY <1>2, <1>4 DEF GroupShows
<1>5. CASE i \in DOMAIN g.groups[n]
  <2>1. n \in NamesOf(ms[i]) /\ g.groups[n][i] = ms[i]
    BY <1>5, InIs
  <2>2. i \in DOMAIN new /\ i \in DOMAIN old /\ old[i] = ms[i] /\ all[i] = new[i]
    BY <1>1, <1>2, <1>3, <2>1 DEF Exchange
  <2>3. <<ms[i], new[i]>> \in Edits
    BY <2>2 DEF ByEdits
  <2>4. Leaves(<<ms[i], new[i]>>, n)
    BY <1>3, <2>1, <2>2 DEF Leaves
  <2>5. ms[i] \in Wanted[p]
    BY <1>5, <2>1 DEF GroupShows, PartsShow, Shows
  <2>6. QED
    BY <2>3, <2>4, <2>5
<1>6. QED
  BY <1>4, <1>5

\* The directories of a group show its messages after an exchange.
LEMMA ShowsExchange ==
  ASSUME ReturnsAlike, NEW N \in Nat, NEW top, NEW g \in Standing(N, top),
         NEW u \in Standing(N, top), NEW ms \in Numbered(N), NEW old \in Numbered(N),
         NEW new \in Numbered(N), Exchange(ms, old, new), ByEdits(old, new), NEW n,
         GroupIs(g, n, In(ms, n)), GroupShows(g, ms, n), Unseen(g, ms, new),
         Revised(N, top, g, u, n, old, new)
  PROVE  GroupShows(u, Exchanged(ms, old, new), n)
<1> DEFINE all    == Exchanged(ms, old, new)
           own    == In(ms, n)
           before == In(old, n)
           after  == In(new, n)
<1>1. before \in Numbered(N) /\ after \in Numbered(N)
  BY InProps
<1>2. Exchange(own, before, after)
  BY ExchangedIn
<1>3. GroupIs(u, n, In(all, n))
  BY FollowsExchange DEF Revised
<1>4. ASSUME n \in DOMAIN g.groups, NEW p \in Range(Parts), NEW i \in DOMAIN g.files[<<n>> \o p],
             i \in DOMAIN all, i \notin DOMAIN In(all, n)
      PROVE  \E f \in Edits : Leaves(f, n) /\ f[1] \in Wanted[p]
  BY <1>4, GoesOut DEF GroupIs
<1>5. CASE SameAt(g, u, n)
  <2> SUFFICES ASSUME n \in DOMAIN u.groups
               PROVE  /\ PartsShow(u, n)
                      /\ \A p \in Range(Parts) :
                           \A i \in (DOMAIN u.files[<<n>> \o p] \cap DOMAIN all)
                                      \ DOMAIN u.groups[n] :
                             \E f \in Edits : Leaves(f, n) /\ f[1] \in Wanted[p]
    BY DEF GroupShows
  <2>1. /\ n \in DOMAIN g.groups /\ u.groups[n] = g.groups[n]
        /\ \A p \in Range(Parts) : /\ u.files[<<n>> \o p] = g.files[<<n>> \o p]
                                   /\ u.tree.dirs[<<n>> \o p] = g.tree.dirs[<<n>> \o p]
    BY <1>5 DEF SameAt, PathsOf
  <2>2. PartsShow(u, n)
    BY <2>1 DEF GroupShows, PartsShow
  <2>3. u.groups[n] = In(all, n)
    BY <1>3 DEF GroupIs
  <2> HIDE DEF all
  <2>4. QED
    BY <1>4, <2>1, <2>2, <2>3
<1>6. CASE /\ Through(N, top, g, u, n, before, after)
           /\ before # None \/ after # None
  <2> SUFFICES ASSUME n \in DOMAIN u.groups
               PROVE  /\ PartsShow(u, n)
                      /\ \A p \in Range(Parts) :
                           \A i \in (DOMAIN u.files[<<n>> \o p] \cap DOMAIN all)
                                      \ DOMAIN u.groups[n] :
                             \E f \in Edits : Leaves(f, n) /\ f[1] \in Wanted[p]
    BY DEF GroupShows
  <2>1. PICK w, v \in Standing(N, top) :
          SameAt(g, w, n) /\ Becomes(N, top, w, v, n, before, after) /\ SameAt(v, u, n)
    BY <1>6 DEF Through
  <2>2. /\ n \in DOMAIN v.groups /\ u.groups[n] = v.groups[n]
        /\ \A p \in Range(Parts) : /\ u.files[<<n>> \o p] = v.files[<<n>> \o p]
                                   /\ u.tree.dirs[<<n>> \o p] = v.tree.dirs[<<n>> \o p]
    BY <2>1 DEF SameAt, PathsOf
  <2>3. /\ n \in DOMAIN w.groups <=> n \in DOMAIN g.groups
        /\ n \in DOMAIN w.groups =>
             /\ w.groups[n] = g.groups[n] /\ g.groups[n] = own
             /\ \A p \in Range(Parts) : /\ w.files[<<n>> \o p] = g.files[<<n>> \o p]
                                        /\ w.tree.dirs[<<n>> \o p] = g.tree.dirs[<<n>> \o p]
    BY <2>1 DEF SameAt, PathsOf, GroupIs
  <2>4. ASSUME NEW p \in Range(Parts), NEW i \in DOMAIN after \ DOMAIN before,
               n \in DOMAIN w.groups, i \in DOMAIN w.files[<<n>> \o p]
        PROVE  after[i] \in Wanted[p]
    <3>1. n \in DOMAIN g.groups /\ g.groups[n] = In(ms, n) /\ i \in DOMAIN g.files[<<n>> \o p]
      BY <2>3, <2>4
    <3>2. QED
      BY <3>1, ComesBack
  <2>5. n \in DOMAIN w.groups => Exchange(w.groups[n], before, after) /\ PartsShow(w, n)
    BY <1>2, <2>3 DEF GroupShows, PartsShow
  <2> HIDE DEF before, after, own
  <2>6. /\ PartsShow(v, n)
        /\ n \in DOMAIN w.groups => MadeSince(w, v, n, DOMAIN after)
        /\ n \notin DOMAIN w.groups => \A p \in Range(Parts) :
             DOMAIN v.files[<<n>> \o p] \subseteq DOMAIN v.groups[n]
    BY <1>1, <2>1, <2>2, <2>4, <2>5, ShowsAfter
  <2>7. PartsShow(u, n)
    BY <2>2, <2>6 DEF PartsShow
  <2>8. u.groups[n] = In(all, n)
    BY <1>3 DEF GroupIs
  <2>9. DOMAIN after \subseteq DOMAIN In(all, n)
    <3>1. In(all, n) = Exchanged(own, before, after)
      BY ExchangedIn DEF own, before, after
    <3>2. QED
      BY <3>1 DEF Exchanged
  <2> HIDE DEF all
  <2>10. ASSUME NEW p \in Range(Parts),
                NEW i \in (DOMAIN u.files[<<n>> \o p] \cap DOMAIN all) \ DOMAIN u.groups[n]
         PROVE  \E f \in Edits : Leaves(f, n) /\ f[1] \in Wanted[p]
    <3>1. n \in DOMAIN w.groups /\ i \in DOMAIN w.files[<<n>> \o p]
      BY <2>2, <2>6, <2>8, <2>9 DEF MadeSince
    <3>2. n \in DOMAIN g.groups /\ i \in DOMAIN g.files[<<n>> \o p]
      BY <2>3, <3>1
    <3>3. QED
      BY <1>4, <2>8, <3>2
  <2>11. QED
    BY <2>7, <2>10
<1>7. QED
  BY <1>5, <1>6 DEF Revised

\* All the directories show their messages.
AllShow(u, ms) == TopShows(u) /\ \A n \in Words : GroupShows(u, ms, n)

LEMMA ChangeShows ==
  ASSUME NamesApart, GroupsPass, ReturnsAlike,
         NEW N \in Nat, N \in 0..MaxMessages, posted' = N,
         messages \in Numbered(N), Kept \in Standing(N, {RootPath}),
         seen = [p \in DOMAIN seen |-> seen[p]],
         NEW result, result.messages \in Numbered(N), result.notice \in Notices(N),
         Change(result), Exchanges(result), Follows(Kept, messages),
         ByEdits(result.notice.old, result.notice.new),
         Unseen(Kept, messages, result.notice.new), AllShow(Kept, messages)
  PROVE  AllShow(Kept, messages)'
<1> DEFINE notice == result.notice
           u      == Updated(Kept, notice)
           old    == notice.old
           new    == notice.new
           all    == Exchanged(messages, old, new)
<1>1. /\ messages' = all /\ u \in Standing(N, {RootPath})
      /\ groups' = u.groups /\ root' = u.root /\ files' = u.files /\ tree'.dirs = u.tree.dirs
  BY ChangeKeeps DEF Exchanges
<1>2. /\ notice.kind = "new" => NewDone(N, Kept, u, notice)
      /\ notice.kind = "removed" => RemovedDone(N, Kept, u, notice)
      /\ notice.kind = "edited" => EditedDone(N, Kept, u, notice)
  BY UpdatedProps
<1> HIDE DEF u
<1>3. Exchange(messages, old, new) /\ old \in Numbered(N) /\ new \in Numbered(N)
  BY DEF Exchanges, Notices
<1>4. /\ \A n \in Words : Revised(N, {RootPath}, Kept, u, n, old, new)
      /\ TopShows(Kept) => TopShows(u)
  <2>1. CASE notice.kind = "new" /\ old = None
    BY <1>1, <1>2, <2>1, NewRevises
  <2>2. CASE notice.kind = "removed" /\ new = None
    BY <1>1, <1>2, <2>2, RemovedRevises
  <2>3. CASE notice.kind = "edited"
    BY <1>1, <1>2, <2>3, EditedRevises
  <2>4. QED
    BY <2>1, <2>2, <2>3 DEF Exchanges
<1> HIDE DEF notice, old, new
<1>5. ASSUME NEW n \in Words PROVE GroupShows(u, all, n)
  <2>1. GroupIs(Kept, n, In(messages, n)) /\ GroupShows(Kept, messages, n)
    BY DEF Follows, AllShow
  <2>2. ByEdits(old, new) /\ Unseen(Kept, messages, new)
    BY DEF old, new, notice
  <2>3. QED
    BY <1>1, <1>3, <1>4, <2>1, <2>2, ShowsExchange
<1> HIDE DEF all
<1>6. TopShows(u)
  BY <1>4 DEF AllShow
<1>7. QED
  BY <1>1, <1>5, <1>6 DEF AllShow, TopShows, GroupShows, PartsShow, Kept

\* A message that is posted is one that no file has been made of.
LEMMA PostUnseen ==
  ASSUME GroupInv, NEW new, DOMAIN new = {posted + 1}
  PROVE  Unseen(Kept, messages, new)
<1>1. posted \in Nat /\ Kept \in Standing(posted, {RootPath})
  BY BoundAssumption DEF GroupInv
<1>2. ASSUME NEW n \in DOMAIN Kept.groups, NEW p \in Range(Parts)
      PROVE  DOMAIN Kept.files[<<n>> \o p] \cap DOMAIN new \subseteq DOMAIN messages
  <2>1. Kept.files[<<n>> \o p] \in Numbered(posted)
    BY <1>1, FilesNumbered
  <2>2. DOMAIN Kept.files[<<n>> \o p] \subseteq 1..posted
    BY <1>1, <2>1, NumberedProps
  <2>3. posted + 1 \notin 1..posted
    BY <1>1
  <2>4. QED
    BY <2>2, <2>3
<1>3. QED
  BY <1>2 DEF Unseen

LEMMA NextShows ==
  ASSUME NamesApart, GroupsPass, EditsStayBelow, ReturnsAlike,
         GroupInv, Follows(Kept, messages), AllShow(Kept, messages), [Next]_vars
  PROVE  AllShow(Kept, messages)'
<1>1. ASSUME NEW c \in Contents, Post(c) PROVE AllShow(Kept, messages)'
  <2> DEFINE N == posted + 1
             one == [j \in {N} |-> c]
             result == Source!AddMessages(messages, one)
  <2>1. /\ N \in Nat /\ N \in 0..MaxMessages /\ posted' = N
        /\ one \in Numbered(N) /\ N \notin DOMAIN messages
        /\ messages \in Numbered(N) /\ Kept \in Standing(N, {RootPath})
        /\ result.messages \in Numbered(N) /\ result.notice \in Notices(N)
        /\ Change(result)
    BY <1>1, PostIs
  <2>2. DOMAIN one = {N}
    OBVIOUS
  <2>3. Unseen(Kept, messages, one)
    BY <2>2, PostUnseen
  <2> HIDE DEF N, one
  <2>4. Exchanges(result) /\ result.notice.new = one
    BY <2>1, <2>2, PostExchanges
  <2>5. result.notice.old = None
    <3>1. MessagesAdded(N, result, messages, one)
      BY <2>1, AddMessagesProps, Zenon
    <3> HIDE DEF result
    <3>2. QED
      BY <3>1, Zenon DEF MessagesAdded
  <2>6. ByEdits(result.notice.old, result.notice.new)
    BY <2>1, <2>5, NoneNumbered DEF ByEdits
  <2> HIDE DEF result
  <2>7. QED
    BY <2>1, <2>3, <2>4, <2>6, ChangeShows DEF GroupInv
<1>2. ASSUME NEW i \in DOMAIN messages, NEW c \in Contents, Edit(i, c)
      PROVE  AllShow(Kept, messages)'
  <2> DEFINE one == [j \in {i} |-> c]
             result == Source!EditMessages(messages, one)
  <2>1. /\ posted \in Nat /\ posted' = posted /\ one \in Numbered(posted)
        /\ result.messages \in Numbered(posted) /\ result.notice \in Notices(posted)
        /\ <<messages[i], c>> \in Edits /\ Change(result)
    BY <1>2, EditIs
  <2>2. messages \in Numbered(posted)
    BY DEF GroupInv
  <2>3. EditTold(result, i, c)
    BY <2>1, <2>2, EditExchanges, Zenon
  <2> HIDE DEF result
  <2>4. ByEdits(result.notice.old, result.notice.new)
    BY <2>1, <2>3 DEF ByEdits, EditTold
  <2>5. Unseen(Kept, messages, result.notice.new)
    BY <2>3 DEF Unseen, EditTold
  <2>6. QED
    BY <2>1, <2>2, <2>3, <2>4, <2>5, ChangeShows DEF GroupInv, EditTold
<1>3. ASSUME NEW ids \in SUBSET DOMAIN messages, Delete(ids)
      PROVE  AllShow(Kept, messages)'
  <2> DEFINE result == Source!RemoveMessages(messages, ids)
  <2>1. /\ posted \in Nat /\ posted' = posted
        /\ result.messages \in Numbered(posted) /\ result.notice \in Notices(posted)
        /\ Change(result)
    BY <1>3, DeleteIs
  <2>2. messages \in Numbered(posted)
    BY DEF GroupInv
  <2>3. Exchanges(result) /\ result.notice.new = None
    BY <2>1, <2>2, DeleteExchanges
  <2> HIDE DEF result
  <2>4. /\ ByEdits(result.notice.old, result.notice.new)
        /\ Unseen(Kept, messages, result.notice.new)
    BY <2>1, <2>3, NoneNumbered DEF ByEdits, Unseen
  <2>5. QED
    BY <2>1, <2>2, <2>3, <2>4, ChangeShows DEF GroupInv
<1>4. CASE UNCHANGED vars
  BY <1>4 DEF vars, AllShow, TopShows, GroupShows, PartsShow, Kept
<1>5. QED
  BY <1>1, <1>2, <1>3, <1>4 DEF Next

LEMMA InitShows ==
  ASSUME NamesApart, GroupsPass, Init
  PROVE  AllShow(Kept, messages)
<1> DEFINE u       == Produced(messages)
           grouped == Grouped(Dir!Matching(messages, Passing))
           own     == Top(messages)
<1>1. /\ GroupInv /\ groups = u.groups /\ root = u.root
      /\ files = u.files /\ tree.dirs = u.tree.dirs
  BY InitKeeps
<1>2. posted \in Nat /\ messages \in Numbered(posted)
  BY <1>1, BoundAssumption DEF GroupInv
<1>3. /\ DOMAIN u.groups = DOMAIN grouped
      /\ \A n \in DOMAIN grouped : FreshAt(u, n, grouped[n])
      /\ u.root = own /\ u.files[RootPath] = own /\ u.tree.dirs[RootPath] = Dir!FilesOf(own)
  BY <1>2, ProducedProps DEF Top
<1>4. \A n : GroupIn(grouped, n) \in Numbered(posted)
  BY <1>2, MatchingNumbered, GroupedProps
<1>5. own \in Numbered(posted) /\ \A i \in DOMAIN own : own[i] \in Passing
  <2>1. /\ own \in Numbered(posted)
        /\ DOMAIN own = {i \in DOMAIN messages : messages[i] \in InRoot /\ messages[i] \in Passing}
        /\ \A i \in DOMAIN own : own[i] = messages[i]
    BY <1>2, TopProps, Zenon
  <2> HIDE DEF own
  <2>2. QED
    BY <2>1
<1> HIDE DEF u, grouped, own
<1>6. ASSUME NEW n \in DOMAIN u.groups PROVE GroupShows(u, messages, n)
  <2>1. FreshAt(u, n, grouped[n]) /\ grouped[n] \in Numbered(posted)
    BY <1>3, <1>4 DEF GroupIn
  <2>2. /\ PartsShow(u, n)
        /\ \A p \in Range(Parts) : DOMAIN u.files[<<n>> \o p] \subseteq DOMAIN u.groups[n]
    BY <1>2, <2>1, FreshShows
  <2>3. QED
    BY <2>2 DEF GroupShows
<1>7. TopShows(u)
  <2> DEFINE list == Dir!FilesOf(own)
  <2>1. OneEach(list, own) /\ IdsOf(list) = DOMAIN own
    BY <1>2, <1>5, NumberedProps, FilesOfProps
  <2> HIDE DEF list
  <2>2. Shows(list, own, own, Passing)
    BY <1>5, <2>1 DEF Shows
  <2>3. QED
    BY <1>3, <2>2 DEF TopShows, list
<1>8. QED
  BY <1>1, <1>6, <1>7 DEF AllShow, TopShows, GroupShows, PartsShow, Kept

\* A directory that shows its messages has the files of the ones it wants.
LEMMA ShownFiles ==
  ASSUME NEW N \in Nat, NEW list, NEW made, NEW own \in Numbered(N), NEW wanted,
         Shows(list, made, own, wanted)
  PROVE  /\ IsInjective(list)
         /\ Range(list) = {Dir!File(i, own[i]) : i \in {j \in DOMAIN own : own[j] \in wanted}}
<1> DEFINE ids == {j \in DOMAIN own : own[j] \in wanted}
<1>1. /\ \A k, l \in DOMAIN list : list[k].id = list[l].id => k = l
      /\ \A k \in DOMAIN list : list[k] = Dir!File(list[k].id, made[list[k].id])
      /\ {list[k].id : k \in DOMAIN list} = ids
      /\ \A i \in ids : made[i] = own[i]
  BY DEF Shows, OneEach, IdsOf
<1> HIDE DEF ids
<1>2. \A k \in DOMAIN list : list[k].id \in ids /\ list[k] = Dir!File(list[k].id, own[list[k].id])
  BY <1>1
<1>3. IsInjective(list)
  BY <1>1 DEF IsInjective
<1>4. \A i \in ids : \E k \in DOMAIN list : list[k] = Dir!File(i, own[i])
  BY <1>1, <1>2
<1>5. Range(list) = {Dir!File(i, own[i]) : i \in ids}
  BY <1>2, <1>4 DEF Range
<1>6. QED
  BY <1>3, <1>5 DEF ids

LEMMA ShowsImplies ==
  ASSUME GroupInv, Follows(Kept, messages), AllShow(Kept, messages)
  PROVE  DirsShowGroups
<1>1. posted \in Nat /\ messages \in Numbered(posted) /\ Kept \in Standing(posted, {RootPath})
  BY BoundAssumption DEF GroupInv
<1>2. Kept.groups = groups /\ Kept.root = root /\ Kept.files = files /\ Kept.tree = tree
  BY DEF Kept
<1>3. /\ groups \in [DOMAIN groups -> Numbered(posted)] /\ DOMAIN groups \subseteq Words
      /\ root \in Numbered(posted)
  BY <1>1, <1>2, StandingShape
<1>4. DOMAIN tree.dirs =
        {RootPath} \cup UNION {{<<n>>} \cup {<<n>> \o p : p \in Range(Parts)} :
                                 n \in DOMAIN groups}
  BY <1>1, <1>2 DEF Standing, DirsOf, PathsOf
<1>5. ASSUME NEW n \in DOMAIN groups, NEW p \in Range(Parts)
      PROVE  /\ IsInjective(tree.dirs[<<n>> \o p])
             /\ FilesShown(<<n>> \o p) = Range(Dir!FilesOf(Dir!Matching(groups[n], Wanted[p])))
  <2> DEFINE some == Dir!Matching(groups[n], Wanted[p])
  <2>1. groups[n] \in Numbered(posted) /\ n \in Words
    BY <1>3
  <2>2. Shows(tree.dirs[<<n>> \o p], files[<<n>> \o p], groups[n], Wanted[p])
    BY <1>2, <2>1 DEF AllShow, GroupShows, PartsShow
  <2>3. /\ some \in Numbered(posted)
        /\ DOMAIN some = {i \in DOMAIN groups[n] : groups[n][i] \in Wanted[p]}
        /\ \A i \in DOMAIN some : some[i] = groups[n][i]
    <3>1. posted \in Nat
      BY <1>1
    <3>2. some \in Numbered(posted)
      BY <2>1, <3>1, MatchingNumbered, Zenon
    <3>3. QED
      BY <2>1, <3>1, <3>2, MatchingIs
  <2> HIDE DEF some
  <2>4. Range(Dir!FilesOf(some)) = {Dir!File(i, some[i]) : i \in DOMAIN some}
    BY <1>1, <2>3, NumberedProps, FilesOfProps
  <2>5. /\ IsInjective(tree.dirs[<<n>> \o p])
        /\ Range(tree.dirs[<<n>> \o p])
             = {Dir!File(i, groups[n][i]) :
                  i \in {j \in DOMAIN groups[n] : groups[n][j] \in Wanted[p]}}
    BY <1>1, <2>1, <2>2, ShownFiles
  <2>6. QED
    BY <2>3, <2>4, <2>5 DEF FilesShown, some
<1>6. IsInjective(tree.dirs[RootPath]) /\ FilesShown(RootPath) = Range(Dir!FilesOf(root))
  <2>1. Shows(tree.dirs[RootPath], files[RootPath], root, Passing)
    BY <1>2 DEF AllShow, TopShows
  <2>2. root = Top(messages)
    BY <1>2 DEF Follows
  <2>3. \A i \in DOMAIN root : root[i] \in Passing
    BY <1>1, <2>2, TopProps
  <2>4. {j \in DOMAIN root : root[j] \in Passing} = DOMAIN root
    BY <2>3
  <2>5. Range(Dir!FilesOf(root)) = {Dir!File(i, root[i]) : i \in DOMAIN root}
    BY <1>1, <1>3, NumberedProps, FilesOfProps
  <2>6. /\ IsInjective(tree.dirs[RootPath])
        /\ Range(tree.dirs[RootPath])
             = {Dir!File(i, root[i]) : i \in {j \in DOMAIN root : root[j] \in Passing}}
    BY <1>1, <1>3, <2>1, ShownFiles
  <2>7. QED
    BY <2>4, <2>5, <2>6 DEF FilesShown
<1>7. QED
  BY <1>4, <1>5, <1>6 DEF DirsShowGroups

\* If, besides, a message that an edit takes out of a group and another brings
\* back is wanted by the parts that wanted it, every part of a group has one
\* file for each of its messages that it wants, made of the message as it is
\* now, over all that the producers have made before: updates go by what is in
\* _message_to_file, which keeps removed messages (producer_plain.py:193).
THEOREM DirsShow ==
  ASSUME NamesApart, GroupsPass, EditsStayBelow, ReturnsAlike
  PROVE  Spec => []DirsShowGroups
<1> DEFINE Inv == GroupInv /\ Follows(Kept, messages) /\ AllShow(Kept, messages)
<1>1. Init => Inv
  <2> SUFFICES ASSUME Init PROVE Inv
    OBVIOUS
  <2>1. GroupInv /\ AllShow(Kept, messages)
    BY InitKeeps, InitShows
  <2>2. Follows(Kept, messages)
    BY InitFollows
  <2>3. QED
    BY <2>1, <2>2
<1>2. Inv /\ [Next]_vars => Inv'
  BY NextKeeps, NextFollows, NextShows
<1>3. Inv => DirsShowGroups
  BY ShowsImplies
<1> HIDE DEF Inv
<1>4. QED
  BY <1>1, <1>2, <1>3, PTL DEF Spec
=============================================================================
