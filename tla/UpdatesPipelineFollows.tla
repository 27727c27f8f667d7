----------------------- MODULE UpdatesPipelineFollows -----------------------
(***************************************************************************)
(* Proofs that in UpdatesPipeline every directory shows its source and a   *)
(* connected source has what its entity has, for any number of entities,   *)
(* sources and directories, messages and updates.                          *)
(***************************************************************************)
EXTENDS UpdatesPipelineProofs, SequenceLemmas

-----------------------------------------------------------------------------
(* The operators PlainDir takes from the community modules *)

LEMMA SameOperators ==
  /\ \A S : P!SetToSeq(S) = SetToSeq(S)
  /\ \A s : P!ToSet(s) = ToSet(s)
  /\ \A list, gone : P!Dropped(list, gone) = FoldLeft(RemoveFirst, list, gone)
<1>1. \A S : P!SetToSeq(S) = SetToSeq(S)
  BY Zenon DEF P!SetToSeq, SetToSeq, P!IsInjective, IsInjective, P!Cardinality, Cardinality
<1>2. \A s : P!ToSet(s) = ToSet(s)
  BY DEF P!ToSet, ToSet
<1>3. \A list, gone : P!Dropped(list, gone) = FoldLeft(RemoveFirst, list, gone)
  BY DEF P!Dropped, P!FoldLeft, FoldLeft, P!MapThenFoldSet, MapThenFoldSet, P!Max, Max,
         P!RemoveFirst, RemoveFirst, P!RemoveAt, RemoveAt, P!SelectInSeq, SelectInSeq,
         P!Min, Min
<1>4. QED
  BY <1>1, <1>2, <1>3

-----------------------------------------------------------------------------
(* What a notice makes of a directory *)

Item == [id : Nat, content : Contents]

\* Messages as a source has them: finitely many, with their contents.
Collection(ms) ==
  /\ ms \in [DOMAIN ms -> Contents]
  /\ DOMAIN ms \subseteq Nat /\ IsFiniteSet(DOMAIN ms)

IdsOf(list) == {list[k].id : k \in DOMAIN list}

\* The items are those of the files that were made, one for an id.
OneEach(list, made) ==
  /\ list \in Seq(Item)
  /\ \A k, l \in DOMAIN list : list[k].id = list[l].id => k = l
  /\ \A k \in DOMAIN list :
       list[k].id \in DOMAIN made /\ list[k] = P!File(list[k].id, made[list[k].id])

LEMMA FileIsItem ==
  ASSUME NEW i \in Nat, NEW c \in Contents
  PROVE  P!File(i, c) \in Item /\ P!File(i, c).id = i /\ P!File(i, c).content = c
BY DEF P!File, Item

\* A sequence of the numbers of a finite set.
LEMMA Enumerates ==
  ASSUME NEW S, IsFiniteSet(S)
  PROVE  /\ P!SetToSeq(S) \in Seq(S) /\ ToSet(P!SetToSeq(S)) = S
         /\ \A k, l \in DOMAIN P!SetToSeq(S) : P!SetToSeq(S)[k] = P!SetToSeq(S)[l] => k = l
<1> DEFINE n == Cardinality(S)
           f == SetToSeq(S)
<1>1. /\ f \in [1..n -> S] /\ n \in Nat
      /\ \A k, l \in 1..n : f[k] = f[l] => k = l
      /\ \A e \in S : \E k \in 1..n : f[k] = e
  BY EachOnce
<1> HIDE DEF f, n
<1>2. f \in Seq(S) /\ DOMAIN f = 1..n /\ ToSet(f) = S
  BY <1>1 DEF ToSet
<1>3. P!SetToSeq(S) = f
  BY SameOperators DEF f
<1>4. QED
  BY <1>1, <1>2, <1>3

\* The files of messages.
LEMMA FilesOfProps ==
  ASSUME NEW ms, Collection(ms)
  PROVE  /\ OneEach(P!FilesOf(ms), ms) /\ IdsOf(P!FilesOf(ms)) = DOMAIN ms
         /\ Range(P!FilesOf(ms)) = {P!File(i, ms[i]) : i \in DOMAIN ms}
<1> DEFINE S    == {P!File(i, ms[i]) : i \in DOMAIN ms}
           list == P!SetToSeq(S)
<1>1. IsFiniteSet(S)
  <2> DEFINE f == [i \in DOMAIN ms |-> P!File(i, ms[i])]
  <2>1. f \in Surjection(DOMAIN ms, S)
    BY DEF Surjection
  <2>2. QED
    BY <2>1, FS_Surjection, Zenon DEF Collection
<1>2. ASSUME NEW i \in DOMAIN ms
      PROVE  /\ P!File(i, ms[i]) \in Item /\ P!File(i, ms[i]).id = i
  BY FileIsItem DEF Collection
<1>3. \A f \in S : f \in Item /\ f.id \in DOMAIN ms /\ f = P!File(f.id, ms[f.id])
  BY <1>2
<1>4. /\ list \in Seq(S) /\ ToSet(list) = S
      /\ \A k, l \in DOMAIN list : list[k] = list[l] => k = l
  BY <1>1, Enumerates
<1>5. P!FilesOf(ms) = list
  BY DEF P!FilesOf
<1> HIDE DEF list
<1>6. \A k \in DOMAIN list : list[k] \in S
  BY <1>4
<1>7. list \in Seq(Item)
  BY <1>3, <1>4
<1>8. \A k, l \in DOMAIN list : list[k].id = list[l].id => k = l
  BY <1>3, <1>4, <1>6
<1>9. IdsOf(list) = DOMAIN ms
  <2>1. ASSUME NEW i \in DOMAIN ms PROVE i \in IdsOf(list)
    <3>1. PICK k \in DOMAIN list : list[k] = P!File(i, ms[i])
      BY <1>4 DEF ToSet
    <3>2. QED
      BY <1>2, <3>1 DEF IdsOf
  <2>2. QED
    BY <1>3, <1>6, <2>1 DEF IdsOf
<1>10. Range(list) = S
  BY <1>4 DEF ToSet, Range
<1>11. QED
  BY <1>3, <1>5, <1>6, <1>7, <1>8, <1>9, <1>10 DEF OneEach

\* Only what is made of the listed messages matters.
LEMMA OneEachAgree ==
  ASSUME NEW list, NEW made, NEW other, OneEach(list, made),
         \A i \in IdsOf(list) : i \in DOMAIN other /\ other[i] = made[i]
  PROVE  OneEach(list, other)
<1>1. \A k \in DOMAIN list : list[k].id \in IdsOf(list)
  BY DEF IdsOf
<1>2. QED
  BY <1>1 DEF OneEach

\* list.remove takes the item of a message away, if it is there as it was made.
LEMMA DroppedProps ==
  ASSUME NEW list, NEW made, NEW gone, OneEach(list, made), Collection(gone),
         DOMAIN gone \subseteq DOMAIN made, \A i \in DOMAIN gone : gone[i] = made[i]
  PROVE  LET left == P!Dropped(list, P!FilesOf(gone))
         IN  OneEach(left, made) /\ IdsOf(left) = IdsOf(list) \ DOMAIN gone
<1> DEFINE those == P!FilesOf(gone)
           left  == FoldLeft(RemoveFirst, list, those)
<1>1. /\ those \in Seq(Item)
      /\ Range(those) = {P!File(i, gone[i]) : i \in DOMAIN gone}
  BY FilesOfProps DEF OneEach
<1>2. list \in Seq(Item) /\ IsInjective(list)
  BY DEF OneEach, IsInjective
<1>3. /\ left \in Seq(Item) /\ IsInjective(left)
      /\ Range(left) = Range(list) \ Range(those)
  BY <1>1, <1>2, RemovesAll
<1>4. P!Dropped(list, P!FilesOf(gone)) = left
  BY SameOperators
<1> HIDE DEF those, left
<1>5. ASSUME NEW f \in Range(list)
      PROVE  /\ f.id \in IdsOf(list) /\ f.id \in DOMAIN made
             /\ f = P!File(f.id, made[f.id])
             /\ f \in Range(those) <=> f.id \in DOMAIN gone
  <2>1. f.id \in IdsOf(list) /\ f.id \in DOMAIN made /\ f = P!File(f.id, made[f.id])
    BY DEF Range, IdsOf, OneEach
  <2>2. \A i : P!File(i, gone[i]).id = i
    BY DEF P!File
  <2>3. QED
    BY <1>1, <2>1, <2>2
<1>6. \A k \in DOMAIN left : left[k] \in Range(list) /\ left[k].id \notin DOMAIN gone
  BY <1>3, <1>5 DEF Range
<1>7. \A f, g \in Range(list) : f.id = g.id => f = g
  BY DEF OneEach, Range
<1>8. OneEach(left, made)
  <2>1. \A k, l \in DOMAIN left : left[k].id = left[l].id => k = l
    BY <1>3, <1>6, <1>7 DEF IsInjective
  <2>2. QED
    BY <1>3, <1>5, <1>6, <2>1 DEF OneEach
<1>9. IdsOf(left) = IdsOf(list) \ DOMAIN gone
  <2>1. ASSUME NEW i \in IdsOf(list) \ DOMAIN gone PROVE i \in IdsOf(left)
    <3>1. PICK f \in Range(list) : f.id = i
      BY DEF IdsOf, Range
    <3>2. f \in Range(left)
      BY <1>3, <1>5, <3>1
    <3>3. QED
      BY <3>1, <3>2 DEF IdsOf, Range
  <2>2. QED
    BY <1>5, <1>6, <2>1 DEF IdsOf
<1>10. QED
  BY <1>4, <1>8, <1>9

\* Items of other messages may follow.
LEMMA JoinedProps ==
  ASSUME NEW list, NEW more, NEW made, OneEach(list, made), OneEach(more, made),
         IdsOf(list) \cap IdsOf(more) = {}
  PROVE  /\ OneEach(list \o more, made)
         /\ IdsOf(list \o more) = IdsOf(list) \cup IdsOf(more)
<1> DEFINE all == list \o more
           m   == Len(list)
           n   == Len(more)
<1>1. /\ list \in Seq(Item) /\ DOMAIN list = 1..m /\ m \in Nat
      /\ more \in Seq(Item) /\ DOMAIN more = 1..n /\ n \in Nat
  BY DEF OneEach
<1>2. /\ all \in Seq(Item) /\ DOMAIN all = 1..(m + n)
      /\ \A k \in 1..(m + n) : all[k] = IF k <= m THEN list[k] ELSE more[k - m]
  BY <1>1
<1> HIDE DEF all, m, n
<1>3. ASSUME NEW k \in 1..(m + n)
      PROVE  \/ k \in 1..m /\ all[k] = list[k] /\ all[k].id \in IdsOf(list)
             \/ k - m \in 1..n /\ all[k] = more[k - m] /\ all[k].id \in IdsOf(more)
  <2>1. CASE k <= m
    <3>1. k \in 1..m /\ all[k] = list[k]
      BY <1>1, <1>2, <2>1
    <3>2. QED
      BY <1>1, <3>1 DEF IdsOf
  <2>2. CASE ~(k <= m)
    <3>1. k - m \in 1..n /\ all[k] = more[k - m]
      BY <1>1, <1>2, <2>2
    <3>2. QED
      BY <1>1, <3>1 DEF IdsOf
  <2>3. QED
    BY <2>1, <2>2
<1>4. \A k \in DOMAIN all :
        all[k].id \in DOMAIN made /\ all[k] = P!File(all[k].id, made[all[k].id])
  BY <1>1, <1>2, <1>3 DEF OneEach
<1>5. ASSUME NEW k \in 1..(m + n), NEW l \in 1..(m + n), all[k].id = all[l].id
      PROVE  k = l
  <2>1. CASE all[k].id \in IdsOf(list)
    <3>1. k \in 1..m /\ l \in 1..m /\ list[k].id = list[l].id
      BY <1>3, <1>5, <2>1
    <3>2. QED
      BY <1>1, <3>1 DEF OneEach
  <2>2. CASE all[k].id \in IdsOf(more)
    <3>1. k - m \in 1..n /\ l - m \in 1..n /\ more[k - m].id = more[l - m].id
      BY <1>3, <1>5, <2>2
    <3>2. k - m = l - m
      BY <1>1, <3>1 DEF OneEach
    <3>3. QED
      BY <1>1, <3>2
  <2>3. QED
    BY <1>3, <2>1, <2>2
<1>6. \A i \in IdsOf(list) : i \in IdsOf(all)
  <2>1. \A k \in 1..m : k \in 1..(m + n) /\ all[k] = list[k]
    BY <1>1, <1>2
  <2>2. QED
    BY <1>1, <1>2, <2>1 DEF IdsOf
<1>7. \A i \in IdsOf(more) : i \in IdsOf(all)
  <2>1. \A k \in 1..n : m + k \in 1..(m + n) /\ all[m + k] = more[k]
    BY <1>1, <1>2
  <2>2. QED
    BY <1>1, <1>2, <2>1 DEF IdsOf
<1>8. IdsOf(all) \subseteq IdsOf(list) \cup IdsOf(more)
  BY <1>2, <1>3 DEF IdsOf
<1>9. OneEach(all, made)
  BY <1>2, <1>4, <1>5 DEF OneEach
<1>10. QED
  BY <1>6, <1>7, <1>8, <1>9 DEF all

\* An update changes the items of its messages and leaves their places alone.
LEMMA ReplacedProps ==
  ASSUME NEW list, NEW made, NEW update, NEW other, OneEach(list, made),
         Collection(update),
         \A i \in IdsOf(list) :
           /\ i \in DOMAIN other
           /\ other[i] = IF i \in DOMAIN update THEN update[i] ELSE made[i]
  PROVE  /\ OneEach(P!Replaced(list, update), other)
         /\ IdsOf(P!Replaced(list, update)) = IdsOf(list)
<1> DEFINE new == P!Replaced(list, update)
<1>1. /\ DOMAIN new = DOMAIN list /\ list \in Seq(Item)
      /\ \A k \in DOMAIN list :
           new[k] = IF list[k].id \in DOMAIN update
                    THEN P!File(list[k].id, update[list[k].id]) ELSE list[k]
  BY DEF P!Replaced, OneEach
<1>2. \A k \in DOMAIN list : list[k].id \in IdsOf(list) /\ list[k].id \in Nat
  <2>1. \A k \in DOMAIN list : list[k] \in Item
    BY <1>1
  <2>2. QED
    BY <2>1 DEF IdsOf, Item
<1>3. ASSUME NEW k \in DOMAIN list
      PROVE  /\ new[k] \in Item /\ new[k].id = list[k].id
             /\ new[k] = P!File(list[k].id, other[list[k].id])
  <2>1. CASE list[k].id \in DOMAIN update
    <3>1. new[k] = P!File(list[k].id, update[list[k].id])
      BY <1>1, <2>1
    <3>2. update[list[k].id] \in Contents
      BY <2>1 DEF Collection
    <3>3. QED
      BY <1>2, <2>1, <3>1, <3>2, FileIsItem
  <2>2. CASE list[k].id \notin DOMAIN update
    <3>1. new[k] = list[k] /\ list[k] \in Item
      BY <1>1, <2>2
    <3>2. list[k] = P!File(list[k].id, made[list[k].id])
      BY DEF OneEach
    <3>3. QED
      BY <1>2, <2>2, <3>1, <3>2
  <2>3. QED
    BY <2>1, <2>2
<1> HIDE DEF new
<1>4. new \in Seq(Item)
  <2>1. new = [k \in 1..Len(list) |-> new[k]] /\ DOMAIN list = 1..Len(list)
        /\ Len(list) \in Nat
    BY <1>1 DEF new, P!Replaced
  <2>2. QED
    BY <1>3, <2>1
<1>5. OneEach(new, other)
  BY <1>1, <1>2, <1>3, <1>4 DEF OneEach
<1>6. IdsOf(new) = IdsOf(list)
  BY <1>1, <1>3 DEF IdsOf
<1>7. QED
  BY <1>5, <1>6 DEF new

-----------------------------------------------------------------------------
(* A plan and what it makes of a directory *)

\* The ids of a notice: new messages that pass the filters of the directory,
\* messages a file was made of, and what becomes of either.
Passing(n, wanted) == {i \in DOMAIN n.new : n.new[i] \in wanted}
Olds(n, made) == DOMAIN n.old \cap DOMAIN made
Adds(n, made, wanted) ==
  IF n.kind = "new" THEN Passing(n, wanted) ELSE Passing(n, wanted) \ Olds(n, made)
Updates(n, made, wanted) == Passing(n, wanted) \cap Olds(n, made)
Removes(n, made, wanted) == Olds(n, made) \ Passing(n, wanted)
Prunes(n, made, wanted) == IF n.kind = "edited" THEN Removes(n, made, wanted) ELSE {}

PlanFor(n, made, wanted) == P!Plan(n, made, P!PassingIds(n.new, wanted))

\* The files of these ids are added, updated and removed.
PlanDoes(plan, n, made, wanted) ==
  /\ OneEach(plan.add, n.new) /\ IdsOf(plan.add) = Adds(n, made, wanted)
  /\ plan.update = [i \in Updates(n, made, wanted) |-> n.new[i]]
  /\ plan.remove = [i \in Removes(n, made, wanted) |-> made[i]]
  /\ plan.prune = Prunes(n, made, wanted)

\* _message_to_file has what was made before and what the plan made.
FilesBecome(after, n, made, wanted) ==
  LET fresh == Adds(n, made, wanted) \cup Updates(n, made, wanted)
  IN  /\ DOMAIN after = (DOMAIN made \cup fresh) \ Prunes(n, made, wanted)
      /\ \A i \in DOMAIN after : after[i] = IF i \in fresh THEN n.new[i] ELSE made[i]

\* That is what a plan does.
LEMMA PlanParts ==
  ASSUME NEW n, NEW made, NEW wanted, Collection(n.new)
  PROVE  PlanDoes(PlanFor(n, made, wanted), n, made, wanted)
<1> DEFINE passing == P!PassingIds(n.new, wanted)
           plan    == PlanFor(n, made, wanted)
           P0      == Passing(n, wanted)
           O       == Olds(n, made)
           old     == P!Restrict(made, O)
           rest    == P!SetToSeq(P0 \ O)
           added   == IF n.kind = "new" THEN passing ELSE rest
           A       == Adds(n, made, wanted)
<1>1. P0 \subseteq DOMAIN n.new /\ DOMAIN n.new \subseteq Nat /\ IsFiniteSet(P0)
      /\ IsFiniteSet(P0 \ O)
  <2>1. P0 \subseteq DOMAIN n.new
    BY DEF Passing
  <2>2. QED
    BY <2>1, FS_Subset, Zenon DEF Collection
<1>2. DOMAIN P!Matching(n.new, wanted) = P0
  BY DEF P!Matching, P!RestrictValues, P!Restrict, Passing
<1>3. passing = P!SetToSeq(P0)
  BY <1>2 DEF P!PassingIds
<1>4. /\ passing \in Seq(P0) /\ ToSet(passing) = P0
      /\ \A k, l \in DOMAIN passing : passing[k] = passing[l] => k = l
  BY <1>1, <1>3, Enumerates
<1>5. /\ rest \in Seq(P0 \ O) /\ ToSet(rest) = P0 \ O
      /\ \A k, l \in DOMAIN rest : rest[k] = rest[l] => k = l
  BY <1>1, Enumerates
<1>6. P!ToSet(passing) = P0
  BY <1>4, SameOperators
<1>7. DOMAIN old = O /\ \A i \in O : old[i] = made[i]
  BY DEF P!Restrict
<1>8. A = IF n.kind = "new" THEN P0 ELSE P0 \ O
  BY DEF Adds
<1> HIDE DEF passing, rest, A, P0, O
<1>9. plan = [add    |-> [k \in DOMAIN added |-> P!File(added[k], n.new[added[k]])],
              update |-> P!Restrict(n.new, P0 \cap DOMAIN old),
              remove |-> P!Restrict(old, DOMAIN old \ P0),
              prune  |-> IF n.kind = "edited" THEN DOMAIN old \ P0 ELSE {}]
  <2>1. plan = P!Plan(n, made, passing)
    BY DEF PlanFor, passing
  <2>2. P!Restrict(made, DOMAIN n.old \cap DOMAIN made) = old
    BY DEF O, Olds
  <2>3. added = IF n.kind = "new" THEN passing ELSE P!SetToSeq(P0 \ DOMAIN old)
    BY <1>7 DEF rest
  <2> HIDE DEF plan, old, added
  <2>4. QED
    BY <1>6, <2>1, <2>2, <2>3 DEF P!Plan
<1> HIDE DEF plan, old
<1>10. /\ added \in Seq(A) /\ ToSet(added) = A
       /\ \A k, l \in DOMAIN added : added[k] = added[l] => k = l
  BY <1>4, <1>5, <1>8
<1> HIDE DEF added
<1>11. A \subseteq DOMAIN n.new
  BY <1>1, <1>8
<1>12. OneEach(plan.add, n.new) /\ IdsOf(plan.add) = A
  <2> DEFINE add == [k \in DOMAIN added |-> P!File(added[k], n.new[added[k]])]
  <2>1. plan.add = add
    BY <1>9
  <2>2. DOMAIN added = 1..Len(added) /\ Len(added) \in Nat
    BY <1>10
  <2>3. ASSUME NEW k \in DOMAIN added
        PROVE  /\ added[k] \in A /\ added[k] \in DOMAIN n.new
               /\ add[k] = P!File(added[k], n.new[added[k]])
               /\ add[k] \in Item /\ add[k].id = added[k]
    <3>1. added[k] \in A
      BY <1>10, <2>2
    <3>2. added[k] \in Nat /\ n.new[added[k]] \in Contents
      BY <1>1, <1>11, <3>1 DEF Collection
    <3>3. QED
      BY <1>11, <3>1, <3>2, FileIsItem
  <2>4. add \in Seq(Item)
    BY <2>2, <2>3
  <2>5. DOMAIN add = DOMAIN added
    OBVIOUS
  <2> HIDE DEF add
  <2>6. OneEach(add, n.new)
    BY <1>10, <2>3, <2>4, <2>5 DEF OneEach
  <2>7. IdsOf(add) = A
    BY <1>10, <2>3, <2>5 DEF IdsOf, ToSet
  <2>8. QED
    BY <2>1, <2>6, <2>7
<1>13. plan.update = [i \in Updates(n, made, wanted) |-> n.new[i]]
  BY <1>7, <1>9 DEF P!Restrict, Updates, P0, O
<1>14. plan.remove = [i \in Removes(n, made, wanted) |-> made[i]]
  <2>1. Removes(n, made, wanted) = O \ P0
    BY DEF Removes, P0, O
  <2>2. plan.remove = [i \in O \ P0 |-> old[i]]
    BY <1>7, <1>9 DEF P!Restrict
  <2>3. QED
    BY <1>7, <2>1, <2>2
<1>15. plan.prune = Prunes(n, made, wanted)
  BY <1>7, <1>9 DEF Prunes, Removes, P0, O
<1>16. QED
  BY <1>12, <1>13, <1>14, <1>15 DEF A, plan, PlanDoes

\* What was made of messages: with their contents.
Made(made) == made \in [DOMAIN made -> Contents] /\ DOMAIN made \subseteq Nat

\* _message_to_file after a plan.
LEMMA FilesAfterProps ==
  ASSUME NEW n, NEW made, NEW wanted, Collection(n.new), Made(made)
  PROVE  /\ Made(P!FilesAfter(made, PlanFor(n, made, wanted)))
         /\ FilesBecome(P!FilesAfter(made, PlanFor(n, made, wanted)), n, made, wanted)
<1> DEFINE plan  == PlanFor(n, made, wanted)
           after == P!FilesAfter(made, plan)
           A     == Adds(n, made, wanted)
           U     == Updates(n, made, wanted)
           added == P!Added(plan)
<1>1. A \subseteq DOMAIN n.new /\ U \subseteq DOMAIN n.new
  BY DEF Adds, Updates, Passing
<1> HIDE DEF A, U
<1>2. /\ OneEach(plan.add, n.new) /\ IdsOf(plan.add) = A
      /\ plan.update = [i \in U |-> n.new[i]]
      /\ plan.prune = Prunes(n, made, wanted)
  <2>1. PlanDoes(plan, n, made, wanted)
    BY PlanParts
  <2> HIDE DEF plan
  <2>2. QED
    BY <2>1 DEF PlanDoes, A, U
<1> HIDE DEF plan
<1>3. DOMAIN added = A /\ \A i \in A : added[i] = n.new[i]
  <2>1. DOMAIN added = A
    BY <1>2 DEF P!Added, IdsOf
  <2>2. ASSUME NEW i \in A PROVE added[i] = n.new[i]
    <3> DEFINE f == CHOOSE f \in P!ToSet(plan.add) : f.id = i
    <3>1. \E g \in P!ToSet(plan.add) : g.id = i
      BY <1>2 DEF IdsOf, P!ToSet
    <3>2. f \in P!ToSet(plan.add) /\ f.id = i
      BY <3>1
    <3>3. added[i] = f.content
      BY <1>2, <2>1 DEF P!Added, IdsOf
    <3> HIDE DEF f
    <3>4. f = P!File(i, n.new[i])
      BY <1>2, <3>2 DEF OneEach, P!ToSet
    <3>5. QED
      BY <3>3, <3>4 DEF P!File
  <2>3. QED
    BY <2>1, <2>2
<1> HIDE DEF added
<1>4. /\ DOMAIN after = (DOMAIN made \cup A \cup U) \ plan.prune
      /\ \A i \in DOMAIN after : after[i] = IF i \in A THEN added[i]
                                            ELSE IF i \in U THEN plan.update[i]
                                            ELSE made[i]
  BY <1>2, <1>3 DEF P!FilesAfter, added
<1>5. after \in [DOMAIN after -> {after[i] : i \in DOMAIN after}]
  BY DEF P!FilesAfter
<1> HIDE DEF after
<1>6. \A i \in DOMAIN after : after[i] = IF i \in A \cup U THEN n.new[i] ELSE made[i]
  BY <1>2, <1>3, <1>4
<1>7. Made(after)
  <2>1. ASSUME NEW i \in DOMAIN after PROVE after[i] \in Contents /\ i \in Nat
    BY <1>1, <1>4, <1>6 DEF Made, Collection
  <2>2. QED
    BY <1>5, <2>1 DEF Made
<1>8. QED
  <2>1. FilesBecome(after, n, made, wanted)
    BY <1>2, <1>4, <1>6 DEF FilesBecome, A, U
  <2>2. QED
    BY <1>7, <2>1 DEF after, plan

\* The items after a plan: those of its files.
LEMMA ItemsAfterProps ==
  ASSUME NEW n, NEW made, NEW wanted, NEW list, Collection(n.new), Made(made),
         IsFiniteSet(DOMAIN n.old), OneEach(list, made),
         Adds(n, made, wanted) \cap (IdsOf(list) \ Removes(n, made, wanted)) = {},
         n.kind = "new" => n.old = <<>>
  PROVE  /\ OneEach(P!ItemsAfter(list, PlanFor(n, made, wanted)),
                    P!FilesAfter(made, PlanFor(n, made, wanted)))
         /\ IdsOf(P!ItemsAfter(list, PlanFor(n, made, wanted)))
              = (IdsOf(list) \ Removes(n, made, wanted)) \cup Adds(n, made, wanted)
<1> DEFINE plan  == PlanFor(n, made, wanted)
           now   == P!FilesAfter(made, plan)
           A     == Adds(n, made, wanted)
           U     == Updates(n, made, wanted)
           R     == Removes(n, made, wanted)
           ids   == (IdsOf(list) \ R) \cup A
           left  == P!Dropped(list, P!FilesOf(plan.remove))
           value == [i \in DOMAIN made \cup A |-> IF i \in A THEN n.new[i] ELSE made[i]]
<1>1. /\ A \subseteq DOMAIN n.new /\ U \subseteq DOMAIN n.new
      /\ R \subseteq DOMAIN made /\ R \subseteq DOMAIN n.old
      /\ A \cap U = {} /\ A \cap R = {}
      /\ IdsOf(list) \subseteq DOMAIN made
  <2>1. DOMAIN <<>> = {}
    OBVIOUS
  <2>2. IdsOf(list) \subseteq DOMAIN made
    BY DEF IdsOf, OneEach
  <2>3. QED
    BY <2>1, <2>2 DEF Adds, Updates, Removes, Passing, Olds
<1>2. /\ OneEach(plan.add, n.new) /\ IdsOf(plan.add) = A
      /\ plan.update = [i \in U |-> n.new[i]]
      /\ plan.remove = [i \in R |-> made[i]]
  <2>1. PlanDoes(plan, n, made, wanted)
    BY PlanParts
  <2> HIDE DEF plan
  <2>2. QED
    BY <2>1 DEF PlanDoes
<1>3. /\ DOMAIN now = (DOMAIN made \cup (A \cup U))
                          \ Prunes(n, made, wanted)
      /\ \A i \in DOMAIN now : now[i] = IF i \in A \cup U THEN n.new[i] ELSE made[i]
  <2>1. FilesBecome(now, n, made, wanted)
    BY FilesAfterProps
  <2> HIDE DEF now
  <2>2. QED
    BY <2>1 DEF FilesBecome
<1>4. P!ItemsAfter(list, plan) = P!Replaced(left \o plan.add, plan.update)
  BY DEF P!ItemsAfter
<1> HIDE DEF plan, now, A, U, R
<1>5. Collection(plan.remove) /\ DOMAIN plan.remove = R
  <2>1. IsFiniteSet(R)
    BY <1>1, FS_Subset, Zenon
  <2>2. \A i \in R : made[i] \in Contents /\ i \in Nat
    BY <1>1 DEF Made
  <2>3. QED
    BY <1>2, <2>1, <2>2 DEF Collection
<1>6. Collection(plan.update)
  <2>1. IsFiniteSet(U)
    BY <1>1, FS_Subset, Zenon DEF Collection
  <2>2. \A i \in U : n.new[i] \in Contents /\ i \in Nat
    BY <1>1 DEF Collection
  <2>3. QED
    BY <1>2, <2>1, <2>2 DEF Collection
<1>7. OneEach(left, made) /\ IdsOf(left) = IdsOf(list) \ R
  <2>1. \A i \in DOMAIN plan.remove : plan.remove[i] = made[i]
    BY <1>2
  <2>2. QED
    BY <1>1, <1>5, <2>1, DroppedProps
<1> HIDE DEF left
<1>8. IdsOf(left) \cap A = {}
  BY <1>7 DEF A, R
<1>9. OneEach(left, value)
  BY <1>1, <1>7, <1>8, OneEachAgree
<1>10. OneEach(plan.add, value)
  BY <1>2, OneEachAgree
<1> HIDE DEF value
<1>11. OneEach(left \o plan.add, value) /\ IdsOf(left \o plan.add) = ids
  BY <1>2, <1>7, <1>8, <1>9, <1>10, JoinedProps
<1>12. ASSUME NEW i \in ids
       PROVE  /\ i \in DOMAIN now
              /\ now[i] = IF i \in DOMAIN plan.update THEN plan.update[i] ELSE value[i]
  <2>1. i \in DOMAIN now
    BY <1>1, <1>3 DEF Prunes, R
  <2>2. value[i] = IF i \in A THEN n.new[i] ELSE made[i]
    BY <1>1 DEF value
  <2>3. DOMAIN plan.update = U /\ \A j \in U : plan.update[j] = n.new[j]
    BY <1>2
  <2>4. QED
    BY <1>1, <1>3, <2>1, <2>2, <2>3
<1>13. OneEach(P!ItemsAfter(list, plan), now) /\ IdsOf(P!ItemsAfter(list, plan)) = ids
  BY <1>4, <1>6, <1>11, <1>12, ReplacedProps
<1>14. QED
  BY <1>13 DEF plan, now, A, R

-----------------------------------------------------------------------------
(* A directory and its source *)

\* The messages m of a source as they were before a notice.
Undone(m, n) ==
  [i \in (DOMAIN m \ DOMAIN n.new) \cup DOMAIN n.old |->
     IF i \in DOMAIN n.old THEN n.old[i] ELSE m[i]]

\* A notice that a source with the messages m gives: what is new is there, what
\* is removed is not, and will not be announced again if it is one of "dead".
NoticeOf(m, n, dead) ==
  /\ n.kind \in {"new", "edited", "removed"}
  /\ Collection(n.old) /\ Collection(n.new)
  /\ \A i \in DOMAIN n.new : i \in DOMAIN m /\ m[i] = n.new[i]
  /\ n.kind = "new" => n.old = M!Empty
  /\ n.kind = "edited" => DOMAIN n.old = DOMAIN n.new
  /\ n.kind = "removed" => /\ n.new = M!Empty /\ DOMAIN n.old \cap DOMAIN m = {}
                           /\ DOMAIN n.old \subseteq dead

\* A directory shows the messages "base", "bad" ones aside.  A message it made a
\* file of and does not show is gone for good: a later notice that makes a file
\* of it would find the old one.  "now" are the messages of the source.
Shows(list, made, base, now, wanted, bad, dead) ==
  /\ OneEach(list, made) /\ Made(made)
  /\ IdsOf(list) \subseteq DOMAIN base
  /\ \A i \in DOMAIN base \ bad :
       /\ i \in IdsOf(list) <=> base[i] \in wanted
       /\ i \in IdsOf(list) => made[i] = base[i]
  /\ \A i \in DOMAIN made \ IdsOf(list) :
       i \notin DOMAIN base /\ i \notin DOMAIN now /\ i \in dead

\* Delivering a notice takes the directory from the messages before the notice
\* to those after it, and makes up for a file that could not be made before.
LEMMA Delivered ==
  ASSUME NEW m, NEW n, NEW list, NEW made, NEW wanted, NEW bad, NEW dead,
         NoticeOf(m, n, dead), Shows(list, made, Undone(m, n), m, wanted, bad, dead)
  PROVE  Shows(P!ItemsAfter(list, PlanFor(n, made, wanted)),
               P!FilesAfter(made, PlanFor(n, made, wanted)), m, m, wanted,
               bad \ (DOMAIN n.old \cup DOMAIN n.new), dead)
<1> DEFINE base  == Undone(m, n)
           items2 == P!ItemsAfter(list, PlanFor(n, made, wanted))
           made2  == P!FilesAfter(made, PlanFor(n, made, wanted))
           bad2   == bad \ (DOMAIN n.old \cup DOMAIN n.new)
           pass  == Passing(n, wanted)
           olds  == Olds(n, made)
           A     == Adds(n, made, wanted)
           U     == Updates(n, made, wanted)
           R     == Removes(n, made, wanted)
           Q     == Prunes(n, made, wanted)
           ids   == IdsOf(list)
           ids2  == IdsOf(items2)
           dom   == DOMAIN m
           old   == DOMAIN n.old
           new   == DOMAIN n.new
<1>1. /\ OneEach(list, made) /\ Made(made) /\ ids \subseteq DOMAIN base
      /\ \A i \in DOMAIN base \ bad :
           /\ i \in ids <=> base[i] \in wanted
           /\ i \in ids => made[i] = base[i]
      /\ \A i \in DOMAIN made \ ids : i \notin DOMAIN base /\ i \notin dom /\ i \in dead
  BY DEF Shows
<1>2. /\ Collection(n.new) /\ IsFiniteSet(old)
      /\ new \subseteq dom /\ \A i \in new : m[i] = n.new[i]
      /\ n.kind \in {"new", "edited", "removed"}
      /\ n.kind = "new" => old = {}
      /\ n.kind = "edited" => old = new
      /\ n.kind = "removed" => new = {} /\ old \cap dom = {} /\ old \subseteq dead
  <2>1. DOMAIN M!Empty = {}
    BY DEF M!Empty
  <2>2. QED
    BY <2>1 DEF NoticeOf, Collection
<1>3. /\ DOMAIN base = (dom \ new) \cup old
      /\ \A i \in dom \ new : i \notin old => base[i] = m[i]
  BY DEF Undone
<1>4. /\ pass = {i \in new : n.new[i] \in wanted} /\ olds = old \cap DOMAIN made
      /\ A = IF n.kind = "new" THEN pass ELSE pass \ olds
      /\ U = pass \cap olds /\ R = olds \ pass
      /\ Q = IF n.kind = "edited" THEN R ELSE {}
  BY DEF Passing, Olds, Adds, Updates, Removes, Prunes
<1>5. ids \subseteq DOMAIN made
  BY <1>1 DEF OneEach, IdsOf
<1> HIDE DEF base, pass, olds, A, U, R, Q, ids, dom, old, new
<1>6. A \cap (ids \ R) = {}
  <2>1. CASE n.kind = "new"
    BY <1>1, <1>2, <1>3, <1>4, <2>1
  <2>2. CASE n.kind = "edited"
    BY <1>2, <1>4, <1>5, <2>2
  <2>3. CASE n.kind = "removed"
    BY <1>2, <1>4, <2>3
  <2>4. QED
    BY <1>2, <2>1, <2>2, <2>3
<1>7. OneEach(items2, made2) /\ ids2 = (ids \ R) \cup A
  <2>1. n.kind = "new" => n.old = <<>>
    BY DEF NoticeOf, M!Empty
  <2>2. QED
    BY <1>1, <1>2, <1>6, <2>1, ItemsAfterProps DEF A, R, ids, old
<1>8. /\ Made(made2) /\ DOMAIN made2 = (DOMAIN made \cup (A \cup U)) \ Q
      /\ \A i \in DOMAIN made2 : made2[i] = IF i \in A \cup U THEN n.new[i] ELSE made[i]
  <2>1. Made(made2) /\ FilesBecome(made2, n, made, wanted)
    BY <1>1, <1>2, FilesAfterProps
  <2> HIDE DEF made2
  <2>2. QED
    BY <2>1 DEF FilesBecome, A, U, Q
<1> HIDE DEF items2, made2, ids2, bad2
<1>9. ids2 \subseteq DOMAIN made2
  <2>1. ids2 = IdsOf(items2)
    BY DEF ids2
  <2>2. QED
    BY <1>7, <2>1 DEF OneEach, IdsOf
<1>10. \A i : i \in bad2 <=> i \in bad /\ i \notin old /\ i \notin new
  BY DEF bad2, old, new
<1>11. ids2 \subseteq dom
  <2>1. CASE n.kind = "new"
    BY <1>1, <1>2, <1>3, <1>4, <1>7, <2>1
  <2>2. CASE n.kind = "edited"
    BY <1>1, <1>2, <1>3, <1>4, <1>7, <2>2
  <2>3. CASE n.kind = "removed"
    BY <1>1, <1>2, <1>3, <1>4, <1>5, <1>7, <2>3
  <2>4. QED
    BY <1>2, <2>1, <2>2, <2>3
<1>12. ASSUME NEW i \in dom \ bad2
       PROVE  /\ i \in ids2 <=> m[i] \in wanted
              /\ i \in ids2 => made2[i] = m[i]
  <2>1. CASE i \in new
    <3>1. m[i] = n.new[i] /\ (i \in pass <=> m[i] \in wanted)
      BY <1>2, <1>4, <2>1
    <3>2. i \in ids2 <=> i \in pass
      <4>1. CASE n.kind = "new"
        BY <1>1, <1>2, <1>3, <1>4, <1>7, <2>1, <4>1
      <4>2. CASE n.kind = "edited"
        BY <1>1, <1>2, <1>3, <1>4, <1>5, <1>7, <2>1, <4>2
      <4>3. QED
        BY <1>2, <2>1, <4>1, <4>2
    <3>3. i \in ids2 => i \in A \cup U
      BY <1>2, <1>4, <2>1, <3>2
    <3>4. QED
      BY <1>8, <1>9, <3>1, <3>2, <3>3
  <2>2. CASE i \notin new
    <3>1. i \notin old /\ i \notin bad /\ i \in DOMAIN base /\ base[i] = m[i]
      BY <1>2, <1>3, <1>10, <2>2
    <3>2. i \notin A \cup U /\ i \notin R
      BY <1>4, <2>2, <3>1
    <3>3. i \in ids2 <=> i \in ids
      BY <1>7, <3>2
    <3>4. QED
      BY <1>1, <1>8, <1>9, <3>1, <3>2, <3>3
  <2>3. QED
    BY <2>1, <2>2
<1>13. ASSUME NEW i \in DOMAIN made2 \ ids2
       PROVE  i \notin dom /\ i \in dead
  <2>1. CASE n.kind = "new"
    BY <1>1, <1>2, <1>4, <1>7, <1>8, <2>1
  <2>2. CASE n.kind = "edited"
    BY <1>1, <1>2, <1>3, <1>4, <1>7, <1>8, <2>2
  <2>3. CASE n.kind = "removed"
    BY <1>1, <1>2, <1>4, <1>7, <1>8, <2>3
  <2>4. QED
    BY <1>2, <2>1, <2>2, <2>3
<1>14. Shows(items2, made2, m, m, wanted, bad2, dead)
  BY <1>7, <1>8, <1>11, <1>12, <1>13 DEF Shows, ids2, dom
<1>15. QED
  BY <1>14 DEF items2, made2, bad2

-----------------------------------------------------------------------------
(* The events that are to come *)

\* The ids an event is about.
AboutIds(v) == IF v.kind = "delete" THEN v.change ELSE DOMAIN v.change

Event ==
  [entity : Entities, kind : {"new", "edit", "reaction", "delete"},
   change : (SUBSET Nat) \cup UNION {[{i} -> Contents \cup Reactions] : i \in Nat}]

\* What is replayed comes before what waits for the lock.
Coming == queue \o inbox

\* W2 has the events of W, without the first perhaps.  Those of an entity are in
\* the order they were in.
LeftOf(W2, W) ==
  \E h \in [DOMAIN W2 -> DOMAIN W] :
    /\ \A k \in DOMAIN W2 : W2[k] = W[h[k]]
    /\ \A k, l \in DOMAIN W2 : k < l /\ W2[k].entity = W2[l].entity => h[k] < h[l]
    /\ \A l \in DOMAIN W : l # 1 => \E k \in DOMAIN W2 : h[k] = l

\* All of them.
NoneLost(W2, W) == \A l \in DOMAIN W : \E k \in DOMAIN W2 : W2[k] = W[l]

\* W2 has the events of W and then "event".
SentAfter(W2, W, event) ==
  /\ DOMAIN W \subseteq DOMAIN W2 /\ DOMAIN W2 \subseteq Nat
  /\ \A k \in DOMAIN W : W2[k] = W[k]
  /\ \A k \in DOMAIN W2 \ DOMAIN W : W2[k] = event /\ \A l \in DOMAIN W : l < k

\* The second sequence is behind the first.
LEMMA JoinedAt ==
  ASSUME NEW S, NEW a \in Seq(S), NEW b \in Seq(S)
  PROVE  /\ a \o b \in Seq(S) /\ DOMAIN (a \o b) = 1..(Len(a) + Len(b))
         /\ Len(a) \in Nat /\ Len(b) \in Nat
         /\ \A k \in 1..(Len(a) + Len(b)) :
              (a \o b)[k] = IF k <= Len(a) THEN a[k] ELSE b[k - Len(a)]
OBVIOUS

\* Handlers that start now come last.
LEMMA ComingSent ==
  ASSUME NEW q \in Seq(Event), NEW list \in Seq(Event), NEW event \in Event, NEW n \in Nat
  PROVE  LET more == [k \in 1..n |-> event]
         IN  /\ list \o more \in Seq(Event)
             /\ SentAfter(q \o (list \o more), q \o list, event)
             /\ n > 0 => \E k \in DOMAIN (q \o (list \o more)) :
                           k \notin DOMAIN (q \o list)
<1> DEFINE more == [k \in 1..n |-> event]
           behind == list \o more
           W    == q \o list
           W2   == q \o behind
           a    == Len(q)
           b    == Len(list)
<1>1. more \in Seq(Event) /\ Len(more) = n /\ \A k \in 1..n : more[k] = event
  OBVIOUS
<1> HIDE DEF more
<1>2. /\ behind \in Seq(Event) /\ DOMAIN behind = 1..(b + n) /\ Len(behind) = b + n
      /\ b \in Nat
      /\ \A k \in 1..(b + n) : behind[k] = IF k <= b THEN list[k] ELSE more[k - b]
  <2>1. /\ behind \in Seq(Event) /\ DOMAIN behind = 1..(Len(list) + Len(more))
        /\ Len(list) \in Nat
        /\ \A k \in 1..(Len(list) + Len(more)) :
             behind[k] = IF k <= Len(list) THEN list[k] ELSE more[k - Len(list)]
    BY <1>1, JoinedAt
  <2> HIDE DEF behind
  <2>2. DOMAIN behind = 1..(b + n) /\ b + n \in Nat
    BY <1>1, <2>1
  <2>3. Len(behind) = b + n
    BY <2>1, <2>2
  <2>4. QED
    BY <1>1, <2>1, <2>2, <2>3
<1>3. /\ DOMAIN W = 1..(a + b) /\ a \in Nat
      /\ \A k \in 1..(a + b) : W[k] = IF k <= a THEN q[k] ELSE list[k - a]
  BY JoinedAt
<1> HIDE DEF behind
<1>4. /\ DOMAIN W2 = 1..(a + (b + n))
      /\ \A k \in 1..(a + (b + n)) : W2[k] = IF k <= a THEN q[k] ELSE behind[k - a]
  <2>1. /\ DOMAIN W2 = 1..(Len(q) + Len(behind))
        /\ \A k \in 1..(Len(q) + Len(behind)) :
             W2[k] = IF k <= Len(q) THEN q[k] ELSE behind[k - Len(q)]
    BY <1>2, JoinedAt
  <2> HIDE DEF W2
  <2>2. QED
    BY <1>2, <2>1
<1> HIDE DEF W, W2, a, b
<1>5. ASSUME NEW k \in 1..(a + b) PROVE k \in 1..(a + (b + n)) /\ W2[k] = W[k]
  <2>1. CASE k <= a
    BY <1>2, <1>3, <1>4, <2>1
  <2>2. CASE ~(k <= a)
    <3>1. k - a \in 1..(b + n) /\ k - a <= b /\ k \in 1..(a + (b + n))
      BY <1>2, <1>3, <2>2
    <3>2. behind[k - a] = list[k - a]
      BY <1>2, <3>1
    <3>3. W2[k] = behind[k - a]
      BY <1>4, <2>2, <3>1
    <3>4. W[k] = list[k - a]
      BY <1>3, <2>2
    <3>5. QED
      BY <3>1, <3>2, <3>3, <3>4
  <2>3. QED
    BY <2>1, <2>2
<1>6. ASSUME NEW k \in 1..(a + (b + n)), k \notin 1..(a + b)
      PROVE  W2[k] = event /\ \A l \in 1..(a + b) : l < k
  <2>1. /\ k - a \in 1..(b + n) /\ ~(k - a <= b) /\ ~(k <= a)
        /\ (k - a) - b \in 1..n
    BY <1>2, <1>3, <1>6
  <2>2. W2[k] = more[(k - a) - b]
    BY <1>2, <1>4, <2>1
  <2>3. QED
    BY <1>1, <1>2, <1>3, <1>6, <2>1, <2>2
<1>7. SentAfter(W2, W, event)
  BY <1>3, <1>4, <1>5, <1>6 DEF SentAfter
<1>8. n > 0 => a + (b + n) \in DOMAIN W2 /\ a + (b + n) \notin DOMAIN W
  BY <1>2, <1>3, <1>4
<1>9. QED
  BY <1>2, <1>7, <1>8 DEF W, W2, behind, more

\* The first event is taken.
LEMMA ComingTaken ==
  ASSUME NEW W \in Seq(Event), W # <<>>
  PROVE  LeftOf(Tail(W), W) /\ Tail(W) \in Seq(Event) /\ 1 \in DOMAIN W /\ W[1] = Head(W)
<1> DEFINE n  == Len(W)
           W2 == Tail(W)
           h  == [k \in 1..(n - 1) |-> k + 1]
<1>1. /\ n \in Nat \ {0} /\ DOMAIN W = 1..n /\ W2 \in Seq(Event)
      /\ DOMAIN W2 = 1..(n - 1) /\ \A k \in 1..(n - 1) : W2[k] = W[k + 1]
      /\ W[1] = Head(W)
  OBVIOUS
<1> HIDE DEF W2, n
<1>2. h \in [DOMAIN W2 -> DOMAIN W]
  BY <1>1
<1>3. \A k \in DOMAIN W2 : W2[k] = W[h[k]]
  BY <1>1
<1>4. \A k, l \in DOMAIN W2 : k < l => h[k] < h[l]
  BY <1>1
<1>5. ASSUME NEW l \in DOMAIN W, l # 1 PROVE \E k \in DOMAIN W2 : h[k] = l
  <2>1. l - 1 \in DOMAIN W2 /\ h[l - 1] = l
    BY <1>1, <1>5
  <2>2. QED
    BY <2>1
<1> HIDE DEF h
<1>6. LeftOf(W2, W)
  BY <1>2, <1>3, <1>4, <1>5 DEF LeftOf
<1>7. QED
  BY <1>1, <1>6 DEF W2, n

\* The first event of what is replayed is the first of all.
LEMMA ComingReplayed ==
  ASSUME NEW q \in Seq(Event), NEW list \in Seq(Event), q # <<>>
  PROVE  /\ q \o list \in Seq(Event) /\ q \o list # <<>> /\ Head(q \o list) = Head(q)
         /\ Tail(q) \o list = Tail(q \o list)
OBVIOUS

\* An event that is queued is put behind those of its entity.
LEMMA QueuedProps ==
  ASSUME NEW q \in Seq(Event), NEW event \in Event
  PROVE  \E p \in 1..(Len(q) + 1) :
           /\ Queued(q, event) \in Seq(Event) /\ Len(Queued(q, event)) = Len(q) + 1
           /\ \A k \in 1..(Len(q) + 1) :
                Queued(q, event)[k] = IF k < p THEN q[k] ELSE IF k = p THEN event
                                      ELSE q[k - 1]
           /\ \A k \in 1..Len(q) : q[k].entity = event.entity => k < p
<1> DEFINE n    == Len(q)
           same == {k \in DOMAIN q : q[k].entity = event.entity}
           new  == Queued(q, event)
<1>1. DOMAIN q = 1..n /\ n \in Nat
  OBVIOUS
<1>2. CASE same = {}
  <2>1. new = Append(q, event)
    BY <1>2 DEF Queued
  <2>2. /\ Append(q, event) \in Seq(Event) /\ Len(Append(q, event)) = n + 1
        /\ \A k \in 1..(n + 1) : Append(q, event)[k] = IF k < n + 1 THEN q[k] ELSE event
    OBVIOUS
  <2>3. \A k \in 1..n : q[k].entity # event.entity
    BY <1>1, <1>2
  <2> HIDE DEF new, n, same
  <2>4. n + 1 \in 1..(n + 1)
    BY <1>1
  <2>5. \A k \in 1..(n + 1) : new[k] = IF k < n + 1 THEN q[k] ELSE IF k = n + 1 THEN event
                                       ELSE q[k - 1]
    BY <1>1, <2>1, <2>2
  <2>6. QED
    BY <2>1, <2>2, <2>3, <2>4, <2>5 DEF new, n
<1>3. CASE same # {}
  <2> DEFINE p == Max(same) + 1
             a == SubSeq(q, 1, p - 1)
             b == SubSeq(q, p, n)
  <2>1. same \in SUBSET (1..n)
    BY <1>1
  <2>2. Max(same) \in same /\ \A k \in same : k <= Max(same)
    <3> HIDE DEF same, n
    <3>1. QED
      BY <1>1, <1>3, <2>1, MaxOfSome
  <2>3. new = InsertAt(q, Max(same) + 1, event)
    BY <1>3 DEF Queued
  <2>4. new = (SubSeq(q, 1, p - 1) \o <<event>>) \o SubSeq(q, p, n)
    BY <2>3 DEF InsertAt
  <2> HIDE DEF new
  <2> DEFINE top == Max(same)
  <2> HIDE DEF same
  <2>5. top \in 1..n /\ p = top + 1 /\ p \in 1..(n + 1) /\ p \in Nat /\ p - 1 = top
    <3>1. top \in 1..n /\ p = top + 1
      BY <2>1, <2>2 DEF top
    <3> HIDE DEF p, n
    <3>2. QED
      BY <1>1, <3>1
  <2>6. \A k \in 1..n : q[k].entity = event.entity => k < p
    <3>1. \A k \in 1..n : q[k].entity = event.entity => k \in same
      BY <1>1 DEF same
    <3> HIDE DEF p, top
    <3>2. \A k \in same : k <= top
      BY <2>2 DEF top
    <3>3. QED
      BY <1>1, <2>5, <3>1, <3>2
  <2> HIDE DEF p, top
  <2>7. a \in Seq(Event) /\ Len(a) = p - 1 /\ \A k \in 1..(p - 1) : a[k] = q[k]
    BY <1>1, <2>5
  <2>8. b \in Seq(Event) /\ Len(b) = n + 1 - p
        /\ \A k \in 1..(n + 1 - p) : b[k] = q[p + k - 1]
    <3>1. \A k \in p..n : q[k] \in Event
      BY <1>1, <2>5
    <3>2. p \in Int /\ n \in Int
      BY <1>1, <2>5
    <3> HIDE DEF n
    <3>3. /\ SubSeq(q, p, n) \in Seq(Event)
          /\ Len(SubSeq(q, p, n)) = IF p <= n THEN n - p + 1 ELSE 0
          /\ \A i \in 1..(n - p + 1) : SubSeq(q, p, n)[i] = q[p + i - 1]
      BY <3>1, <3>2, SubSeqProperties
    <3> HIDE DEF b
    <3>4. b = SubSeq(q, p, n)
      BY DEF b
    <3>5. n - p + 1 = n + 1 - p /\ (p <= n \/ n + 1 - p = 0)
      BY <1>1, <2>5
    <3>6. QED
      BY <3>3, <3>4, <3>5
  <2>9. new = (a \o <<event>>) \o b
    BY <2>4
  <2> HIDE DEF a, b, n
  <2> DEFINE c == a \o <<event>>
  <2>10. /\ c \in Seq(Event) /\ Len(c) = p
         /\ \A k \in 1..p : c[k] = IF k < p THEN a[k] ELSE event
    <3>1. <<event>> \in Seq(Event) /\ Len(<<event>>) = 1 /\ <<event>>[1] = event
      OBVIOUS
    <3> DEFINE one == <<event>>
    <3> HIDE DEF one
    <3>2. one \in Seq(Event) /\ Len(one) = 1 /\ one[1] = event
      BY <3>1 DEF one
    <3>3. /\ a \o one \in Seq(Event) /\ DOMAIN (a \o one) = 1..(Len(a) + Len(one))
          /\ \A k \in 1..(Len(a) + Len(one)) :
               (a \o one)[k] = IF k <= Len(a) THEN a[k] ELSE one[k - Len(a)]
      BY <2>7, <3>2, JoinedAt
    <3>4. Len(a) + Len(one) = p /\ Len(a) = p - 1
      BY <2>5, <2>7, <3>2
    <3>5. \A k \in 1..p : (k <= p - 1 <=> k < p) /\ (~(k < p) => k - (p - 1) = 1)
      BY <2>5
    <3>6. c = a \o one
      BY DEF one
    <3> HIDE DEF c
    <3>7. Len(c) = p /\ c \in Seq(Event)
      BY <2>5, <3>3, <3>4, <3>6
    <3>8. QED
      BY <2>5, <3>2, <3>3, <3>4, <3>5, <3>6, <3>7
  <2> HIDE DEF c
  <2>11. new = c \o b
    BY <2>9 DEF c
  <2>12. /\ new \in Seq(Event) /\ DOMAIN new = 1..(p + (n + 1 - p))
         /\ \A k \in 1..(p + (n + 1 - p)) : new[k] = IF k <= p THEN c[k] ELSE b[k - p]
    BY <2>8, <2>10, <2>11, JoinedAt
  <2>13. p + (n + 1 - p) = n + 1
    BY <1>1, <2>5
  <2>14. ASSUME NEW k \in 1..(n + 1)
         PROVE  new[k] = IF k < p THEN q[k] ELSE IF k = p THEN event ELSE q[k - 1]
    <3>1. CASE k < p
      <4>1. k <= p /\ k \in 1..p /\ k \in 1..(p - 1)
        BY <1>1, <2>5, <3>1
      <4>2. QED
        BY <2>7, <2>10, <2>12, <2>13, <3>1, <4>1
    <3>2. CASE k = p
      <4>1. k <= p /\ k \in 1..p /\ ~(k < p)
        BY <2>5, <3>2
      <4>2. QED
        BY <2>10, <2>12, <2>13, <3>2, <4>1
    <3>3. CASE k > p
      <4>1. ~(k <= p) /\ ~(k < p) /\ k # p /\ k - p \in 1..(n + 1 - p)
            /\ p + (k - p) - 1 = k - 1
        BY <1>1, <2>5, <3>3
      <4>2. new[k] = b[k - p] /\ b[k - p] = q[k - 1]
        BY <2>8, <2>12, <2>13, <4>1
      <4>3. QED
        BY <4>1, <4>2
    <3>4. QED
      BY <2>5, <3>1, <3>2, <3>3
  <2>15. Len(new) = n + 1
    BY <1>1, <2>12, <2>13
  <2>16. QED
    BY <2>5, <2>6, <2>12, <2>14, <2>15 DEF new, n
<1>4. QED
  BY <1>2, <1>3

LEMMA ComingMoved ==
  ASSUME NEW q \in Seq(Event), NEW list \in Seq(Event), list # <<>>
  PROVE  /\ Head(list) \in Event /\ Tail(list) \in Seq(Event)
         /\ Queued(q, Head(list)) \in Seq(Event)
         /\ LeftOf(Queued(q, Head(list)) \o Tail(list), q \o list)
         /\ NoneLost(Queued(q, Head(list)) \o Tail(list), q \o list)
<1> DEFINE event == Head(list)
           new  == Queued(q, event)
           rest == Tail(list)
           W    == q \o list
           W2   == new \o rest
           a    == Len(q)
           b    == Len(list)
<1>1. /\ event \in Event /\ rest \in Seq(Event) /\ list[1] = event /\ b \in Nat \ {0}
      /\ Len(rest) = b - 1 /\ \A k \in 1..(b - 1) : rest[k] = list[k + 1]
      /\ a \in Nat
  OBVIOUS
<1> HIDE DEF event, rest
<1>2. PICK p \in 1..(a + 1) :
        /\ new \in Seq(Event) /\ Len(new) = a + 1
        /\ \A k \in 1..(a + 1) : new[k] = IF k < p THEN q[k] ELSE IF k = p THEN event
                                          ELSE q[k - 1]
        /\ \A k \in 1..a : q[k].entity = event.entity => k < p
  BY <1>1, QueuedProps
<1> HIDE DEF new
<1>3. /\ DOMAIN W = 1..(a + b)
      /\ \A k \in 1..(a + b) : W[k] = IF k <= a THEN q[k] ELSE list[k - a]
  BY JoinedAt
<1>4. /\ DOMAIN W2 = 1..(a + b)
      /\ \A k \in 1..(a + b) : W2[k] = IF k <= a + 1 THEN new[k] ELSE rest[k - (a + 1)]
  <2>1. /\ DOMAIN W2 = 1..(Len(new) + Len(rest))
        /\ \A k \in 1..(Len(new) + Len(rest)) :
             W2[k] = IF k <= Len(new) THEN new[k] ELSE rest[k - Len(new)]
    <3>1. new \in Seq(Event) /\ rest \in Seq(Event)
      BY <1>1, <1>2
    <3>2. QED
      BY <3>1, JoinedAt
  <2> HIDE DEF W2, a, b
  <2>2. Len(new) + Len(rest) = a + b
    BY <1>1, <1>2
  <2>3. QED
    BY <1>2, <2>1, <2>2
<1> HIDE DEF W, W2, a, b
<1> DEFINE h == [k \in 1..(a + b) |-> IF k < p THEN k ELSE IF k = p THEN a + 1
                                      ELSE IF k <= a + 1 THEN k - 1 ELSE k]
<1>5. h \in [1..(a + b) -> 1..(a + b)]
  BY <1>1
<1>6. ASSUME NEW k \in 1..(a + b) PROVE W2[k] = W[h[k]]
  <2>1. CASE k <= a + 1
    <3>1. k \in 1..(a + 1) /\ W2[k] = new[k]
      BY <1>1, <1>4, <2>1
    <3>2. CASE k < p
      <4>1. h[k] = k /\ k <= a /\ new[k] = q[k]
        BY <1>1, <1>2, <3>1, <3>2
      <4>2. QED
        BY <1>3, <3>1, <4>1
    <3>3. CASE k = p
      <4>1. h[k] = a + 1 /\ a + 1 \in 1..(a + b) /\ ~(a + 1 <= a) /\ (a + 1) - a = 1
        BY <1>1, <3>3
      <4>2. W[a + 1] = event
        BY <1>1, <1>3, <4>1
      <4>3. new[k] = event
        <5>1. ~(p < p)
          BY <1>1
        <5>2. QED
          BY <1>2, <3>1, <3>3, <5>1
      <4>4. QED
        BY <3>1, <4>1, <4>2, <4>3
    <3>4. CASE k > p
      <4>1. h[k] = k - 1 /\ k - 1 \in 1..(a + b) /\ k - 1 <= a
        BY <1>1, <2>1, <3>4
      <4>2. new[k] = q[k - 1]
        BY <1>1, <1>2, <3>1, <3>4
      <4>3. QED
        BY <1>3, <3>1, <4>1, <4>2
    <3>5. QED
      BY <1>1, <3>2, <3>3, <3>4
  <2>2. CASE ~(k <= a + 1)
    <3>1. h[k] = k /\ k - (a + 1) \in 1..(b - 1) /\ ~(k <= a)
          /\ (k - (a + 1)) + 1 = k - a
      BY <1>1, <2>2
    <3>2. W2[k] = rest[k - (a + 1)] /\ rest[k - (a + 1)] = list[k - a]
      BY <1>1, <1>4, <2>2, <3>1
    <3>3. W[k] = list[k - a]
      BY <1>3, <3>1
    <3>4. QED
      BY <3>1, <3>2, <3>3
  <2>3. QED
    BY <2>1, <2>2
<1>7. ASSUME NEW k \in 1..(a + b), NEW l \in 1..(a + b), k < l, W2[k].entity = W2[l].entity
      PROVE  h[k] < h[l]
  <2>1. CASE k = p /\ l <= a + 1
    <3>1. /\ W2[k] = event /\ l - 1 \in 1..a /\ W2[l] = q[l - 1] /\ ~(l - 1 < p)
      BY <1>1, <1>2, <1>4, <1>7, <2>1
    <3>2. FALSE
      BY <1>2, <1>7, <3>1
    <3>3. QED
      BY <3>2
  <2>2. CASE ~(k = p /\ l <= a + 1)
    BY <1>1, <1>7, <2>2
  <2>3. QED
    BY <2>1, <2>2
<1>8. ASSUME NEW l \in 1..(a + b) PROVE \E k \in 1..(a + b) : h[k] = l
  <2>1. CASE l < p
    <3>1. h[l] = l
      BY <2>1
    <3>2. QED
      BY <3>1
  <2>2. CASE p <= l /\ l <= a
    <3>1. l + 1 \in 1..(a + b) /\ h[l + 1] = l
      BY <1>1, <2>2
    <3>2. QED
      BY <3>1
  <2>3. CASE l = a + 1
    <3>1. p \in 1..(a + b) /\ h[p] = l
      BY <1>1, <2>3
    <3>2. QED
      BY <3>1
  <2>4. CASE l > a + 1
    <3>1. h[l] = l
      BY <1>1, <2>4
    <3>2. QED
      BY <3>1
  <2>5. QED
    BY <1>1, <2>1, <2>2, <2>3, <2>4
<1> HIDE DEF h
<1>9. LeftOf(W2, W)
  <2>1. h \in [DOMAIN W2 -> DOMAIN W] /\ \A k \in DOMAIN W2 : W2[k] = W[h[k]]
    BY <1>3, <1>4, <1>5, <1>6
  <2>2. \A k, l \in DOMAIN W2 : k < l /\ W2[k].entity = W2[l].entity => h[k] < h[l]
    BY <1>4, <1>7
  <2>3. \A l \in DOMAIN W : l # 1 => \E k \in DOMAIN W2 : h[k] = l
    BY <1>3, <1>4, <1>8
  <2>4. QED
    BY <2>1, <2>2, <2>3 DEF LeftOf
<1>10. NoneLost(W2, W)
  BY <1>3, <1>4, <1>5, <1>6, <1>8 DEF NoneLost
<1>11. QED
  BY <1>1, <1>2, <1>9, <1>10 DEF W, W2, new, event, rest

\* What an event of an entity with n messages so far can be about.
EventShape(v, n) ==
  /\ AboutIds(v) \subseteq 1..n
  /\ v.kind \in {"new", "edit"} => \E i \in 1..n, c \in Contents : v.change = One(i, c)
  /\ v.kind = "reaction" => \E i \in 1..n, r \in Reactions : v.change = One(i, r)

WellShaped(W, posts) == \A k \in DOMAIN W : EventShape(W[k], posts[W[k].entity])

\* A message that was deleted is not announced any more.
InTurn(v, w) ==
  v.entity = w.entity /\ v.kind = "delete" /\ w.kind = "new" =>
    AboutIds(v) \cap AboutIds(w) = {}

InOrder(W) == \A k, l \in DOMAIN W : k < l => InTurn(W[k], W[l])

\* The messages of an entity that are announced already.
Announced(W, posts, e) ==
  {i \in 1..posts[e] : \A k \in DOMAIN W : W[k].entity = e /\ W[k].kind = "new" =>
                                             i \notin AboutIds(W[k])}

\* What is left of the events is in order, and announces no more than before.
LEMMA LeftKeeps ==
  ASSUME NEW W, NEW W2, NEW posts, LeftOf(W2, W), InOrder(W), WellShaped(W, posts)
  PROVE  /\ InOrder(W2) /\ WellShaped(W2, posts)
         /\ \A e : Announced(W, posts, e) \subseteq Announced(W2, posts, e)
<1>1. PICK h \in [DOMAIN W2 -> DOMAIN W] :
        /\ \A k \in DOMAIN W2 : W2[k] = W[h[k]]
        /\ \A k, l \in DOMAIN W2 : k < l /\ W2[k].entity = W2[l].entity => h[k] < h[l]
  BY DEF LeftOf
<1>2. \A k \in DOMAIN W2 : h[k] \in DOMAIN W
  OBVIOUS
<1>3. InOrder(W2)
  <2>1. ASSUME NEW k \in DOMAIN W2, NEW l \in DOMAIN W2, k < l PROVE InTurn(W2[k], W2[l])
    <3>1. CASE W2[k].entity = W2[l].entity
      <4>1. h[k] < h[l]
        BY <1>1, <2>1, <3>1
      <4>2. InTurn(W[h[k]], W[h[l]])
        BY <1>2, <4>1 DEF InOrder
      <4>3. QED
        BY <1>1, <4>2
    <3>2. CASE W2[k].entity # W2[l].entity
      BY <3>2 DEF InTurn
    <3>3. QED
      BY <3>1, <3>2
  <2>2. QED
    BY <2>1 DEF InOrder
<1>4. WellShaped(W2, posts)
  BY <1>1, <1>2 DEF WellShaped
<1>5. \A e : Announced(W, posts, e) \subseteq Announced(W2, posts, e)
  BY <1>1, <1>2 DEF Announced
<1>6. QED
  BY <1>3, <1>4, <1>5

\* Shape and order hold on when an event is sent, if it announces messages that
\* are new.
LEMMA SentKeeps ==
  ASSUME NEW W, NEW W2, NEW event, NEW posts, NEW posts2,
         SentAfter(W2, W, event), InOrder(W), WellShaped(W, posts),
         \A k \in DOMAIN W : W[k].entity \in Entities, event.entity \in Entities,
         \A e \in Entities : 1..posts[e] \subseteq 1..posts2[e],
         EventShape(event, posts2[event.entity]),
         event.kind = "new" => AboutIds(event) \cap (1..posts[event.entity]) = {}
  PROVE  /\ InOrder(W2) /\ WellShaped(W2, posts2)
         /\ \A e \in Entities : Announced(W, posts, e) \subseteq Announced(W2, posts2, e)
<1>1. \A k \in DOMAIN W2 : IF k \in DOMAIN W THEN W2[k] = W[k] ELSE W2[k] = event
  BY DEF SentAfter
<1>2. WellShaped(W2, posts2)
  <2>1. ASSUME NEW k \in DOMAIN W2 PROVE EventShape(W2[k], posts2[W2[k].entity])
    <3>1. CASE k \in DOMAIN W
      <4>1. EventShape(W[k], posts[W[k].entity]) /\ W2[k] = W[k]
        BY <1>1, <3>1 DEF WellShaped
      <4>2. 1..posts[W[k].entity] \subseteq 1..posts2[W[k].entity]
        BY <3>1
      <4>3. QED
        BY <4>1, <4>2 DEF EventShape
    <3>2. CASE k \notin DOMAIN W
      BY <1>1, <3>2
    <3>3. QED
      BY <3>1, <3>2
  <2>2. QED
    BY <2>1 DEF WellShaped
<1>3. InOrder(W2)
  <2>1. ASSUME NEW k \in DOMAIN W2, NEW l \in DOMAIN W2, k < l PROVE InTurn(W2[k], W2[l])
    <3>1. CASE l \in DOMAIN W
      <4>1. k \in DOMAIN W
        <5>1. k \notin DOMAIN W => l < k
          BY <3>1 DEF SentAfter
        <5>2. k \in Nat /\ l \in Nat
          BY DEF SentAfter
        <5>3. QED
          BY <2>1, <5>1, <5>2
      <4>2. QED
        BY <1>1, <2>1, <3>1, <4>1 DEF InOrder
    <3>2. CASE l \notin DOMAIN W /\ k \notin DOMAIN W
      BY <1>1, <3>2 DEF InTurn
    <3>3. CASE l \notin DOMAIN W /\ k \in DOMAIN W
      <4>1. AboutIds(W[k]) \subseteq 1..posts[W[k].entity]
        BY <3>3 DEF WellShaped, EventShape
      <4>2. W2[k] = W[k] /\ W2[l] = event
        BY <1>1, <3>3
      <4>3. QED
        BY <4>1, <4>2 DEF InTurn
    <3>4. QED
      BY <3>1, <3>2, <3>3
  <2>2. QED
    BY <2>1 DEF InOrder
<1>4. ASSUME NEW e \in Entities, NEW i \in Announced(W, posts, e)
      PROVE  i \in Announced(W2, posts2, e)
  <2>1. i \in 1..posts[e] /\ i \in 1..posts2[e]
    BY <1>4 DEF Announced
  <2>2. ASSUME NEW k \in DOMAIN W2, W2[k].entity = e, W2[k].kind = "new"
        PROVE  i \notin AboutIds(W2[k])
    <3>1. CASE k \in DOMAIN W
      BY <1>1, <1>4, <2>2, <3>1 DEF Announced
    <3>2. CASE k \notin DOMAIN W
      BY <1>1, <2>1, <2>2, <3>2
    <3>3. QED
      BY <3>1, <3>2
  <2>3. QED
    BY <2>1, <2>2 DEF Announced
<1>5. QED
  BY <1>2, <1>3, <1>4

-----------------------------------------------------------------------------
(* What a source makes of an event *)

\* Messages of a source whose entity had n so far.
SourceShape(m, n) == m \in [DOMAIN m -> Contents] /\ DOMAIN m \subseteq 1..n

LEMMA ShapeCollects ==
  ASSUME NEW n \in Nat, NEW m, SourceShape(m, n)
  PROVE  Collection(m)
<1>1. IsFiniteSet(1..n)
  BY FS_Interval
<1>2. IsFiniteSet(DOMAIN m)
  BY <1>1, FS_Subset, Zenon DEF SourceShape
<1>3. QED
  BY <1>2 DEF SourceShape, Collection

\* The notice tells what has changed, and nothing has changed if there is none.
Told(m, m2, notice, dead) ==
  \/ notice = M!NoNotice /\ m2 = m
  \/ notice # M!NoNotice /\ NoticeOf(m2, notice, dead) /\ Undone(m2, notice) = m

Takes(m, result, n, dead) ==
  SourceShape(result.messages, n) /\ Told(m, result.messages, result.notice, dead)

\* What adding, editing and removing makes of the messages m.
AddsTo(m, result, others) ==
  /\ DOMAIN result.messages =
       DOMAIN m \cup {i \in DOMAIN others : others[i] \in Supported}
  /\ \A i \in DOMAIN result.messages :
       result.messages[i] = IF i \in DOMAIN m THEN m[i] ELSE others[i]

EditsIn(m, result, edited) ==
  /\ DOMAIN result.messages = DOMAIN m
  /\ \A i \in DOMAIN m :
       result.messages[i] =
         IF /\ i \in DOMAIN edited /\ edited[i] \in Supported
            /\ DOMAIN M!Filtered(edited) \subseteq DOMAIN m
         THEN edited[i] ELSE m[i]

RemovesFrom(m, result, ids) ==
  /\ DOMAIN result.messages = DOMAIN m \ ids
  /\ \A i \in DOMAIN result.messages : result.messages[i] = m[i]

LEMMA FilteredProps ==
  ASSUME NEW m
  PROVE  /\ DOMAIN M!Filtered(m) = {i \in DOMAIN m : m[i] \in Supported}
         /\ \A i \in DOMAIN M!Filtered(m) : M!Filtered(m)[i] = m[i]
         /\ M!Filtered(m) = [i \in DOMAIN M!Filtered(m) |-> m[i]]
BY DEF M!Filtered, M!RestrictValues, M!Restrict

LEMMA AddTold ==
  ASSUME NEW n \in Nat, NEW m, NEW others, NEW dead, SourceShape(m, n), SourceShape(others, n)
  PROVE  /\ Takes(m, M!AddMessages(m, others), n, dead)
         /\ AddsTo(m, M!AddMessages(m, others), others)
<1> DEFINE F    == M!Filtered(others)
           diff == M!Without(F, DOMAIN m)
           m2   == M!Extended(m, diff)
           note == IF DOMAIN diff = {} THEN M!NoNotice ELSE M!Notice("new", M!Empty, diff)
<1>1. M!AddMessages(m, others) = [messages |-> m2, notice |-> note]
  BY DEF M!AddMessages, M!Result, M!Ids
<1>2. /\ DOMAIN F = {i \in DOMAIN others : others[i] \in Supported}
      /\ \A i \in DOMAIN F : F[i] = others[i]
  BY FilteredProps
<1> HIDE DEF F
<1>3. /\ DOMAIN diff = DOMAIN F \ DOMAIN m
      /\ \A i \in DOMAIN diff : diff[i] = others[i]
      /\ diff = [i \in DOMAIN F \ DOMAIN m |-> others[i]]
  BY <1>2 DEF M!Without, M!Restrict, M!Ids
<1> HIDE DEF diff
<1>4. /\ DOMAIN m2 = DOMAIN m \cup DOMAIN diff
      /\ \A i \in DOMAIN m2 : m2[i] = IF i \in DOMAIN m THEN m[i] ELSE diff[i]
      /\ m2 = [i \in DOMAIN m2 |-> IF i \in DOMAIN m THEN m[i] ELSE diff[i]]
  BY DEF M!Extended, M!Overwritten, M!Ids
<1> HIDE DEF m2
<1>5. SourceShape(m2, n)
  <2>1. \A i \in DOMAIN m2 : m2[i] \in Contents /\ i \in 1..n
    BY <1>2, <1>3, <1>4 DEF SourceShape
  <2>2. QED
    BY <1>4, <2>1 DEF SourceShape
<1>6. SourceShape(diff, n)
  <2> DEFINE D == DOMAIN F \ DOMAIN m
  <2>1. \A i \in D : others[i] \in Contents /\ i \in 1..n
    BY <1>2, <1>3 DEF SourceShape
  <2>2. diff = [i \in D |-> others[i]] /\ DOMAIN diff = D
    BY <1>3
  <2> HIDE DEF D
  <2>3. diff \in [D -> Contents] /\ D \subseteq 1..n
    BY <2>1, <2>2
  <2>4. QED
    BY <2>2, <2>3 DEF SourceShape
<1>7. CASE DOMAIN diff = {}
  <2>1. DOMAIN m2 = DOMAIN m /\ \A i \in DOMAIN m : m2[i] = m[i]
    BY <1>4, <1>7
  <2>2. m2 = m
    BY <2>1, <1>5 DEF SourceShape
  <2>3. Told(m, m2, note, dead)
    BY <1>7, <2>2 DEF Told
  <2>4. QED
    BY <1>1, <1>2, <1>3, <1>4, <1>5, <2>3 DEF Takes, AddsTo
<1>8. CASE DOMAIN diff # {}
  <2>1. note.kind = "new" /\ note.old = M!Empty /\ note.new = diff
    BY <1>8 DEF M!Notice
  <2>2. note # M!NoNotice
    BY <2>1 DEF M!NoNotice, M!Notice
  <2> HIDE DEF note
  <2>3. DOMAIN M!Empty = {} /\ Collection(M!Empty)
    <3>1. DOMAIN M!Empty = {} /\ M!Empty \in [{} -> Contents]
      BY DEF M!Empty
    <3>2. IsFiniteSet({})
      BY FS_EmptySet
    <3>3. QED
      BY <3>1, <3>2 DEF Collection
  <2>4. NoticeOf(m2, note, dead)
    <3>1. Collection(diff)
      BY <1>6, ShapeCollects
    <3>2. \A i \in DOMAIN diff : i \in DOMAIN m2 /\ m2[i] = diff[i]
      BY <1>3, <1>4
    <3>3. QED
      BY <2>1, <2>3, <3>1, <3>2 DEF NoticeOf
  <2>5. Undone(m2, note) = m
    <3>1. /\ DOMAIN Undone(m2, note) = DOMAIN m
          /\ \A i \in DOMAIN m : Undone(m2, note)[i] = m[i]
      BY <1>3, <1>4, <2>1, <2>3 DEF Undone
    <3>2. Undone(m2, note) = [i \in DOMAIN Undone(m2, note) |-> Undone(m2, note)[i]]
      BY DEF Undone
    <3>3. m = [i \in DOMAIN m |-> m[i]]
      BY DEF SourceShape
    <3>4. QED
      BY <3>1, <3>2, <3>3
  <2>6. Told(m, m2, note, dead)
    BY <2>2, <2>4, <2>5 DEF Told
  <2>7. QED
    BY <1>1, <1>2, <1>3, <1>4, <1>5, <2>6 DEF Takes, AddsTo
<1>9. QED
  BY <1>7, <1>8

\* An edit changes a message that is there, if it passes the filter.
LEMMA EditTold ==
  ASSUME NEW n \in Nat, NEW m, NEW edited, NEW dead, SourceShape(m, n),
         SourceShape(edited, n)
  PROVE  /\ Takes(m, M!EditMessages(m, edited), n, dead)
         /\ EditsIn(m, M!EditMessages(m, edited), edited)
<1> DEFINE F     == M!Filtered(edited)
           D     == DOMAIN F
           m2    == M!Overwritten(m, F)
           note  == M!Notice("edited", M!Restrict(m, D), F)
           takes == D \subseteq DOMAIN m
<1>1. M!EditMessages(m, edited) = IF takes THEN [messages |-> m2, notice |-> note]
                                  ELSE [messages |-> m, notice |-> M!NoNotice]
  BY DEF M!EditMessages, M!Result, M!Ids
<1>2. /\ D = {i \in DOMAIN edited : edited[i] \in Supported}
      /\ \A i \in D : F[i] = edited[i]
      /\ F = [i \in D |-> edited[i]]
  BY FilteredProps
<1>3. /\ DOMAIN m2 = DOMAIN m \cup D
      /\ \A i \in DOMAIN m2 : m2[i] = IF i \in D THEN F[i] ELSE m[i]
      /\ m2 = [i \in DOMAIN m2 |-> m2[i]]
  BY DEF M!Overwritten, M!Ids
<1> HIDE DEF D
<1>4. SourceShape(F, n)
  <2>1. \A i \in D : edited[i] \in Contents /\ i \in 1..n
    BY <1>2 DEF SourceShape
  <2>2. F \in [D -> Contents] /\ D \subseteq 1..n
    BY <1>2, <2>1
  <2>3. QED
    BY <2>2 DEF SourceShape, D
<1>5. DOMAIN F = D
  BY DEF D
<1> HIDE DEF F, m2
<1>6. CASE takes
  <2>1. DOMAIN m2 = DOMAIN m
    BY <1>3, <1>6
  <2>2. SourceShape(m2, n)
    <3>1. \A i \in DOMAIN m : m2[i] \in Contents /\ i \in 1..n
      BY <1>3, <1>4, <1>5, <2>1 DEF SourceShape
    <3>2. QED
      BY <1>3, <2>1, <3>1 DEF SourceShape
  <2>3. /\ note.kind = "edited" /\ note.old = M!Restrict(m, D) /\ note.new = F
        /\ note # M!NoNotice
    BY DEF M!Notice, M!NoNotice
  <2>4. /\ DOMAIN note.old = D /\ \A i \in D : note.old[i] = m[i]
        /\ note.old = [i \in D |-> m[i]]
    BY <2>3 DEF M!Restrict
  <2> HIDE DEF note
  <2>5. SourceShape(note.old, n)
    <3>1. \A i \in D : m[i] \in Contents /\ i \in 1..n
      BY <1>6 DEF SourceShape
    <3>2. note.old \in [D -> Contents] /\ D \subseteq 1..n
      BY <2>4, <3>1
    <3>3. QED
      BY <2>4, <3>2 DEF SourceShape
  <2>6. NoticeOf(m2, note, dead)
    <3>1. Collection(F) /\ Collection(note.old)
      BY <1>4, <2>5, ShapeCollects
    <3>2. \A i \in DOMAIN F : i \in DOMAIN m2 /\ m2[i] = F[i]
      BY <1>3, <1>5
    <3>3. QED
      BY <1>5, <2>3, <2>4, <3>1, <3>2 DEF NoticeOf
  <2>7. Undone(m2, note) = m
    <3>1. /\ DOMAIN Undone(m2, note) = DOMAIN m
          /\ \A i \in DOMAIN m : Undone(m2, note)[i] = m[i]
      BY <1>3, <1>5, <1>6, <2>1, <2>3, <2>4 DEF Undone
    <3>2. Undone(m2, note) = [i \in DOMAIN Undone(m2, note) |-> Undone(m2, note)[i]]
      BY DEF Undone
    <3>3. m = [i \in DOMAIN m |-> m[i]]
      BY DEF SourceShape
    <3>4. QED
      BY <3>1, <3>2, <3>3
  <2>8. Told(m, m2, note, dead)
    BY <2>3, <2>6, <2>7 DEF Told
  <2>9. \A i \in DOMAIN m :
          m2[i] = IF i \in DOMAIN edited /\ edited[i] \in Supported THEN edited[i]
                  ELSE m[i]
    BY <1>2, <1>3, <2>1
  <2>10. M!EditMessages(m, edited).messages = m2 /\ M!EditMessages(m, edited).notice = note
    BY <1>1, <1>6
  <2>11. DOMAIN M!Filtered(edited) \subseteq DOMAIN m
    BY <1>5, <1>6 DEF F
  <2> HIDE DEF takes
  <2>12. QED
    BY <2>1, <2>2, <2>8, <2>9, <2>10, <2>11 DEF Takes, EditsIn
<1>7. CASE ~takes
  <2>1. M!EditMessages(m, edited).messages = m
        /\ M!EditMessages(m, edited).notice = M!NoNotice
    BY <1>1, <1>7
  <2>2. Told(m, m, M!NoNotice, dead)
    BY DEF Told
  <2>3. ~(DOMAIN M!Filtered(edited) \subseteq DOMAIN m)
    BY <1>5, <1>7 DEF F
  <2> HIDE DEF takes
  <2>4. QED
    BY <2>1, <2>2, <2>3 DEF Takes, EditsIn
<1>8. QED
  BY <1>6, <1>7

\* Removed messages are told of as they were.
LEMMA RemoveTold ==
  ASSUME NEW n \in Nat, NEW m, NEW ids, NEW dead, SourceShape(m, n), ids \subseteq dead
  PROVE  /\ Takes(m, M!RemoveMessages(m, ids), n, dead)
         /\ RemovesFrom(m, M!RemoveMessages(m, ids), ids)
<1> DEFINE D    == ids \cap DOMAIN m
           m2   == M!Without(m, ids)
           note == M!Notice("removed", M!Restrict(m, D), M!Empty)
<1>1. /\ M!RemoveMessages(m, ids).messages = m2
      /\ M!RemoveMessages(m, ids).notice = note
  BY DEF M!RemoveMessages, M!Result, M!Ids
<1>2. /\ DOMAIN m2 = DOMAIN m \ ids /\ \A i \in DOMAIN m2 : m2[i] = m[i]
      /\ m2 = [i \in DOMAIN m2 |-> m2[i]]
  BY DEF M!Without, M!Restrict, M!Ids
<1> HIDE DEF m2
<1>3. SourceShape(m2, n)
  <2>1. \A i \in DOMAIN m2 : m2[i] \in Contents /\ i \in 1..n
    BY <1>2 DEF SourceShape
  <2>2. QED
    BY <1>2, <2>1 DEF SourceShape
<1>4. /\ note.kind = "removed" /\ note.old = M!Restrict(m, D) /\ note.new = M!Empty
      /\ note # M!NoNotice
  BY DEF M!Notice, M!NoNotice
<1>5. /\ DOMAIN note.old = D /\ \A i \in D : note.old[i] = m[i]
      /\ note.old = [i \in D |-> m[i]]
  BY <1>4 DEF M!Restrict
<1> HIDE DEF note
<1>6. D \subseteq DOMAIN m /\ D \subseteq dead /\ D \cap DOMAIN m2 = {}
      /\ (DOMAIN m \ ids) \cup D = DOMAIN m
  BY <1>2
<1> HIDE DEF D
<1>7. SourceShape(note.old, n)
  <2>1. \A i \in D : m[i] \in Contents /\ i \in 1..n
    BY <1>6 DEF SourceShape
  <2>2. note.old \in [D -> Contents] /\ D \subseteq 1..n
    BY <1>5, <2>1
  <2>3. QED
    BY <1>5, <2>2 DEF SourceShape
<1>8. DOMAIN M!Empty = {} /\ Collection(M!Empty)
  <2>1. DOMAIN M!Empty = {} /\ M!Empty \in [{} -> Contents]
    BY DEF M!Empty
  <2>2. IsFiniteSet({})
    BY FS_EmptySet
  <2>3. QED
    BY <2>1, <2>2 DEF Collection
<1>9. NoticeOf(m2, note, dead)
  <2>1. Collection(note.old)
    BY <1>7, ShapeCollects
  <2>2. QED
    BY <1>4, <1>5, <1>6, <1>8, <2>1 DEF NoticeOf
<1>10. Undone(m2, note) = m
  <2>1. /\ DOMAIN Undone(m2, note) = DOMAIN m
        /\ \A i \in DOMAIN m : Undone(m2, note)[i] = m[i]
    BY <1>2, <1>4, <1>5, <1>6, <1>8 DEF Undone
  <2>2. Undone(m2, note) = [i \in DOMAIN Undone(m2, note) |-> Undone(m2, note)[i]]
    BY DEF Undone
  <2>3. m = [i \in DOMAIN m |-> m[i]]
    BY DEF SourceShape
  <2>4. QED
    BY <2>1, <2>2, <2>3
<1>11. Told(m, m2, note, dead)
  BY <1>4, <1>9, <1>10 DEF Told
<1>12. QED
  BY <1>1, <1>2, <1>3, <1>11 DEF Takes, RemovesFrom

\* The message an event of a reaction is taken for: the one that is there, with
\* the reaction of the event.
Reacted(m, change) ==
  [i \in DOMAIN change |-> [m[i] EXCEPT !.reaction = change[i]]]

LEMMA ReactedShape ==
  ASSUME NEW n \in Nat, NEW m, SourceShape(m, n), NEW i \in DOMAIN m, NEW r \in Reactions
  PROVE  /\ SourceShape(Reacted(m, One(i, r)), n) /\ DOMAIN Reacted(m, One(i, r)) = {i}
         /\ Reacted(m, One(i, r))[i] = [m[i] EXCEPT !.reaction = r]
         /\ [m[i] EXCEPT !.reaction = r] \in Contents
         /\ [m[i] EXCEPT !.reaction = r].body = m[i].body
         /\ [m[i] EXCEPT !.reaction = r].reaction = r
<1>1. m[i] \in Contents /\ i \in 1..n
  BY DEF SourceShape
<1> DEFINE c == [m[i] EXCEPT !.reaction = r]
           R == Reacted(m, One(i, r))
<1>2. c \in Contents /\ c.body = m[i].body /\ c.reaction = r
  BY <1>1 DEF Contents
<1>3. DOMAIN R = {i} /\ R[i] = c /\ R = [j \in {i} |-> c]
  BY DEF Reacted, One
<1> HIDE DEF R, c
<1>4. R \in [{i} -> Contents]
  BY <1>2, <1>3
<1>5. SourceShape(R, n)
  BY <1>1, <1>3, <1>4 DEF SourceShape
<1>6. QED
  BY <1>2, <1>3, <1>5 DEF R, c

LEMMA OneShape ==
  ASSUME NEW n \in Nat, NEW i \in 1..n, NEW c \in Contents
  PROVE  SourceShape(One(i, c), n) /\ DOMAIN One(i, c) = {i} /\ One(i, c)[i] = c
BY DEF SourceShape, One

GrowsBy(m, result, event) ==
  \A i \in DOMAIN result.messages :
    i \in DOMAIN m \/ (event.kind = "new" /\ i \in AboutIds(event))

\* The source tells of all it makes of an event, and only an announcement gives
\* it a message.
LEMMA UpdatedTold ==
  ASSUME NEW s, NEW n \in Nat, NEW event \in Event, NEW dead,
         SourceShape(messages[s], n), EventShape(event, n),
         event.kind = "delete" => event.change \subseteq dead
  PROVE  /\ Takes(messages[s], Updated(s, event), n, dead)
         /\ GrowsBy(messages[s], Updated(s, event), event)
<1> DEFINE old    == messages[s]
           result == Updated(s, event)
           change == event.change
           OK(r)  == Takes(old, r, n, dead) /\ GrowsBy(old, r, event)
<1>1. event.kind \in {"new", "edit", "reaction", "delete"}
  BY DEF Event
<1>2. CASE event.kind = "new"
  <2>1. result = M!AddMessages(old, change)
    BY <1>2 DEF Updated
  <2>2. PICK i \in 1..n, c \in Contents : change = One(i, c)
    BY <1>2 DEF EventShape
  <2> HIDE DEF result, old, change
  <2>3. SourceShape(old, n)
    BY DEF old
  <2>4. SourceShape(change, n)
    BY <2>2, OneShape
  <2>5. /\ Takes(old, M!AddMessages(old, change), n, dead)
        /\ AddsTo(old, M!AddMessages(old, change), change)
    BY <2>3, <2>4, AddTold
  <2>6. AboutIds(event) = DOMAIN change
    BY <1>2 DEF AboutIds, change
  <2>7. GrowsBy(old, M!AddMessages(old, change), event)
    BY <1>2, <2>5, <2>6 DEF AddsTo, GrowsBy
  <2>8. QED
    BY <2>1, <2>5, <2>7 DEF result, old
<1>3. CASE event.kind = "delete"
  <2>1. result = M!RemoveMessages(old, change)
    BY <1>3 DEF Updated
  <2> HIDE DEF result, old
  <2>2. SourceShape(old, n)
    BY DEF old
  <2>3. /\ Takes(old, M!RemoveMessages(old, change), n, dead)
        /\ RemovesFrom(old, M!RemoveMessages(old, change), change)
    BY <1>3, <2>2, RemoveTold
  <2>4. GrowsBy(old, M!RemoveMessages(old, change), event)
    BY <2>3 DEF RemovesFrom, GrowsBy
  <2>5. QED
    BY <2>1, <2>3, <2>4 DEF result, old
<1>4. CASE event.kind = "edit" /\ s \in known
  <2>1. result = M!EditMessages(old, change)
    BY <1>4 DEF Updated
  <2>2. PICK i \in 1..n, c \in Contents : change = One(i, c)
    BY <1>4 DEF EventShape
  <2> HIDE DEF result, old, change
  <2>3. SourceShape(old, n)
    BY DEF old
  <2>4. SourceShape(change, n)
    BY <2>2, OneShape
  <2>5. /\ Takes(old, M!EditMessages(old, change), n, dead)
        /\ EditsIn(old, M!EditMessages(old, change), change)
    BY <2>3, <2>4, EditTold
  <2>6. GrowsBy(old, M!EditMessages(old, change), event)
    BY <2>5 DEF EditsIn, GrowsBy
  <2>7. QED
    BY <2>1, <2>5, <2>6 DEF result, old
<1>5. CASE event.kind = "reaction" /\ DOMAIN change \subseteq DOMAIN old
  <2>1. result = M!EditMessages(old, Reacted(old, change))
    BY <1>5 DEF Updated, Reacted
  <2>2. PICK i \in 1..n, r \in Reactions : change = One(i, r)
    BY <1>5 DEF EventShape
  <2>3. i \in DOMAIN old
    BY <1>5, <2>2 DEF One
  <2> HIDE DEF result, old, change
  <2>4. SourceShape(old, n)
    BY DEF old
  <2>5. SourceShape(Reacted(old, change), n)
    BY <2>2, <2>3, <2>4, ReactedShape
  <2>6. /\ Takes(old, M!EditMessages(old, Reacted(old, change)), n, dead)
        /\ EditsIn(old, M!EditMessages(old, Reacted(old, change)), Reacted(old, change))
    BY <2>4, <2>5, EditTold
  <2>7. GrowsBy(old, M!EditMessages(old, Reacted(old, change)), event)
    BY <2>6 DEF EditsIn, GrowsBy
  <2>8. QED
    BY <2>1, <2>6, <2>7 DEF result, old
<1>6. CASE \/ event.kind = "edit" /\ s \notin known
           \/ event.kind = "reaction" /\ ~(DOMAIN change \subseteq DOMAIN old)
  <2>1. result = [messages |-> old, notice |-> M!NoNotice]
    BY <1>6 DEF Updated, M!Result
  <2>2. OK([messages |-> old, notice |-> M!NoNotice])
    BY DEF Told, Takes, GrowsBy
  <2> HIDE DEF result, OK
  <2>3. OK(result)
    BY <2>1, <2>2
  <2>4. QED
    BY <2>3 DEF OK, result, old
<1>7. QED
  BY <1>1, <1>2, <1>3, <1>4, <1>5, <1>6

-----------------------------------------------------------------------------
(* A file that could not be made, and what stays as it is *)

\* The ids of messages that are left aside from then on.
LEMMA FailedShows ==
  ASSUME NEW m, NEW n, NEW list, NEW made, NEW wanted, NEW bad, NEW dead,
         NoticeOf(m, n, dead), n.kind # "removed",
         Shows(list, made, Undone(m, n), m, wanted, bad, dead)
  PROVE  Shows(list, made, m, m, wanted, bad \cup DOMAIN n.old \cup DOMAIN n.new, dead)
<1>1. DOMAIN n.new \subseteq DOMAIN m /\ DOMAIN n.old \subseteq DOMAIN m
  BY DEF NoticeOf, M!Empty
<1>2. /\ DOMAIN Undone(m, n) \subseteq DOMAIN m
      /\ \A i \in DOMAIN m : i \notin DOMAIN n.old /\ i \notin DOMAIN n.new =>
           i \in DOMAIN Undone(m, n) /\ Undone(m, n)[i] = m[i]
  BY <1>1 DEF Undone
<1>3. QED
  BY <1>2 DEF Shows

\* Only new and edited messages make a directory wait.
LEMMA WaitsForNew ==
  ASSUME NEW m, NEW n, NEW made, NEW wanted, NEW dead, NoticeOf(m, n, dead),
         P!Waits(PlanFor(n, made, wanted))
  PROVE  n.kind # "removed"
<1> SUFFICES ASSUME n.kind = "removed" PROVE FALSE
  OBVIOUS
<1> DEFINE plan == PlanFor(n, made, wanted)
<1>1. DOMAIN n.new = {} /\ Collection(n.new)
  BY DEF NoticeOf, M!Empty
<1>2. Adds(n, made, wanted) = {} /\ Updates(n, made, wanted) = {}
  BY <1>1 DEF Adds, Updates, Passing
<1>3. PlanDoes(plan, n, made, wanted)
  BY <1>1, PlanParts
<1>4. P!Waits(plan)
  OBVIOUS
<1> HIDE DEF plan
<1>5. DOMAIN plan.update = {}
  BY <1>2, <1>3 DEF PlanDoes
<1>6. IdsOf(plan.add) = {}
  BY <1>2, <1>3 DEF PlanDoes
<1>7. DOMAIN plan.add = {}
  BY <1>6 DEF IdsOf
<1>8. QED
  BY <1>4, <1>5, <1>7 DEF P!Waits

\* More messages may be announced.
LEMMA ShowsOn ==
  ASSUME NEW list, NEW made, NEW base, NEW now, NEW wanted, NEW bad, NEW dead,
         NEW dead2, dead \subseteq dead2, Shows(list, made, base, now, wanted, bad, dead)
  PROVE  Shows(list, made, base, now, wanted, bad, dead2)
BY DEF Shows

LEMMA NoticeOn ==
  ASSUME NEW m, NEW n, NEW dead, NEW dead2, dead \subseteq dead2, NoticeOf(m, n, dead)
  PROVE  NoticeOf(m, n, dead2)
BY DEF NoticeOf

-----------------------------------------------------------------------------
(* The inductive invariant of the directories *)

\* The messages of the entity of a directory that are announced already.
DeadOf(W, posts, d) == Announced(W, posts, EntityOf[SourceOf[d]])

BadIds(fails, d) == {i \in Nat : <<d, i>> \in fails}

\* A job that the directory is still to hear from.
Awaits(j, d) == j # Idle /\ \E k \in DOMAIN j.left : j.left[k] = d

\* A job on its way: its notice is true of the sources of its listeners.
JobOK(j, subscribed, ms, fs, W, posts) ==
  /\ j.left \in Seq(Dirs) /\ \A k, l \in DOMAIN j.left : j.left[k] = j.left[l] => k = l
  /\ \A k \in DOMAIN j.left :
       /\ j.left[k] \in subscribed
       /\ NoticeOf(ms[SourceOf[j.left[k]]], j.notice, DeadOf(W, posts, j.left[k]))
  /\ j.pc = "producing" =>
       /\ j.left # <<>>
       /\ j.plan = PlanFor(j.notice, fs[Head(j.left)], Wanted[Head(j.left)])
       /\ P!Waits(j.plan)

\* A directory shows its source, as it was before a notice that is on its way.
DirOK(d, jobs, list, made, m, fails, dead) ==
  /\ \A w \in Workers : Awaits(jobs[w], d) =>
       Shows(list, made, Undone(m, jobs[w].notice), m, Wanted[d], BadIds(fails, d), dead)
  /\ (\A w \in Workers : ~Awaits(jobs[w], d)) =>
       Shows(list, made, m, m, Wanted[d], BadIds(fails, d), dead)

EventsInv ==
  /\ queue \in Seq(Event) /\ inbox \in Seq(Event)
  /\ \A e \in Entities : server[e] \in [DOMAIN server[e] -> Contents]
  /\ InOrder(Coming) /\ WellShaped(Coming, posted)

\* When what is under way: no two jobs at a time, and none is live before all
\* queued events are replayed.
PhaseInv ==
  /\ Produced # {} \/ control = "resume" \/ phase \in {"resuming", "mounted"} =>
       fetched = Sources
  /\ phase = "mounted" => queue = <<>> /\ job["resume"] = Idle /\ ~paused
  /\ phase = "resuming" /\ job["resume"] = Idle => control = "resume"
  /\ phase \in {"starting", "resuming"} => job["live"] = Idle
  /\ job["live"] = Idle \/ job["resume"] = Idle

SourcesInv ==
  \A s \in Sources :
    /\ SourceShape(messages[s], posted[EntityOf[s]])
    /\ \A k, l \in DOMAIN listeners[s] : listeners[s][k] = listeners[s][l] => k = l

JobsInv ==
  \A w \in Workers : job[w] # Idle =>
    JobOK(job[w], Produced, messages, files, Coming, posted)

DirsInv ==
  /\ DOMAIN files = Dirs /\ DOMAIN items = Dirs
  /\ \A d \in Produced :
       DirOK(d, job, items[d], files[d], messages[SourceOf[d]], failed,
             DeadOf(Coming, posted, d))

DInv == EventsInv /\ PhaseInv /\ SourcesInv /\ JobsInv /\ DirsInv

\* All of this is about runs in which two events were never under way at a time.
GInv == IInv /\ (~overlapped => DInv)

LEMMA ProducedListen ==
  ASSUME IInv
  PROVE  /\ Produced \subseteq Dirs
         /\ \A d \in Dirs : /\ SourceOf[d] \in Sources /\ EntityOf[SourceOf[d]] \in Entities
                            /\ d \in Produced <=> \E k \in DOMAIN listeners[SourceOf[d]] :
                                                    listeners[SourceOf[d]][k] = d
<1>1. \A d \in Dirs : SourceOf[d] \in Sources /\ EntityOf[SourceOf[d]] \in Entities
  BY SourcesAssumption
<1>2. \A s \in Sources : DOMAIN listeners[s] = 1..Len(listeners[s])
  BY DEF IInv, SourceInv
<1>3. QED
  BY <1>1, <1>2 DEF Produced, Contains

LEMMA ComingEvents ==
  ASSUME EventsInv
  PROVE  Coming \in Seq(Event) /\ \A k \in DOMAIN Coming : Coming[k] \in Event
BY DEF EventsInv, Coming

LEMMA DirOn ==
  ASSUME NEW d, NEW jobs, NEW list, NEW made, NEW m, NEW fails, NEW dead, NEW dead2,
         dead \subseteq dead2, DirOK(d, jobs, list, made, m, fails, dead)
  PROVE  DirOK(d, jobs, list, made, m, fails, dead2)
BY ShowsOn DEF DirOK

LEMMA JobOn ==
  ASSUME NEW j, NEW subscribed, NEW ms, NEW fs, NEW W, NEW posts, NEW W2, NEW posts2,
         \A d \in Dirs : EntityOf[SourceOf[d]] \in Entities,
         \A e \in Entities : Announced(W, posts, e) \subseteq Announced(W2, posts2, e),
         JobOK(j, subscribed, ms, fs, W, posts)
  PROVE  JobOK(j, subscribed, ms, fs, W2, posts2)
<1>1. ASSUME NEW k \in DOMAIN j.left
      PROVE  NoticeOf(ms[SourceOf[j.left[k]]], j.notice, DeadOf(W2, posts2, j.left[k]))
  <2>1. j.left[k] \in Dirs
    BY DEF JobOK
  <2>2. DeadOf(W, posts, j.left[k]) \subseteq DeadOf(W2, posts2, j.left[k])
    BY <2>1 DEF DeadOf
  <2>3. NoticeOf(ms[SourceOf[j.left[k]]], j.notice, DeadOf(W, posts, j.left[k]))
    BY DEF JobOK
  <2>4. QED
    BY <2>2, <2>3, NoticeOn
<1>2. QED
  BY <1>1 DEF JobOK

\* A step that leaves sources, jobs and directories alone.
LEMMA QuietKeeps ==
  ASSUME IInv, SourcesInv, JobsInv, DirsInv,
         UNCHANGED <<messages, listeners, job, files, items, failed>>,
         \A e \in Entities : 1..posted[e] \subseteq 1..posted'[e],
         \A e \in Entities : Announced(Coming, posted, e) \subseteq Announced(Coming', posted', e)
  PROVE  SourcesInv' /\ JobsInv' /\ DirsInv'
<1>1. /\ \A d \in Dirs : SourceOf[d] \in Sources /\ EntityOf[SourceOf[d]] \in Entities
      /\ Produced \subseteq Dirs
  BY ProducedListen
<1>2. Produced' = Produced
  BY DEF Produced
<1>3. SourcesInv'
  <2>1. \A s \in Sources : EntityOf[s] \in Entities
    BY SourcesAssumption
  <2>2. QED
    BY <2>1 DEF SourcesInv, SourceShape
<1>4. JobsInv'
  <2>1. ASSUME NEW w \in Workers, job[w] # Idle
        PROVE  JobOK(job[w], Produced, messages, files, Coming', posted')
    <3>1. JobOK(job[w], Produced, messages, files, Coming, posted)
      BY <2>1 DEF JobsInv
    <3>2. QED
      BY <1>1, <3>1, JobOn
  <2>2. QED
    BY <1>2, <2>1 DEF JobsInv
<1>5. DirsInv'
  <2>1. ASSUME NEW d \in Produced
        PROVE  DirOK(d, job, items[d], files[d], messages[SourceOf[d]], failed,
                     DeadOf(Coming', posted', d))
    <3>1. DirOK(d, job, items[d], files[d], messages[SourceOf[d]], failed,
                DeadOf(Coming, posted, d))
      BY DEF DirsInv
    <3>2. DeadOf(Coming, posted, d) \subseteq DeadOf(Coming', posted', d)
      BY <1>1 DEF DeadOf
    <3>3. QED
      BY <3>1, <3>2, DirOn
  <2>2. QED
    BY <1>2, <2>1 DEF DirsInv
<1>6. QED
  BY <1>3, <1>4, <1>5

-----------------------------------------------------------------------------
(* Telegram *)

\* The events that are to come once one is sent.
LEMMA SentComing ==
  ASSUME EventsInv, NEW e, NEW kind, NEW change, Send(e, kind, change),
         [entity |-> e, kind |-> kind, change |-> change] \in Event,
         Cardinality({s \in Sources : EntityOf[s] = e}) \in Nat
  PROVE  /\ inbox' \in Seq(Event) /\ queue' = queue
         /\ SentAfter(Coming', Coming, [entity |-> e, kind |-> kind, change |-> change])
         /\ Cardinality({s \in Sources : EntityOf[s] = e}) > 0 =>
              \E k \in DOMAIN Coming' : k \notin DOMAIN Coming
<1> DEFINE event == [entity |-> e, kind |-> kind, change |-> change]
           n     == Cardinality({s \in Sources : EntityOf[s] = e})
           more  == [k \in 1..n |-> event]
<1>1. inbox' = inbox \o more /\ queue' = queue
  BY DEF Send, Handlers
<1>2. queue \in Seq(Event) /\ inbox \in Seq(Event) /\ event \in Event
  BY DEF EventsInv
<1> HIDE DEF event, n
<1>3. /\ inbox \o more \in Seq(Event)
      /\ SentAfter(queue \o (inbox \o more), queue \o inbox, event)
      /\ n > 0 => \E k \in DOMAIN (queue \o (inbox \o more)) :
                    k \notin DOMAIN (queue \o inbox)
  BY <1>2, ComingSent DEF n
<1> HIDE DEF more
<1>4. Coming' = queue \o (inbox \o more) /\ Coming = queue \o inbox
  BY <1>1 DEF Coming
<1>5. QED
  BY <1>1, <1>3, <1>4 DEF event, n

\* The sources are finitely many.
LEMMA SourcesFinite ==
  /\ IsFiniteSet(Sources)
  /\ \A e : /\ Cardinality({s \in Sources : EntityOf[s] = e}) \in Nat
            /\ (\E s \in Sources : EntityOf[s] = e) =>
                 Cardinality({s \in Sources : EntityOf[s] = e}) > 0
<1>1. SourceOrder \in Seq(Sources) /\ Sources = Range(SourceOrder)
  BY SourcesAssumption DEF Sources
<1> DEFINE n == Len(SourceOrder)
<1>2. n \in Nat /\ DOMAIN SourceOrder = 1..n
  BY <1>1
<1>3. SourceOrder \in Surjection(1..n, Sources)
  <2>1. SourceOrder \in [1..n -> Sources]
    BY <1>1, <1>2
  <2>2. \A s \in Sources : \E k \in 1..n : SourceOrder[k] = s
    BY <1>1, <1>2 DEF Range
  <2>3. QED
    BY <2>1, <2>2 DEF Surjection
<1> HIDE DEF n
<1>4. IsFiniteSet(1..n)
  BY <1>2, FS_Interval
<1>5. IsFiniteSet(Sources)
  BY <1>3, <1>4, FS_Surjection, Zenon
<1>6. ASSUME NEW e
      PROVE  /\ Cardinality({s \in Sources : EntityOf[s] = e}) \in Nat
             /\ (\E s \in Sources : EntityOf[s] = e) =>
                  Cardinality({s \in Sources : EntityOf[s] = e}) > 0
  <2> DEFINE S == {s \in Sources : EntityOf[s] = e}
  <2>1. S \subseteq Sources
    OBVIOUS
  <2>2. (\E s \in Sources : EntityOf[s] = e) => S # {}
    OBVIOUS
  <2> HIDE DEF S
  <2>3. IsFiniteSet(S)
    BY <1>5, <2>1, FS_Subset, Zenon
  <2>4. Cardinality(S) \in Nat
    BY <2>3, FS_CardinalityType, Zenon
  <2>5. S # {} => Cardinality(S) # 0
    BY <2>3, FS_EmptySet, Zenon
  <2>6. Cardinality(S) \in Nat /\ (S # {} => Cardinality(S) > 0)
    BY <2>4, <2>5
  <2>7. QED
    BY <2>2, <2>6 DEF S
<1>7. QED
  BY <1>5, <1>6

\* An update of an entity disturbs no directory.
LEMMA SendDInv ==
  ASSUME IInv, DInv, NEW e \in Entities, NEW kind, NEW change, Send(e, kind, change),
         kind \in {"new", "edit", "reaction", "delete"},
         [entity |-> e, kind |-> kind, change |-> change] \in Event,
         EventShape([entity |-> e, kind |-> kind, change |-> change], posted'[e]),
         \A f \in Entities : posted'[f] \in Nat /\ posted[f] <= posted'[f],
         kind = "new" => DOMAIN change \cap (1..posted[e]) = {},
         \A f \in Entities : server'[f] \in [DOMAIN server'[f] -> Contents]
  PROVE  DInv'
<1> DEFINE event == [entity |-> e, kind |-> kind, change |-> change]
<1>1. SourcesInv /\ JobsInv /\ DirsInv /\ EventsInv /\ PhaseInv
  BY DEF DInv
<1>2. /\ event \in Event /\ event.entity = e /\ event.kind = kind
      /\ (kind = "new" => AboutIds(event) = DOMAIN change)
  BY DEF AboutIds
<1>3. EventShape(event, posted'[event.entity])
  OBVIOUS
<1>4. inbox' \in Seq(Event) /\ queue' = queue /\ SentAfter(Coming', Coming, event)
  BY <1>1, SourcesFinite, SentComing
<1> HIDE DEF event
<1>5. \A f \in Entities : 1..posted[f] \subseteq 1..posted'[f]
  BY DEF IInv, ServerInv
<1>6. \A k \in DOMAIN Coming : Coming[k].entity \in Entities
  BY <1>1, ComingEvents DEF Event
<1> DEFINE W  == Coming
           W2 == Coming'
           p  == posted
           p2 == posted'
<1>7. InOrder(W) /\ WellShaped(W, p)
  BY <1>1 DEF EventsInv
<1>8. /\ SentAfter(W2, W, event) /\ \A k \in DOMAIN W : W[k].entity \in Entities
      /\ \A f \in Entities : 1..p[f] \subseteq 1..p2[f]
      /\ EventShape(event, p2[event.entity])
      /\ event.kind = "new" => AboutIds(event) \cap (1..p[event.entity]) = {}
      /\ event.entity \in Entities
  BY <1>2, <1>3, <1>4, <1>5, <1>6
<1> HIDE DEF W, W2, p, p2
<1>9. /\ InOrder(W2) /\ WellShaped(W2, p2)
      /\ \A f \in Entities : Announced(W, p, f) \subseteq Announced(W2, p2, f)
  BY <1>7, <1>8, SentKeeps
<1>10. InOrder(Coming') /\ WellShaped(Coming', posted')
  BY <1>9 DEF W2, p2
<1>11. \A f \in Entities :
         Announced(Coming, posted, f) \subseteq Announced(Coming', posted', f)
  BY <1>9 DEF W, W2, p, p2
<1>12. EventsInv'
  BY <1>1, <1>4, <1>10 DEF EventsInv
<1>13. PhaseInv'
  BY <1>1 DEF PhaseInv, Produced, Send, tree, history
<1>14. SourcesInv' /\ JobsInv' /\ DirsInv'
  BY <1>1, <1>5, <1>11, QuietKeeps DEF Send, tree, history
<1>15. QED
  BY <1>12, <1>13, <1>14 DEF DInv

\* What an update makes of the messages "now" of an entity, with its event.
Announces(now, now2, i, c, change) ==
  /\ change = One(i, c) /\ c \in Contents
  /\ DOMAIN now2 = DOMAIN now \cup {i} /\ now2[i] = c
  /\ \A j \in DOMAIN now : now2[j] = now[j]

Rewrites(now, now2, i, c, change) ==
  /\ change = One(i, c) /\ c \in Contents /\ i \in DOMAIN now
  /\ <<now[i].body, c.body>> \in Edits /\ c = [now[i] EXCEPT !.body = c.body]
  /\ DOMAIN now2 = DOMAIN now /\ now2[i] = c
  /\ \A j \in DOMAIN now : j # i => now2[j] = now[j]

Reacts(now, now2, i, r, change) ==
  /\ change = One(i, r) /\ r \in Reactions /\ i \in DOMAIN now
  /\ DOMAIN now2 = DOMAIN now /\ now2[i] = [now[i] EXCEPT !.reaction = r]
  /\ now2[i] \in Contents /\ now2[i].body = now[i].body /\ now2[i].reaction = r
  /\ \A j \in DOMAIN now : j # i => now2[j] = now[j]

Deletes(now, now2, change) ==
  /\ change \subseteq DOMAIN now /\ DOMAIN now2 = DOMAIN now \ change
  /\ \A j \in DOMAIN now2 : now2[j] = now[j]

\* An update of entity e that sends "change".
ServerStep(e, kind, change) ==
  /\ Send(e, kind, change) /\ DOMAIN server' = Entities
  /\ \A f \in Entities : f # e => server'[f] = server[f]
  /\ server'[e] \in [DOMAIN server'[e] -> Contents]
  /\ \/ /\ kind = "new" /\ posted' = [posted EXCEPT ![e] = @ + 1]
        /\ \E c : Announces(server[e], server'[e], posted[e] + 1, c, change)
     \/ /\ kind = "edit" /\ posted' = posted
        /\ \E i, c : Rewrites(server[e], server'[e], i, c, change)
     \/ /\ kind = "reaction" /\ posted' = posted
        /\ \E i, r : Reacts(server[e], server'[e], i, r, change)
     \/ /\ kind = "delete" /\ posted' = posted
        /\ Deletes(server[e], server'[e], change)

LEMMA TelegramSteps ==
  ASSUME IInv, EventsInv, Telegram
  PROVE  \E e \in Entities : \E kind, change : ServerStep(e, kind, change)
<1>1. PICK e \in Entities : Post(e) \/ Edit(e) \/ React(e) \/ Delete(e)
  BY DEF Telegram
<1> DEFINE now  == server[e]
           now2 == server'[e]
<1>2. /\ now \in [DOMAIN now -> Contents] /\ DOMAIN now \subseteq 1..posted[e]
      /\ posted[e] \in Nat /\ DOMAIN server = Entities
  BY DEF EventsInv, IInv, ServerInv
<1>3. CASE Post(e)
  <2>1. PICK b \in Bodies :
          LET message == One(posted[e] + 1, [body |-> b, reaction |-> NoReaction])
          IN  /\ posted' = [posted EXCEPT ![e] = @ + 1]
              /\ server' = [server EXCEPT ![e] = M!Extended(@, message)]
              /\ Send(e, "new", message)
    BY <1>3 DEF Post
  <2> DEFINE c       == [body |-> b, reaction |-> NoReaction]
             i       == posted[e] + 1
             message == One(i, c)
  <2>2. c \in Contents
    <3>1. NoReaction \in Reactions
      BY ContentsAssumption DEF NoReaction
    <3>2. QED
      BY <3>1 DEF Contents
  <2>3. /\ posted' = [posted EXCEPT ![e] = @ + 1] /\ Send(e, "new", message)
        /\ server' = [server EXCEPT ![e] = M!Extended(@, message)]
    BY <2>1
  <2> HIDE DEF c
  <2>4. i \notin DOMAIN now
    BY <1>2
  <2>5. DOMAIN message = {i} /\ message[i] = c
    BY DEF One
  <2> HIDE DEF i, message
  <2>6. /\ now2 = M!Extended(now, message) /\ DOMAIN server' = Entities
        /\ \A f \in Entities : f # e => server'[f] = server[f]
    BY <1>2, <2>3
  <2>7. /\ DOMAIN now2 = DOMAIN now \cup {i} /\ now2[i] = c
        /\ \A j \in DOMAIN now : now2[j] = now[j]
        /\ now2 = [j \in DOMAIN now2 |-> now2[j]]
    BY <2>4, <2>5, <2>6 DEF M!Extended, M!Overwritten, M!Ids
  <2>8. now2 \in [DOMAIN now2 -> Contents]
    <3> HIDE DEF now, now2
    <3>1. \A j \in DOMAIN now2 : now2[j] \in Contents
      BY <1>2, <2>2, <2>7
    <3>2. QED
      BY <2>7, <3>1
  <2>9. Announces(now, now2, i, c, message)
    BY <2>2, <2>7 DEF Announces, message
  <2>10. ServerStep(e, "new", message)
    BY <2>3, <2>6, <2>8, <2>9 DEF ServerStep, i
  <2>11. QED
    BY <2>10
<1>4. CASE Edit(e)
  <2>1. PICK i \in DOMAIN now, b \in Bodies :
          LET message == One(i, [now[i] EXCEPT !.body = b])
          IN  /\ <<now[i].body, b>> \in Edits
              /\ server' = [server EXCEPT ![e] = M!Overwritten(@, message)]
              /\ Send(e, "edit", message)
              /\ UNCHANGED posted
    BY <1>4 DEF Edit
  <2> DEFINE c       == [now[i] EXCEPT !.body = b]
             message == One(i, c)
  <2>2. c \in Contents /\ c.body = b /\ c = [now[i] EXCEPT !.body = c.body]
    <3>1. now[i] \in Contents
      BY <1>2
    <3>2. QED
      BY <3>1 DEF Contents
  <2>3. /\ Send(e, "edit", message) /\ posted' = posted
        /\ server' = [server EXCEPT ![e] = M!Overwritten(@, message)]
        /\ <<now[i].body, b>> \in Edits
    BY <2>1
  <2> HIDE DEF c
  <2>4. DOMAIN message = {i} /\ message[i] = c
    BY DEF One
  <2> HIDE DEF message
  <2>5. /\ now2 = M!Overwritten(now, message) /\ DOMAIN server' = Entities
        /\ \A f \in Entities : f # e => server'[f] = server[f]
    BY <1>2, <2>3
  <2>6. /\ DOMAIN now2 = DOMAIN now /\ now2[i] = c
        /\ \A j \in DOMAIN now : j # i => now2[j] = now[j]
        /\ now2 = [j \in DOMAIN now2 |-> now2[j]]
    BY <2>4, <2>5 DEF M!Overwritten, M!Ids
  <2>7. now2 \in [DOMAIN now2 -> Contents]
    <3> HIDE DEF now, now2
    <3>1. \A j \in DOMAIN now2 : now2[j] \in Contents
      BY <1>2, <2>2, <2>6
    <3>2. QED
      BY <2>6, <3>1
  <2>8. Rewrites(now, now2, i, c, message)
    BY <2>2, <2>3, <2>6 DEF Rewrites, message
  <2>9. ServerStep(e, "edit", message)
    BY <2>3, <2>5, <2>7, <2>8 DEF ServerStep
  <2>10. QED
    BY <2>9
<1>5. CASE React(e)
  <2>1. PICK i \in DOMAIN now, r \in Reactions :
          /\ server' = [server EXCEPT ![e][i].reaction = r]
          /\ Send(e, "reaction", One(i, r))
          /\ UNCHANGED posted
    BY <1>5 DEF React
  <2> DEFINE c == [now[i] EXCEPT !.reaction = r]
  <2>2. c \in Contents /\ c.body = now[i].body /\ c.reaction = r
    <3>1. now[i] \in Contents
      BY <1>2
    <3>2. QED
      BY <3>1 DEF Contents
  <2>3. now2 = [now EXCEPT ![i] = c] /\ DOMAIN server' = Entities
        /\ \A f \in Entities : f # e => server'[f] = server[f]
    BY <1>2, <2>1
  <2> HIDE DEF c
  <2>4. /\ DOMAIN now2 = DOMAIN now /\ now2[i] = c
        /\ \A j \in DOMAIN now : j # i => now2[j] = now[j]
        /\ now2 = [j \in DOMAIN now2 |-> now2[j]]
    BY <2>3
  <2>5. now2 \in [DOMAIN now2 -> Contents]
    <3> HIDE DEF now, now2
    <3>1. \A j \in DOMAIN now2 : now2[j] \in Contents
      BY <1>2, <2>2, <2>4
    <3>2. QED
      BY <2>4, <3>1
  <2>6. Reacts(now, now2, i, r, One(i, r))
    <3> HIDE DEF now, now2
    <3>1. QED
      BY <2>2, <2>4 DEF Reacts, c
  <2>7. ServerStep(e, "reaction", One(i, r))
    BY <2>1, <2>3, <2>5, <2>6 DEF ServerStep
  <2>8. QED
    BY <2>7
<1>6. CASE Delete(e)
  <2>1. PICK ids \in SUBSET DOMAIN now :
          /\ server' = [server EXCEPT ![e] = M!Without(@, ids)]
          /\ Send(e, "delete", ids)
          /\ UNCHANGED posted
    BY <1>6 DEF Delete
  <2>2. /\ now2 = M!Without(now, ids) /\ DOMAIN server' = Entities
        /\ \A f \in Entities : f # e => server'[f] = server[f]
    BY <1>2, <2>1
  <2>3. /\ DOMAIN now2 = DOMAIN now \ ids
        /\ \A j \in DOMAIN now2 : now2[j] = now[j]
        /\ now2 = [j \in DOMAIN now2 |-> now2[j]]
    BY <2>2 DEF M!Without, M!Restrict, M!Ids
  <2>4. now2 \in [DOMAIN now2 -> Contents]
    <3> HIDE DEF now, now2
    <3>1. \A j \in DOMAIN now2 : now2[j] \in Contents
      BY <1>2, <2>3
    <3>2. QED
      BY <2>3, <3>1
  <2>5. Deletes(now, now2, ids)
    BY <2>3 DEF Deletes
  <2>6. ServerStep(e, "delete", ids)
    BY <2>1, <2>2, <2>4, <2>5 DEF ServerStep
  <2>7. QED
    BY <2>6
<1>7. QED
  BY <1>1, <1>3, <1>4, <1>5, <1>6

\* The events of updates are what events look like.
LEMMA OneEvent ==
  ASSUME NEW e \in Entities, NEW n \in Nat, NEW i \in 1..n,
         NEW kind \in {"new", "edit", "reaction"}, NEW c \in Contents \cup Reactions,
         c \in IF kind = "reaction" THEN Reactions ELSE Contents
  PROVE  /\ [entity |-> e, kind |-> kind, change |-> One(i, c)] \in Event
         /\ EventShape([entity |-> e, kind |-> kind, change |-> One(i, c)], n)
         /\ AboutIds([entity |-> e, kind |-> kind, change |-> One(i, c)]) = {i}
<1> DEFINE event == [entity |-> e, kind |-> kind, change |-> One(i, c)]
<1>1. One(i, c) \in [{i} -> Contents \cup Reactions] /\ DOMAIN One(i, c) = {i}
  BY DEF One
<1>2. i \in Nat
  OBVIOUS
<1>3. event \in Event
  <2> DEFINE ones    == UNION {[{j} -> Contents \cup Reactions] : j \in Nat}
             changes == (SUBSET Nat) \cup ones
  <2>1. One(i, c) \in ones
    BY <1>1, <1>2, Zenon
  <2> HIDE DEF ones
  <2>2. One(i, c) \in changes
    BY <2>1, Zenon
  <2> HIDE DEF changes
  <2>3. Event = [entity : Entities, kind : {"new", "edit", "reaction", "delete"},
                 change : changes]
    BY DEF Event, changes, ones
  <2>4. QED
    BY <2>2, <2>3
<1>4. event.entity = e /\ event.kind = kind /\ event.change = One(i, c)
  OBVIOUS
<1> HIDE DEF event
<1>5. AboutIds(event) = {i}
  BY <1>1, <1>4 DEF AboutIds
<1>6. EventShape(event, n)
  BY <1>4, <1>5 DEF EventShape
<1>7. QED
  BY <1>3, <1>5, <1>6 DEF event

LEMMA DeleteEvent ==
  ASSUME NEW e \in Entities, NEW n \in Nat, NEW ids \in SUBSET (1..n)
  PROVE  /\ [entity |-> e, kind |-> "delete", change |-> ids] \in Event
         /\ EventShape([entity |-> e, kind |-> "delete", change |-> ids], n)
         /\ AboutIds([entity |-> e, kind |-> "delete", change |-> ids]) = ids
BY DEF Event, EventShape, AboutIds

LEMMA TelegramDInv == ASSUME IInv, DInv, Telegram PROVE DInv'
<1>0. PICK e \in Entities : \E kind, change : ServerStep(e, kind, change)
  BY TelegramSteps DEF DInv
<1>1. PICK kind, change : ServerStep(e, kind, change)
  BY <1>0
<1>2. /\ posted \in [Entities -> Nat] /\ DOMAIN server[e] \subseteq 1..posted[e]
      /\ posted[e] \in Nat
      /\ \A f \in Entities : server[f] \in [DOMAIN server[f] -> Contents]
  BY DEF IInv, ServerInv, DInv, EventsInv
<1>3. /\ Send(e, kind, change)
      /\ \A f \in Entities : server'[f] \in [DOMAIN server'[f] -> Contents]
  BY <1>1, <1>2 DEF ServerStep
<1>4. CASE kind = "new"
  <2>1. posted' = [posted EXCEPT ![e] = @ + 1]
    BY <1>1, <1>4 DEF ServerStep
  <2>2. PICK c : Announces(server[e], server'[e], posted[e] + 1, c, change)
    BY <1>1, <1>4 DEF ServerStep
  <2> DEFINE i == posted[e] + 1
  <2>3. /\ posted'[e] = i /\ i \in 1..i /\ i \in Nat /\ i \notin 1..posted[e]
        /\ \A f \in Entities : posted'[f] \in Nat /\ posted[f] <= posted'[f]
    BY <1>2, <2>1
  <2>4. change = One(i, c) /\ c \in Contents
    BY <2>2 DEF Announces
  <2> HIDE DEF i
  <2>5. /\ [entity |-> e, kind |-> "new", change |-> One(i, c)] \in Event
        /\ EventShape([entity |-> e, kind |-> "new", change |-> One(i, c)], i)
    BY <2>3, <2>4, OneEvent
  <2>6. DOMAIN change \cap (1..posted[e]) = {}
    BY <2>3, <2>4 DEF One
  <2>7. QED
    BY <1>3, <1>4, <2>3, <2>4, <2>5, <2>6, SendDInv
<1>5. CASE kind \in {"edit", "reaction"}
  <2>1. posted' = posted
    BY <1>1, <1>5 DEF ServerStep
  <2>2. PICK i \in DOMAIN server[e], c \in Contents \cup Reactions :
          change = One(i, c) /\ c \in IF kind = "reaction" THEN Reactions ELSE Contents
    BY <1>1, <1>5 DEF ServerStep, Rewrites, Reacts
  <2>3. i \in 1..posted[e]
    BY <1>2
  <2>4. /\ [entity |-> e, kind |-> kind, change |-> One(i, c)] \in Event
        /\ EventShape([entity |-> e, kind |-> kind, change |-> One(i, c)], posted[e])
    BY <1>2, <1>5, <2>2, <2>3, OneEvent
  <2>5. \A f \in Entities : posted'[f] \in Nat /\ posted[f] <= posted'[f]
    BY <1>2, <2>1
  <2>6. QED
    BY <1>3, <1>5, <2>1, <2>2, <2>4, <2>5, SendDInv
<1>6. CASE kind = "delete"
  <2>1. posted' = posted /\ change \subseteq DOMAIN server[e]
    BY <1>1, <1>6 DEF ServerStep, Deletes
  <2>2. change \in SUBSET (1..posted[e])
    BY <1>2, <2>1
  <2>3. /\ [entity |-> e, kind |-> kind, change |-> change] \in Event
        /\ EventShape([entity |-> e, kind |-> kind, change |-> change], posted[e])
    BY <1>2, <1>6, <2>2, DeleteEvent
  <2>4. \A f \in Entities : posted'[f] \in Nat /\ posted[f] <= posted'[f]
    BY <1>2, <2>1
  <2>5. QED
    BY <1>3, <1>6, <2>1, <2>3, <2>4, SendDInv
<1>7. QED
  BY <1>1, <1>4, <1>5, <1>6 DEF ServerStep

-----------------------------------------------------------------------------
(* Events on their way *)

\* The first event of all: what it announces was not announced before, and what
\* it removes is not announced any more.
LEMMA FirstEvent ==
  ASSUME NEW W \in Seq(Event), W # <<>>, NEW posts, InOrder(W), WellShaped(W, posts)
  PROVE  /\ Head(W) \in Event /\ EventShape(Head(W), posts[Head(W).entity])
         /\ InOrder(Tail(W)) /\ WellShaped(Tail(W), posts)
         /\ \A e : Announced(W, posts, e) \subseteq Announced(Tail(W), posts, e)
         /\ Head(W).kind = "delete" =>
              Head(W).change \subseteq Announced(Tail(W), posts, Head(W).entity)
         /\ Head(W).kind = "new" =>
              AboutIds(Head(W)) \cap Announced(W, posts, Head(W).entity) = {}
<1> DEFINE v  == Head(W)
           W2 == Tail(W)
<1>1. /\ LeftOf(W2, W) /\ 1 \in DOMAIN W /\ W[1] = v
  BY ComingTaken
<1>2. /\ v \in Event /\ DOMAIN W2 \subseteq Nat
      /\ \A k \in DOMAIN W2 : k + 1 \in DOMAIN W /\ 1 < k + 1 /\ W2[k] = W[k + 1]
  OBVIOUS
<1> HIDE DEF v, W2
<1>3. EventShape(v, posts[v.entity])
  BY <1>1 DEF WellShaped
<1>4. /\ InOrder(W2) /\ WellShaped(W2, posts)
      /\ \A e : Announced(W, posts, e) \subseteq Announced(W2, posts, e)
  BY <1>1, LeftKeeps
<1>5. ASSUME v.kind = "delete", NEW i \in v.change PROVE i \in Announced(W2, posts, v.entity)
  <2>1. AboutIds(v) = v.change
    BY <1>5 DEF AboutIds
  <2>2. i \in 1..posts[v.entity]
    BY <1>3, <2>1 DEF EventShape
  <2>3. ASSUME NEW k \in DOMAIN W2, W2[k].entity = v.entity, W2[k].kind = "new"
        PROVE  i \notin AboutIds(W2[k])
    <3>1. InTurn(v, W2[k])
      BY <1>1, <1>2 DEF InOrder
    <3>2. QED
      BY <1>5, <2>1, <2>3, <3>1 DEF InTurn
  <2>4. QED
    BY <2>2, <2>3 DEF Announced
<1>6. v.kind = "new" => AboutIds(v) \cap Announced(W, posts, v.entity) = {}
  BY <1>1 DEF Announced
<1>7. QED
  BY <1>2, <1>3, <1>4, <1>5, <1>6 DEF v, W2

\* Before two events nothing is under way: every directory shows its source.
\* After the source took the event, they show what it had.
LEMMA TakenShows ==
  ASSUME NEW m, NEW result, NEW event, NEW n, NEW list, NEW made, NEW wanted, NEW bad,
         NEW dead, NEW dead2, dead \subseteq dead2, Takes(m, result, n, dead2),
         GrowsBy(m, result, event), event.kind = "new" => AboutIds(event) \cap dead = {},
         Shows(list, made, m, m, wanted, bad, dead)
  PROVE  /\ result.notice # M!NoNotice =>
              Shows(list, made, Undone(result.messages, result.notice), result.messages,
                    wanted, bad, dead2)
         /\ result.notice = M!NoNotice =>
              Shows(list, made, result.messages, result.messages, wanted, bad, dead2)
<1>1. Told(m, result.messages, result.notice, dead2)
  BY DEF Takes
<1>2. Shows(list, made, m, m, wanted, bad, dead2)
  BY ShowsOn
<1>3. \A i \in DOMAIN made \ IdsOf(list) : i \notin DOMAIN result.messages
  <2>1. \A i \in DOMAIN made \ IdsOf(list) : i \notin DOMAIN m /\ i \in dead
    BY DEF Shows
  <2>2. QED
    BY <2>1 DEF GrowsBy
<1>4. Shows(list, made, m, result.messages, wanted, bad, dead2)
  BY <1>2, <1>3 DEF Shows
<1>5. QED
  BY <1>1, <1>2, <1>4 DEF Told

LEMMA DispatchDInv ==
  ASSUME IInv, EventsInv, SourcesInv, JobsInv, DirsInv, NEW w \in Workers,
         job[w] = Idle, ~overlapped', Coming # <<>>, Dispatch(w, Head(Coming)),
         Coming' = Tail(Coming), queue' \in Seq(Event), inbox' \in Seq(Event),
         UNCHANGED <<server, posted, listeners, files, items, failed>>
  PROVE  EventsInv' /\ SourcesInv' /\ JobsInv' /\ DirsInv'
<1> DEFINE W     == Coming
           W2    == Tail(W)
           event == Head(W)
           e     == event.entity
<1>1. /\ W \in Seq(Event) /\ W # <<>> /\ InOrder(W) /\ WellShaped(W, posted)
      /\ \A d \in Dirs : SourceOf[d] \in Sources /\ EntityOf[SourceOf[d]] \in Entities
      /\ posted \in [Entities -> Nat] /\ Produced \subseteq Dirs
  BY ComingEvents, SourcesAssumption DEF EventsInv, IInv, ServerInv, Produced
<1>2. PICK s \in Connected(e) :
        LET result == Updated(s, event)
            left   == IF result.notice = M!NoNotice THEN <<>> ELSE listeners[s]
        IN  /\ messages' = [messages EXCEPT ![s] = result.messages]
            /\ job' = [job EXCEPT ![w] = Notifying(result.notice, left)]
  BY DEF Dispatch
<1> DEFINE result == Updated(s, event)
           left   == IF result.notice = M!NoNotice THEN <<>> ELSE listeners[s]
           m      == messages[s]
<1>3. /\ messages' = [messages EXCEPT ![s] = result.messages]
      /\ job' = [job EXCEPT ![w] = Notifying(result.notice, left)]
  BY <1>2
<1>4. \A v \in Workers : job[v] = Idle
  BY DEF Dispatch
<1>5. s \in Sources /\ EntityOf[s] = e
  BY ConnectedAreSources DEF Connected
<1> HIDE DEF W, event, result
<1>6. /\ event \in Event /\ EventShape(event, posted[e]) /\ InOrder(W2)
      /\ WellShaped(W2, posted)
      /\ \A f : Announced(W, posted, f) \subseteq Announced(W2, posted, f)
      /\ event.kind = "delete" => event.change \subseteq Announced(W2, posted, e)
      /\ event.kind = "new" => AboutIds(event) \cap Announced(W, posted, e) = {}
  BY <1>1, FirstEvent DEF event
<1>7. e \in Entities /\ posted[e] \in Nat
  BY <1>1, <1>6 DEF Event
<1>8. Coming' = W2 /\ posted' = posted /\ Coming = W
  BY DEF W
<1> HIDE DEF W2, e
<1>9. SourceShape(m, posted[e])
  BY <1>5 DEF SourcesInv
<1>10. Takes(m, result, posted[e], Announced(W2, posted, e)) /\ GrowsBy(m, result, event)
  BY <1>6, <1>7, <1>9, UpdatedTold DEF result, e
<1>11. DOMAIN messages = Sources /\ DOMAIN job = Workers /\ listeners \in [Sources -> Seq(Dirs)]
       /\ \A t \in Sources : \A k \in DOMAIN listeners[t] : SourceOf[listeners[t][k]] = t
  BY DEF IInv, SourceInv, JobInv
<1>12. /\ messages'[s] = result.messages
       /\ \A t \in Sources : t # s => messages'[t] = messages[t]
       /\ job'[w] = Notifying(result.notice, left)
       /\ \A v \in Workers : v # w => job'[v] = Idle
  BY <1>3, <1>4, <1>5, <1>11
<1>13. Produced' = Produced
  BY DEF Produced
<1>14. EventsInv'
  BY <1>6, <1>8 DEF EventsInv
<1>15. SourcesInv'
  BY <1>5, <1>8, <1>10, <1>12 DEF SourcesInv, Takes
<1>16. JobsInv'
  <2> DEFINE j == Notifying(result.notice, left)
  <2>1. j.pc = "notifying" /\ j.notice = result.notice /\ j.left = left
    BY DEF Notifying
  <2> HIDE DEF j
  <2>2. left \in Seq(Dirs) /\ \A k, l \in DOMAIN left : left[k] = left[l] => k = l
    <3>1. <<>> \in Seq(Dirs) /\ DOMAIN <<>> = {}
      OBVIOUS
    <3>2. /\ listeners[s] \in Seq(Dirs)
          /\ \A k, l \in DOMAIN listeners[s] : listeners[s][k] = listeners[s][l] => k = l
      BY <1>5, <1>11 DEF SourcesInv
    <3>3. QED
      BY <3>1, <3>2
  <2>3. ASSUME NEW k \in DOMAIN left
        PROVE  /\ left[k] \in Produced
               /\ NoticeOf(messages'[SourceOf[left[k]]], result.notice,
                           DeadOf(W2, posted, left[k]))
    <3>1. result.notice # M!NoNotice /\ left = listeners[s]
      <4>1. DOMAIN <<>> = {}
        OBVIOUS
      <4>2. QED
        BY <4>1
    <3>2. left[k] \in Dirs /\ SourceOf[left[k]] = s
      BY <1>5, <1>11, <3>1
    <3>3. left[k] \in Produced
      BY <3>1, <3>2, ProducedListen
    <3>4. NoticeOf(result.messages, result.notice, Announced(W2, posted, e))
      BY <1>10, <3>1 DEF Takes, Told
    <3>5. QED
      BY <1>5, <1>12, <3>2, <3>3, <3>4 DEF DeadOf
  <2>4. JobOK(j, Produced, messages', files, W2, posted)
    BY <2>1, <2>2, <2>3 DEF JobOK
  <2>5. job'[w] = j
    BY <1>12 DEF j
  <2>6. \A v \in Workers : job'[v] # Idle => v = w
    BY <1>12
  <2>7. QED
    BY <1>8, <1>13, <2>4, <2>5, <2>6 DEF JobsInv
<1>17. DirsInv'
  <2>1. ASSUME NEW d \in Produced
        PROVE  DirOK(d, job', items[d], files[d], messages'[SourceOf[d]], failed,
                     DeadOf(W2, posted, d))
    <3> DEFINE t    == SourceOf[d]
               list == items[d]
               made == files[d]
               bad  == BadIds(failed, d)
               dead == DeadOf(W, posted, d)
               now  == DeadOf(W2, posted, d)
    <3>1. t \in Sources /\ dead \subseteq now /\ d \in Dirs
      BY <1>1, <1>6 DEF DeadOf
    <3>2. Shows(list, made, messages[t], messages[t], Wanted[d], bad, dead)
      <4>1. DirOK(d, job, list, made, messages[t], failed, dead)
        BY <1>8 DEF DirsInv
      <4>2. \A v \in Workers : ~Awaits(job[v], d)
        BY <1>4 DEF Awaits
      <4>3. QED
        BY <4>1, <4>2 DEF DirOK
    <3>3. \A v \in Workers : v # w => ~Awaits(job'[v], d)
      BY <1>12 DEF Awaits
    <3>4. Awaits(job'[w], d) <=> result.notice # M!NoNotice /\ t = s
      <4>1. /\ Notifying(result.notice, left).left = left
            /\ Notifying(result.notice, left) # Idle
        BY DEF Notifying, Idle
      <4>2. Awaits(job'[w], d) <=> \E k \in DOMAIN left : left[k] = d
        BY <1>12, <4>1 DEF Awaits
      <4>3. DOMAIN <<>> = {}
        OBVIOUS
      <4>4. (\E k \in DOMAIN listeners[s] : listeners[s][k] = d) <=> t = s
        BY <1>5, <1>11, <3>1, ProducedListen
      <4>5. QED
        BY <4>2, <4>3, <4>4
    <3> HIDE DEF list, made, bad, dead, now
    <3>5. CASE t = s
      <4>1. /\ Shows(list, made, m, m, Wanted[d], bad, dead)
            /\ Takes(m, result, posted[e], now)
            /\ event.kind = "new" => AboutIds(event) \cap dead = {}
        BY <1>5, <1>6, <1>10, <3>2, <3>5 DEF DeadOf, dead, now
      <4>2. /\ result.notice # M!NoNotice =>
                 Shows(list, made, Undone(result.messages, result.notice),
                       result.messages, Wanted[d], bad, now)
            /\ result.notice = M!NoNotice =>
                 Shows(list, made, result.messages, result.messages, Wanted[d], bad, now)
        BY <1>10, <3>1, <4>1, TakenShows
      <4>3. job'[w].notice = result.notice
        BY <1>12 DEF Notifying
      <4>4. messages'[t] = result.messages
        BY <1>12, <3>5
      <4>5. DirOK(d, job', list, made, messages'[t], failed, now)
        BY <3>3, <3>4, <3>5, <4>2, <4>3, <4>4 DEF DirOK, bad
      <4>6. QED
        BY <4>5 DEF list, made, now
    <3>6. CASE t # s
      <4>1. messages'[t] = messages[t]
        BY <1>12, <3>1, <3>6
      <4>2. Shows(list, made, messages[t], messages[t], Wanted[d], bad, now)
        BY <3>1, <3>2, ShowsOn
      <4>3. DirOK(d, job', list, made, messages'[t], failed, now)
        BY <3>3, <3>4, <3>6, <4>1, <4>2 DEF DirOK, bad
      <4>4. QED
        BY <4>3 DEF list, made, now
    <3>7. QED
      BY <3>5, <3>6
  <2>2. QED
    BY <1>8, <1>13, <2>1 DEF DirsInv
<1>18. QED
  BY <1>14, <1>15, <1>16, <1>17

LEMMA DispatchJobs ==
  ASSUME IInv, NEW w \in Workers, NEW event, Dispatch(w, event)
  PROVE  /\ job'[w] # Idle /\ \A v \in Workers \ {w} : job'[v] = job[v]
         /\ ~overlapped' => \A v \in Workers \ {w} : job[v] = Idle
<1>1. \E n, l : job' = [job EXCEPT ![w] = Notifying(n, l)]
  BY DEF Dispatch
<1>2. PICK n, l : job' = [job EXCEPT ![w] = Notifying(n, l)]
  BY <1>1
<1>3. Notifying(n, l) # Idle
  BY DEF Notifying, Idle
<1>4. DOMAIN job = Workers
  BY DEF IInv, JobInv
<1>5. QED
  BY <1>2, <1>3, <1>4 DEF Dispatch

LEMMA HandleDInv == ASSUME IInv, DInv, Handle, ~overlapped' PROVE DInv'
<1>1. EventsInv /\ PhaseInv /\ SourcesInv /\ JobsInv /\ DirsInv
  BY DEF DInv
<1>2. queue \in Seq(Event) /\ inbox \in Seq(Event) /\ InOrder(Coming)
      /\ WellShaped(Coming, posted)
  BY <1>1 DEF EventsInv
<1>3. /\ phase # "aborted" /\ control = "none" /\ inbox # <<>> /\ inbox' = Tail(inbox)
      /\ UNCHANGED <<server, posted, phase, paused, fetched, listeners, files, items, failed>>
      /\ job["live"] = Idle
  BY DEF Handle, world, tree
<1>4. Produced' = Produced
  BY <1>3 DEF Produced
<1>5. CASE paused /\ queue' = Queued(queue, Head(inbox))
           /\ UNCHANGED <<known, messages, job, control, overlapped>>
  <2>1. /\ inbox' \in Seq(Event) /\ queue' \in Seq(Event)
        /\ LeftOf(queue' \o inbox', queue \o inbox)
    BY <1>2, <1>3, <1>5, ComingMoved
  <2>2. LeftOf(Coming', Coming)
    BY <2>1 DEF Coming
  <2> DEFINE W == Coming
             W2 == Coming'
  <2> HIDE DEF W, W2
  <2>3. /\ InOrder(W2) /\ WellShaped(W2, posted)
        /\ \A e : Announced(W, posted, e) \subseteq Announced(W2, posted, e)
    <3>1. LeftOf(W2, W) /\ InOrder(W) /\ WellShaped(W, posted)
      BY <1>2, <2>2 DEF W, W2
    <3>2. QED
      BY <3>1, LeftKeeps
  <2>4. EventsInv'
    BY <1>1, <1>3, <2>1, <2>3 DEF EventsInv, W2
  <2>5. PhaseInv'
    BY <1>1, <1>3, <1>4, <1>5 DEF PhaseInv
  <2>6. SourcesInv' /\ JobsInv' /\ DirsInv'
    <3>1. \A e \in Entities :
            /\ 1..posted[e] \subseteq 1..posted'[e]
            /\ Announced(Coming, posted, e) \subseteq Announced(Coming', posted', e)
      BY <1>3, <2>3 DEF W, W2
    <3>2. QED
      BY <1>1, <1>3, <1>5, <3>1, QuietKeeps
  <2>7. QED
    BY <2>4, <2>5, <2>6 DEF DInv
<1>6. CASE ~paused /\ Dispatch("live", Head(inbox)) /\ UNCHANGED queue
  <2>1. "live" \in Workers /\ "resume" \in Workers \ {"live"}
    BY DEF Workers
  <2>2. /\ job'["live"] # Idle /\ job'["resume"] = job["resume"]
        /\ job["resume"] = Idle
    BY <1>6, <2>1, DispatchJobs
  <2>3. phase = "mounted" /\ queue = <<>>
    <3>1. phase \in {"resuming", "mounted"}
      BY <1>3, <1>6 DEF IInv, MountInv
    <3>2. phase # "resuming"
      BY <1>1, <1>3, <2>2 DEF PhaseInv
    <3>3. QED
      BY <1>1, <3>1, <3>2 DEF PhaseInv
  <2>4. Coming = inbox /\ Coming' = Tail(inbox) /\ inbox' \in Seq(Event)
    BY <1>2, <1>3, <1>6, <2>3 DEF Coming
  <2>5. PhaseInv'
    <3>1. control' = "live"
      BY <1>6 DEF Dispatch
    <3>2. QED
      BY <1>1, <1>3, <1>4, <1>6, <2>2, <2>3, <3>1 DEF PhaseInv
  <2>6. EventsInv' /\ SourcesInv' /\ JobsInv' /\ DirsInv'
    BY <1>1, <1>2, <1>3, <1>6, <2>1, <2>4, DispatchDInv
  <2>7. QED
    BY <2>5, <2>6 DEF DInv
<1>7. QED
  BY <1>5, <1>6 DEF Handle

LEMMA ReplayDInv == ASSUME IInv, DInv, Replay, ~overlapped' PROVE DInv'
<1>1. EventsInv /\ PhaseInv /\ SourcesInv /\ JobsInv /\ DirsInv
  BY DEF DInv
<1>2. queue \in Seq(Event) /\ inbox \in Seq(Event)
  BY <1>1 DEF EventsInv
<1>3. /\ phase = "resuming" /\ control = "resume" /\ job["resume"] = Idle /\ queue # <<>>
      /\ queue' = Tail(queue) /\ Dispatch("resume", Head(queue)) /\ inbox' = inbox
      /\ UNCHANGED <<server, posted, phase, paused, fetched, listeners, files, items, failed>>
  BY DEF Replay, world, tree
<1>4. "resume" \in Workers /\ "live" \in Workers \ {"resume"}
  BY DEF Workers
<1>5. job'["resume"] # Idle /\ job'["live"] = job["live"] /\ job["live"] = Idle
  BY <1>3, <1>4, DispatchJobs
<1>6. /\ Coming # <<>> /\ Head(Coming) = Head(queue) /\ Coming' = Tail(Coming)
      /\ queue' \in Seq(Event)
  <2>1. /\ queue \o inbox # <<>> /\ Head(queue \o inbox) = Head(queue)
        /\ Tail(queue) \o inbox = Tail(queue \o inbox)
    BY <1>2, <1>3, ComingReplayed
  <2>2. Tail(queue) \in Seq(Event)
    BY <1>2, <1>3
  <2>3. QED
    BY <1>3, <2>1, <2>2 DEF Coming
<1>7. PhaseInv'
  <2>1. control' = "resume" /\ Produced' = Produced
    BY <1>3 DEF Dispatch, Produced
  <2>2. QED
    BY <1>1, <1>3, <1>5, <2>1 DEF PhaseInv
<1>8. EventsInv' /\ SourcesInv' /\ JobsInv' /\ DirsInv'
  BY <1>1, <1>2, <1>3, <1>4, <1>6, DispatchDInv
<1>9. QED
  BY <1>7, <1>8 DEF DInv

-----------------------------------------------------------------------------
(* mount() *)

LEMMA InitDInv == Init => DInv
<1> SUFFICES ASSUME Init PROVE DInv
  OBVIOUS
<1>1. /\ queue = <<>> /\ inbox = <<>> /\ phase = "starting" /\ control = "none"
      /\ messages = [s \in Sources |-> M!Empty] /\ listeners = [s \in Sources |-> <<>>]
      /\ files = [d \in Dirs |-> <<>>] /\ items = [d \in Dirs |-> <<>>]
      /\ job = [w \in Workers |-> Idle]
  BY DEF Init
<1>2. Coming = <<>> /\ queue \in Seq(Event) /\ inbox \in Seq(Event) /\ DOMAIN Coming = {}
  BY <1>1 DEF Coming
<1>3. \A e \in Entities : server[e] \in [DOMAIN server[e] -> Contents]
  <2>1. server \in [Entities -> UNION {[1..k -> Contents] : k \in 0..MaxInitial}]
    BY DEF Init
  <2>2. ASSUME NEW e \in Entities PROVE server[e] \in [DOMAIN server[e] -> Contents]
    <3>1. PICK k \in 0..MaxInitial : server[e] \in [1..k -> Contents]
      BY <2>1
    <3>2. QED
      BY <3>1
  <2>3. QED
    BY <2>2
<1>4. EventsInv
  BY <1>2, <1>3 DEF EventsInv, InOrder, WellShaped
<1>5. Produced = {}
  <2>1. \A d \in Dirs : SourceOf[d] \in Sources
    BY SourcesAssumption
  <2>2. \A d \in Dirs : listeners[SourceOf[d]] = <<>> /\ Len(<<>>) = 0
    BY <1>1, <2>1
  <2>3. QED
    BY <2>2 DEF Produced, Contains
<1>6. \A w \in Workers : job[w] = Idle
  BY <1>1
<1>7. PhaseInv
  BY <1>1, <1>5, <1>6 DEF PhaseInv, Workers
<1>8. SourcesInv
  <2>1. \A s \in Sources : messages[s] = <<>> /\ listeners[s] = <<>>
    BY <1>1 DEF M!Empty
  <2>2. DOMAIN <<>> = {} /\ <<>> \in [{} -> Contents]
    OBVIOUS
  <2>3. QED
    BY <2>1, <2>2 DEF SourcesInv, SourceShape
<1>9. JobsInv /\ DirsInv
  BY <1>1, <1>5, <1>6 DEF JobsInv, DirsInv
<1>10. QED
  BY <1>4, <1>7, <1>8, <1>9 DEF DInv

\* Sources are fetched before directories are made from them.
LEMMA FetchDInv == ASSUME IInv, DInv, NEW s \in Sources, Fetch(s) PROVE DInv'
<1>1. EventsInv /\ PhaseInv /\ SourcesInv /\ JobsInv /\ DirsInv
  BY DEF DInv
<1>2. /\ phase = "starting" /\ s \notin fetched /\ fetched' = fetched \cup {s}
      /\ messages' = [messages EXCEPT ![s] =
                        M!SetMessages(s \in known, @, server[EntityOf[s]])]
      /\ UNCHANGED <<server, posted, inbox, phase, paused, queue, listeners, files, items,
                     job, control, overlapped, failed>>
  BY DEF Fetch, world, tree, history
<1>3. paused /\ s \notin known /\ NoJobs /\ DOMAIN messages = Sources
  BY <1>2 DEF IInv, MountInv, SourceInv
<1> DEFINE now == server[EntityOf[s]]
           F   == M!Filtered(now)
<1>4. messages' = [messages EXCEPT ![s] = F]
  BY <1>2, <1>3 DEF M!SetMessages
<1>5. Produced = {} /\ Produced' = {}
  BY <1>1, <1>2 DEF PhaseInv, Produced
<1>6. SourceShape(F, posted[EntityOf[s]])
  <2>1. /\ now \in [DOMAIN now -> Contents] /\ DOMAIN now \subseteq 1..posted[EntityOf[s]]
    BY <1>1, SourcesAssumption DEF EventsInv, IInv, ServerInv
  <2> DEFINE D == DOMAIN F
  <2>2. D \subseteq DOMAIN now /\ F = [i \in D |-> now[i]]
    BY FilteredProps
  <2> HIDE DEF now, F, D
  <2>3. F \in [D -> Contents] /\ D \subseteq 1..posted[EntityOf[s]]
    BY <2>1, <2>2 DEF now
  <2>4. QED
    BY <2>3 DEF SourceShape, D
<1> HIDE DEF F
<1>7. \A t \in Sources : messages'[t] = IF t = s THEN F ELSE messages[t]
  BY <1>3, <1>4
<1>8. SourcesInv'
  BY <1>1, <1>2, <1>6, <1>7 DEF SourcesInv
<1>9. EventsInv'
  BY <1>1, <1>2 DEF EventsInv, Coming
<1>10. PhaseInv'
  <2>1. fetched # Sources
    BY <1>2
  <2>2. QED
    BY <1>1, <1>2, <1>5, <2>1 DEF PhaseInv
<1>11. JobsInv'
  BY <1>2, <1>3 DEF JobsInv, NoJobs
<1>12. DirsInv'
  BY <1>1, <1>2, <1>5 DEF DirsInv
<1>13. QED
  BY <1>8, <1>9, <1>10, <1>11, <1>12 DEF DInv

\* FailProduce, Resume and Mount only move mount() on.
LEMMA PhaseDInv ==
  ASSUME IInv, DInv, (\E d \in Dirs : FailProduce(d)) \/ Resume \/ Mount
  PROVE  DInv'
<1>1. EventsInv /\ PhaseInv /\ SourcesInv /\ JobsInv /\ DirsInv
  BY DEF DInv
<1>2. UNCHANGED <<server, posted, inbox, queue, fetched, messages, listeners, files, items,
                  job, failed>>
  BY DEF FailProduce, Resume, Mount, world, tree, history
<1>3. EventsInv'
  BY <1>1, <1>2 DEF EventsInv, Coming
<1>4. Produced' = Produced
  BY <1>2 DEF Produced
<1>5. PhaseInv'
  <2>1. CASE \E d \in Dirs : FailProduce(d)
    <3>1. phase' = "aborted" /\ control' = "none" /\ fetched = Sources
      BY <2>1 DEF FailProduce
    <3>2. QED
      BY <1>1, <1>2, <3>1 DEF PhaseInv
  <2>2. CASE Resume
    <3>1. phase = "starting" /\ control = "resume" /\ control' = control
          /\ phase' = "resuming"
      BY <2>2 DEF Resume
    <3>2. job["live"] = Idle
      BY <1>1, <3>1 DEF PhaseInv
    <3>3. QED
      BY <1>1, <1>2, <3>1, <3>2 DEF PhaseInv
  <2>3. CASE Mount
    <3>1. phase = "resuming" /\ phase' = "mounted" /\ control' = "none" /\ queue = <<>>
          /\ job["resume"] = Idle /\ paused' = paused
      BY <2>3 DEF Mount
    <3>2. ~paused
      BY <3>1 DEF IInv, MountInv
    <3>3. QED
      BY <1>1, <1>2, <1>4, <3>1, <3>2 DEF PhaseInv
  <2>4. QED
    BY <2>1, <2>2, <2>3
<1>6. SourcesInv' /\ JobsInv' /\ DirsInv'
  <2>1. Coming' = Coming /\ posted' = posted
    BY <1>2 DEF Coming
  <2>2. \A e \in Entities :
          /\ 1..posted[e] \subseteq 1..posted'[e]
          /\ Announced(Coming, posted, e) \subseteq Announced(Coming', posted', e)
    BY <2>1
  <2>3. QED
    BY <1>1, <1>2, <2>2, QuietKeeps
<1>7. QED
  BY <1>3, <1>5, <1>6 DEF DInv

\* A listener that is not there yet is appended.
LEMMA AppendedListener ==
  ASSUME NEW list \in Seq(Dirs), NEW d \in Dirs, \A k \in DOMAIN list : list[k] # d,
         \A k, l \in DOMAIN list : list[k] = list[l] => k = l
  PROVE  /\ \A k, l \in DOMAIN Append(list, d) :
              Append(list, d)[k] = Append(list, d)[l] => k = l
         /\ \A e : (\E k \in DOMAIN Append(list, d) : Append(list, d)[k] = e)
                     <=> e = d \/ \E k \in DOMAIN list : list[k] = e
<1> DEFINE n    == Len(list)
           more == Append(list, d)
<1>1. /\ DOMAIN more = 1..(n + 1) /\ DOMAIN list = 1..n /\ n \in Nat
      /\ \A k \in 1..n : more[k] = list[k]
      /\ more[n + 1] = d
  OBVIOUS
<1> HIDE DEF n, more
<1>2. \A k \in 1..(n + 1) : k = n + 1 \/ k \in 1..n
  BY <1>1
<1>3. n + 1 \in 1..(n + 1) /\ 1..n \subseteq 1..(n + 1)
  BY <1>1
<1>4. \A k, l \in DOMAIN more : more[k] = more[l] => k = l
  BY <1>1, <1>2
<1>5. \A e : (\E k \in DOMAIN more : more[k] = e) <=> e = d \/ \E k \in DOMAIN list : list[k] = e
  BY <1>1, <1>2, <1>3
<1>6. QED
  BY <1>4, <1>5 DEF more

\* A new directory shows the messages that were fetched.
LEMMA FirstShows ==
  ASSUME NEW m, NEW wanted, NEW bad, NEW dead, Collection(m)
  PROVE  Shows(P!FilesOf(P!Matching(m, wanted)), P!Matching(m, wanted), m, m, wanted,
               bad, dead)
<1> DEFINE made == P!Matching(m, wanted)
           list == P!FilesOf(made)
           D    == DOMAIN made
<1>1. /\ D = {i \in DOMAIN m : m[i] \in wanted} /\ made = [i \in D |-> m[i]]
  BY DEF P!Matching, P!RestrictValues, P!Restrict
<1> HIDE DEF made, D
<1>2. IsFiniteSet(D) /\ D \subseteq DOMAIN m
  <2>1. D \subseteq DOMAIN m
    BY <1>1
  <2>2. QED
    BY <2>1, FS_Subset, Zenon DEF Collection
<1>3. made \in [D -> Contents] /\ D \subseteq Nat
  BY <1>1, <1>2 DEF Collection
<1>4. Collection(made) /\ Made(made)
  BY <1>2, <1>3 DEF Collection, Made, D
<1>5. OneEach(list, made) /\ IdsOf(list) = D
  BY <1>4, FilesOfProps DEF D
<1> HIDE DEF list
<1>6. QED
  <2>1. \A i \in D : made[i] = m[i] /\ DOMAIN made = D
    BY <1>1 DEF D
  <2>2. Shows(list, made, m, m, wanted, bad, dead)
    BY <1>1, <1>2, <1>4, <1>5, <2>1 DEF Shows
  <2>3. QED
    BY <2>2 DEF list, made

LEMMA ProduceDInv == ASSUME IInv, DInv, NEW d \in Dirs, Produce(d) PROVE DInv'
<1>1. EventsInv /\ PhaseInv /\ SourcesInv /\ JobsInv /\ DirsInv
  BY DEF DInv
<1> DEFINE s     == SourceOf[d]
           first == P!Matching(messages[s], Wanted[d])
<1>2. /\ phase = "starting" /\ fetched = Sources /\ d \notin Produced
      /\ files' = [files EXCEPT ![d] = first]
      /\ items' = [items EXCEPT ![d] = P!FilesOf(first)]
      /\ listeners' = [listeners EXCEPT ![s] = Append(@, d)]
      /\ control' \in {"none", "resume"}
      /\ UNCHANGED <<server, posted, inbox, phase, paused, queue, fetched, messages, job,
                     failed>>
  BY DEF Produce, world, history
<1>3. NoJobs /\ listeners \in [Sources -> Seq(Dirs)]
  BY <1>2 DEF IInv, MountInv, SourceInv
<1>4. \A v \in Workers : job[v] = Idle
  BY <1>3 DEF NoJobs
<1>5. /\ s \in Sources /\ EntityOf[s] \in Entities
      /\ \A c \in Dirs : SourceOf[c] \in Sources
  BY SourcesAssumption
<1> HIDE DEF s, first
<1>6. \A k \in DOMAIN listeners[s] : listeners[s][k] # d
  BY <1>2, ProducedListen DEF s
<1>7. /\ \A k, l \in DOMAIN Append(listeners[s], d) :
           Append(listeners[s], d)[k] = Append(listeners[s], d)[l] => k = l
      /\ \A e : (\E k \in DOMAIN Append(listeners[s], d) : Append(listeners[s], d)[k] = e)
                  <=> e = d \/ \E k \in DOMAIN listeners[s] : listeners[s][k] = e
  <2>1. \A k, l \in DOMAIN listeners[s] : listeners[s][k] = listeners[s][l] => k = l
    BY <1>1, <1>5 DEF SourcesInv
  <2>2. listeners[s] \in Seq(Dirs)
    BY <1>3, <1>5
  <2>3. QED
    BY <1>6, <2>1, <2>2, AppendedListener
<1>8. \A t \in Sources : listeners'[t] = IF t = s THEN Append(listeners[s], d)
                                         ELSE listeners[t]
  BY <1>2, <1>3
<1>9. Produced' \subseteq Produced \cup {d}
  <2>1. ASSUME NEW c \in Produced' PROVE c \in Produced \cup {d}
    <3>1. c \in Dirs /\ SourceOf[c] \in Sources
          /\ \E k \in 1..Len(listeners'[SourceOf[c]]) : listeners'[SourceOf[c]][k] = c
      BY <1>5 DEF Produced, Contains
    <3>2. CASE SourceOf[c] = s
      <4> DEFINE more == Append(listeners[s], d)
      <4>1. more \in Seq(Dirs)
        BY <1>3, <1>5
      <4>2. listeners'[SourceOf[c]] = more
        BY <1>5, <1>8, <3>2
      <4> HIDE DEF more
      <4>3. \E k \in DOMAIN more : more[k] = c
        BY <3>1, <4>1, <4>2
      <4>4. c = d \/ \E k \in DOMAIN listeners[s] : listeners[s][k] = c
        BY <1>7, <4>3 DEF more
      <4>5. QED
        BY <3>1, <3>2, <4>4, ProducedListen
    <3>3. CASE SourceOf[c] # s
      <4>1. listeners'[SourceOf[c]] = listeners[SourceOf[c]]
        BY <1>8, <3>1, <3>3
      <4>2. QED
        BY <3>1, <4>1 DEF Produced, Contains
    <3>4. QED
      BY <3>2, <3>3
  <2>2. QED
    BY <2>1
<1>10. EventsInv' /\ Coming' = Coming
  BY <1>1, <1>2 DEF EventsInv, Coming
<1>11. PhaseInv'
  BY <1>1, <1>2, <1>4 DEF PhaseInv, Workers
<1>12. SourcesInv'
  BY <1>1, <1>2, <1>7, <1>8 DEF SourcesInv
<1>13. JobsInv'
  BY <1>2, <1>4 DEF JobsInv
<1>14. DirsInv'
  <2>1. DOMAIN files = Dirs /\ DOMAIN items = Dirs
    BY <1>1 DEF DirsInv
  <2>2. \A v \in Workers : \A c : ~Awaits(job[v], c)
    BY <1>4 DEF Awaits
  <2>3. ASSUME NEW c \in Produced \cup {d}
        PROVE  DirOK(c, job, items'[c], files'[c], messages[SourceOf[c]], failed,
                     DeadOf(Coming, posted, c))
    <3>1. CASE c = d
      <4>1. SourceShape(messages[s], posted[EntityOf[s]]) /\ posted[EntityOf[s]] \in Nat
        BY <1>1, <1>5 DEF SourcesInv, IInv, ServerInv
      <4>2. Collection(messages[s])
        BY <4>1, ShapeCollects
      <4>3. files'[d] = first /\ items'[d] = P!FilesOf(first)
        BY <1>2, <2>1
      <4>4. Shows(items'[d], files'[d], messages[s], messages[s], Wanted[d],
                  BadIds(failed, d), DeadOf(Coming, posted, d))
        BY <4>2, <4>3, FirstShows DEF first
      <4>5. QED
        BY <2>2, <3>1, <4>4 DEF DirOK, s
    <3>2. CASE c # d
      <4>1. items'[c] = items[c] /\ files'[c] = files[c] /\ c \in Produced
        BY <1>2, <2>1, <3>2 DEF Produced
      <4>2. QED
        BY <1>1, <4>1 DEF DirsInv
    <3>3. QED
      BY <3>1, <3>2
  <2>4. DOMAIN files' = Dirs /\ DOMAIN items' = Dirs
    BY <1>2, <2>1
  <2>5. QED
    BY <1>2, <1>9, <1>10, <2>3, <2>4 DEF DirsInv
<1>15. QED
  BY <1>10, <1>11, <1>12, <1>13, <1>14 DEF DInv

-----------------------------------------------------------------------------
(* The jobs *)

\* A job is under way: no other one is, and mount() is past its fetches.
LEMMA Underway ==
  ASSUME IInv, DInv, NEW w \in Workers, job[w] # Idle
  PROVE  /\ JobOK(job[w], Produced, messages, files, Coming, posted)
         /\ \A v \in Workers : v # w => job[v] = Idle
         /\ phase # "starting"
         /\ w = "resume" => phase # "mounted"
         /\ w = "live" => phase # "resuming"
         /\ job[w].left # <<>> => fetched = Sources
<1>1. PhaseInv /\ JobsInv
  BY DEF DInv
<1>2. JobOK(job[w], Produced, messages, files, Coming, posted)
  BY <1>1 DEF JobsInv
<1>3. phase # "starting"
  BY DEF IInv, MountInv, NoJobs
<1>4. \A v \in Workers : v # w => job[v] = Idle
  BY <1>1 DEF PhaseInv, Workers
<1>5. (w = "resume" => phase # "mounted") /\ (w = "live" => phase # "resuming")
  BY <1>1 DEF PhaseInv
<1>6. ASSUME job[w].left # <<>> PROVE fetched = Sources
  <2>1. 1 \in DOMAIN job[w].left
    BY <1>2, <1>6 DEF JobOK
  <2>2. Produced # {}
    BY <1>2, <2>1 DEF JobOK
  <2>3. QED
    BY <1>1, <2>2 DEF PhaseInv
<1>7. QED
  BY <1>2, <1>3, <1>4, <1>5, <1>6

\* It goes on, or ends and gives the event loop back to resume().
LEMMA PhaseWorks ==
  ASSUME IInv, DInv, NEW w \in Workers, NEW j, job[w] # Idle,
         job' = [job EXCEPT ![w] = j],
         UNCHANGED <<queue, paused, fetched, listeners>>,
         phase' = phase \/ phase' = "aborted",
         control' = "resume" => fetched = Sources,
         w = "resume" /\ j = Idle => control' = "resume" \/ phase' = "aborted"
  PROVE  PhaseInv'
<1>1. PhaseInv
  BY DEF DInv
<1>2. /\ job'[w] = j /\ \A v \in Workers : v # w => job'[v] = Idle
      /\ phase # "starting"
      /\ w = "resume" => phase # "mounted"
      /\ w = "live" => phase # "resuming"
  BY Underway DEF IInv, JobInv
<1>3. Produced' = Produced
  BY DEF Produced
<1>4. "live" \in Workers /\ "resume" \in Workers /\ (w = "live" \/ w = "resume")
  BY DEF Workers
<1>5. /\ Produced' # {} \/ control' = "resume" \/ phase' \in {"resuming", "mounted"} =>
           fetched' = Sources
  BY <1>1, <1>3 DEF PhaseInv
<1>6. phase' = "mounted" => queue' = <<>> /\ job'["resume"] = Idle /\ ~paused'
  BY <1>1, <1>2, <1>4 DEF PhaseInv
<1>7. phase' = "resuming" /\ job'["resume"] = Idle => control' = "resume"
  BY <1>2, <1>4
<1>8. phase' \in {"starting", "resuming"} => job'["live"] = Idle
  BY <1>2, <1>4
<1>9. job'["live"] = Idle \/ job'["resume"] = Idle
  BY <1>2, <1>4
<1>10. QED
  BY <1>5, <1>6, <1>7, <1>8, <1>9 DEF PhaseInv

\* What the steps of a job leave alone.
LEMMA QuietEvents ==
  ASSUME DInv, UNCHANGED <<server, posted, inbox, queue, messages, listeners>>
  PROVE  EventsInv' /\ SourcesInv' /\ Produced' = Produced /\ Coming' = Coming
BY DEF DInv, EventsInv, SourcesInv, Produced, Coming

\* The first listener is told, and the others are left.
LEMMA TailLeft ==
  ASSUME NEW left \in Seq(Dirs), left # <<>>,
         \A k, l \in DOMAIN left : left[k] = left[l] => k = l
  PROVE  /\ 1 \in DOMAIN left /\ left[1] = Head(left) /\ Head(left) \in Dirs
         /\ Tail(left) \in Seq(Dirs)
         /\ \A k \in DOMAIN Tail(left) : k + 1 \in DOMAIN left /\ Tail(left)[k] = left[k + 1]
         /\ \A k, l \in DOMAIN Tail(left) : Tail(left)[k] = Tail(left)[l] => k = l
         /\ \A d : (\E k \in DOMAIN Tail(left) : Tail(left)[k] = d)
                     <=> d # Head(left) /\ \E k \in DOMAIN left : left[k] = d
<1> DEFINE n    == Len(left)
           rest == Tail(left)
<1>1. /\ DOMAIN left = 1..n /\ n \in Nat \ {0} /\ rest \in Seq(Dirs)
      /\ DOMAIN rest = 1..(n - 1) /\ \A k \in 1..(n - 1) : rest[k] = left[k + 1]
      /\ left[1] = Head(left)
  OBVIOUS
<1> HIDE DEF n, rest
<1>2. 1 \in 1..n /\ \A k \in 1..(n - 1) : k + 1 \in 1..n /\ k + 1 # 1
  BY <1>1
<1>3. \A k, l \in DOMAIN rest : rest[k] = rest[l] => k = l
  <2>1. ASSUME NEW k \in 1..(n - 1), NEW l \in 1..(n - 1), rest[k] = rest[l] PROVE k = l
    <3>1. k + 1 = l + 1
      BY <1>1, <1>2, <2>1
    <3>2. QED
      BY <1>1, <3>1
  <2>2. QED
    BY <1>1, <2>1
<1>4. ASSUME NEW d PROVE (\E k \in DOMAIN rest : rest[k] = d)
                           <=> d # Head(left) /\ \E k \in DOMAIN left : left[k] = d
  <2>1. ASSUME NEW k \in DOMAIN left, left[k] = d, d # Head(left)
        PROVE  \E l \in DOMAIN rest : rest[l] = d
    <3>1. k # 1
      BY <1>1, <2>1
    <3>2. k - 1 \in 1..(n - 1) /\ (k - 1) + 1 = k
      BY <1>1, <3>1
    <3>3. rest[k - 1] = left[k]
      BY <1>1, <3>2
    <3>4. QED
      BY <1>1, <2>1, <3>2, <3>3
  <2>2. ASSUME NEW k \in DOMAIN rest, rest[k] = d
        PROVE  d # Head(left) /\ \E l \in DOMAIN left : left[l] = d
    <3>1. left[k + 1] = d /\ k + 1 \in DOMAIN left /\ k + 1 # 1
      BY <1>1, <1>2, <2>2
    <3>2. QED
      BY <1>1, <1>2, <3>1
  <2>3. QED
    BY <2>1, <2>2
<1>5. QED
  BY <1>1, <1>2, <1>3, <1>4 DEF rest

\* A directory whose files are made shows its source again.
LEMMA DeliverDInv ==
  ASSUME IInv, DInv, NEW w \in Workers, job[w] # Idle, job[w].left # <<>>,
         Deliver(w, PlanFor(job[w].notice, files[Head(job[w].left)],
                            Wanted[Head(job[w].left)])),
         UNCHANGED <<world, inbox, phase, paused, queue, fetched, known, messages,
                     listeners, overlapped>>
  PROVE  DInv'
<1> DEFINE n    == job[w].notice
           left == job[w].left
           d    == Head(left)
           ids  == DOMAIN n.old \cup DOMAIN n.new
           plan == PlanFor(n, files[d], Wanted[d])
           j    == Notifying(n, Tail(left))
<1>1. /\ JobOK(job[w], Produced, messages, files, Coming, posted)
      /\ \A v \in Workers : v # w => job[v] = Idle
      /\ fetched = Sources
  BY Underway
<1>2. /\ left \in Seq(Dirs) /\ \A k, l \in DOMAIN left : left[k] = left[l] => k = l
      /\ \A k \in DOMAIN left :
           left[k] \in Produced /\ NoticeOf(messages[SourceOf[left[k]]], n,
                                            DeadOf(Coming, posted, left[k]))
  BY <1>1 DEF JobOK
<1>3. /\ files' = [files EXCEPT ![d] = P!FilesAfter(@, plan)]
      /\ items' = [items EXCEPT ![d] = P!ItemsAfter(@, plan)]
      /\ job' = [job EXCEPT ![w] = j]
      /\ failed' = failed \ ({d} \X ids)
      /\ control' = w
      /\ UNCHANGED <<server, posted, inbox, phase, paused, queue, fetched, messages, listeners>>
  BY DEF Deliver, world
<1>4. /\ DOMAIN files = Dirs /\ DOMAIN items = Dirs /\ DOMAIN job = Workers
      /\ \A c \in Produced :
           DirOK(c, job, items[c], files[c], messages[SourceOf[c]], failed,
                 DeadOf(Coming, posted, c))
  BY DEF DInv, DirsInv, IInv, JobInv
<1>5. j.pc = "notifying" /\ j.notice = n /\ j.left = Tail(left) /\ j # Idle
  BY DEF Notifying, Idle
<1> HIDE DEF n, left, d, ids, plan, j
<1>6. /\ 1 \in DOMAIN left /\ left[1] = d /\ d \in Dirs /\ Tail(left) \in Seq(Dirs)
      /\ \A k \in DOMAIN Tail(left) : k + 1 \in DOMAIN left /\ Tail(left)[k] = left[k + 1]
      /\ \A k, l \in DOMAIN Tail(left) : Tail(left)[k] = Tail(left)[l] => k = l
      /\ \A c : (\E k \in DOMAIN Tail(left) : Tail(left)[k] = c)
                  <=> c # d /\ \E k \in DOMAIN left : left[k] = c
  BY <1>2, TailLeft DEF left, d
<1>7. job'[w] = j /\ \A v \in Workers : v # w => job'[v] = Idle
  BY <1>1, <1>3, <1>4
<1>8. EventsInv' /\ SourcesInv' /\ Produced' = Produced /\ Coming' = Coming
  BY <1>3, QuietEvents
<1>9. PhaseInv'
  BY <1>1, <1>3, <1>5, PhaseWorks
<1>10. JobsInv'
  <2>1. \A k \in DOMAIN Tail(left) :
          /\ Tail(left)[k] \in Produced
          /\ NoticeOf(messages[SourceOf[Tail(left)[k]]], n,
                      DeadOf(Coming, posted, Tail(left)[k]))
    BY <1>2, <1>6
  <2>2. JobOK(j, Produced, messages, files', Coming, posted)
    BY <1>5, <1>6, <2>1 DEF JobOK
  <2>3. \A v \in Workers : job'[v] # Idle => v = w
    BY <1>7
  <2>4. QED
    BY <1>3, <1>7, <1>8, <2>2, <2>3 DEF JobsInv
<1>11. ASSUME NEW c PROVE /\ Awaits(job[w], c) <=> \E k \in DOMAIN left : left[k] = c
                          /\ Awaits(job'[w], c) <=> \E k \in DOMAIN Tail(left) : Tail(left)[k] = c
                          /\ \A v \in Workers : v # w => ~Awaits(job[v], c) /\ ~Awaits(job'[v], c)
  BY <1>1, <1>5, <1>7 DEF Awaits, left
<1>12. DirsInv'
  <2>1. ASSUME NEW c \in Produced
        PROVE  DirOK(c, job', items'[c], files'[c], messages[SourceOf[c]], failed',
                     DeadOf(Coming, posted, c))
    <3>1. DirOK(c, job, items[c], files[c], messages[SourceOf[c]], failed,
                DeadOf(Coming, posted, c))
      BY <1>4
    <3>2. CASE c = d
      <4> DEFINE m    == messages[SourceOf[d]]
                 gone == DeadOf(Coming, posted, d)
                 list == items[d]
                 made == files[d]
      <4>1. Awaits(job[w], d) /\ \A v \in Workers : ~Awaits(job'[v], d)
        BY <1>6, <1>11
      <4>2. Shows(list, made, Undone(m, n), m, Wanted[d], BadIds(failed, d), gone)
        BY <3>1, <3>2, <4>1 DEF DirOK, n
      <4>3. NoticeOf(m, n, gone)
        BY <1>2, <1>6
      <4>4. items'[d] = P!ItemsAfter(list, plan) /\ files'[d] = P!FilesAfter(made, plan)
        BY <1>3, <1>4, <1>6
      <4>5. BadIds(failed', d) = BadIds(failed, d) \ ids
        BY <1>3 DEF BadIds
      <4> HIDE DEF m, gone, list
      <4>6. Shows(items'[d], files'[d], m, m, Wanted[d], BadIds(failed', d), gone)
        BY <4>2, <4>3, <4>4, <4>5, Delivered DEF plan, ids
      <4>7. QED
        BY <3>2, <4>1, <4>6 DEF DirOK, m, gone
    <3>3. CASE c # d
      <4>1. items'[c] = items[c] /\ files'[c] = files[c]
        BY <1>3, <3>3
      <4>2. BadIds(failed', c) = BadIds(failed, c)
        BY <1>3, <3>3 DEF BadIds
      <4>3. \A v \in Workers : Awaits(job'[v], c) <=> Awaits(job[v], c)
        BY <1>6, <1>11, <3>3
      <4>4. \A v \in Workers : Awaits(job'[v], c) => v = w
        BY <1>11
      <4>5. job'[w].notice = job[w].notice
        BY <1>5, <1>7 DEF n
      <4>6. QED
        BY <3>1, <4>1, <4>2, <4>3, <4>4, <4>5 DEF DirOK
    <3>4. QED
      BY <3>2, <3>3
  <2>2. DOMAIN files' = Dirs /\ DOMAIN items' = Dirs
    BY <1>3, <1>4
  <2>3. QED
    BY <1>3, <1>8, <2>1, <2>2 DEF DirsInv
<1>13. QED
  BY <1>8, <1>9, <1>10, <1>12 DEF DInv

\* The job waits for the files of the plan.
LEMMA WaitsDInv ==
  ASSUME IInv, DInv, NEW w \in Workers, job[w] # Idle, job[w].left # <<>>,
         NEW plan, plan = PlanFor(job[w].notice, files[Head(job[w].left)],
                                  Wanted[Head(job[w].left)]),
         P!Waits(plan), job' = [job EXCEPT ![w] = Producing(job[w], plan)],
         control' = "none",
         UNCHANGED <<world, inbox, phase, paused, queue, fetched, messages, listeners,
                     tree, failed>>
  PROVE  DInv'
<1> DEFINE j == Producing(job[w], plan)
<1>1. /\ JobOK(job[w], Produced, messages, files, Coming, posted)
      /\ \A v \in Workers : v # w => job[v] = Idle
  BY Underway
<1>2. /\ j.notice = job[w].notice /\ j.left = job[w].left /\ j.plan = plan /\ j # Idle
  BY DEF Producing, Idle
<1> HIDE DEF j
<1>3. UNCHANGED <<server, posted, inbox, phase, paused, queue, fetched, messages, listeners,
                  files, items, failed>>
  BY DEF world, tree
<1>4. job'[w] = j /\ \A v \in Workers : v # w => job'[v] = Idle
  BY <1>1 DEF IInv, JobInv, j
<1>5. EventsInv' /\ SourcesInv' /\ Produced' = Produced /\ Coming' = Coming
  BY <1>3, QuietEvents
<1>6. PhaseInv'
  BY <1>2, <1>3, PhaseWorks DEF j
<1>7. JobsInv'
  <2>1. JobOK(j, Produced, messages, files, Coming, posted)
    BY <1>1, <1>2 DEF JobOK
  <2>2. QED
    BY <1>3, <1>4, <1>5, <2>1 DEF JobsInv
<1>8. DirsInv'
  <2>1. DirsInv
    BY DEF DInv
  <2>2. \A v \in Workers : \A c : Awaits(job'[v], c) <=> Awaits(job[v], c)
    BY <1>1, <1>2, <1>4 DEF Awaits
  <2>3. \A v \in Workers : \A c : Awaits(job'[v], c) => job'[v].notice = job[v].notice
    BY <1>2, <1>4 DEF Awaits
  <2>4. QED
    BY <1>3, <1>5, <2>1, <2>2, <2>3 DEF DirsInv, DirOK
<1>9. QED
  BY <1>5, <1>6, <1>7, <1>8 DEF DInv

\* The listeners that are left are not told: messages of the notice are aside.
LEMMA FailDInv ==
  ASSUME IInv, DInv, NEW w \in Workers, Fail(w)
  PROVE  DInv'
<1> DEFINE n    == job[w].notice
           left == job[w].left
           ids  == DOMAIN n.old \cup DOMAIN n.new
<1>1. job[w].pc = "producing" /\ job[w] # Idle
  BY DEF Fail, Idle
<1>2. /\ JobOK(job[w], Produced, messages, files, Coming, posted)
      /\ \A v \in Workers : v # w => job[v] = Idle
  BY <1>1, Underway
<1>3. /\ left \in Seq(Dirs) /\ left # <<>>
      /\ \A k \in DOMAIN left :
           NoticeOf(messages[SourceOf[left[k]]], n, DeadOf(Coming, posted, left[k]))
      /\ P!Waits(PlanFor(n, files[Head(left)], Wanted[Head(left)]))
  BY <1>1, <1>2 DEF JobOK
<1>4. n.kind # "removed" /\ ids \subseteq Nat
  <2>1. 1 \in DOMAIN left
    BY <1>3
  <2> HIDE DEF n, left
  <2>2. \E m, dead : NoticeOf(m, n, dead)
    BY <1>3, <2>1
  <2>3. PICK m, dead : NoticeOf(m, n, dead)
    BY <2>2
  <2>4. n.kind # "removed"
    BY <1>3, <2>3, WaitsForNew
  <2>5. QED
    BY <2>3, <2>4 DEF NoticeOf, Collection
<1>5. /\ job' = [job EXCEPT ![w] = Idle] /\ control = "none" /\ control' = control
      /\ failed' = failed \cup (ToSet(left) \X ids)
      /\ phase' = IF w = "resume" THEN "aborted" ELSE phase
      /\ UNCHANGED <<server, posted, inbox, paused, queue, fetched, messages, listeners,
                     files, items>>
  BY DEF Fail, AfterFailure, world, tree
<1>6. \A v \in Workers : job'[v] = Idle
  BY <1>2, <1>5 DEF IInv, JobInv
<1>7. EventsInv' /\ SourcesInv' /\ Produced' = Produced /\ Coming' = Coming
  BY <1>5, QuietEvents
<1>8. PhaseInv'
  <2>1. phase' = phase \/ phase' = "aborted"
    BY <1>5
  <2>2. w = "resume" => phase' = "aborted"
    BY <1>5
  <2>3. control' # "resume"
    BY <1>5
  <2>4. QED
    BY <1>1, <1>5, <2>1, <2>2, <2>3, PhaseWorks
<1>9. JobsInv'
  BY <1>6 DEF JobsInv
<1>10. DirsInv'
  <2>1. DOMAIN files = Dirs /\ DOMAIN items = Dirs
    BY DEF DInv, DirsInv
  <2>2. ASSUME NEW c \in Produced
        PROVE  DirOK(c, job', items[c], files[c], messages[SourceOf[c]], failed',
                     DeadOf(Coming, posted, c))
    <3> DEFINE m    == messages[SourceOf[c]]
               dead == DeadOf(Coming, posted, c)
               list == items[c]
               made == files[c]
               bad  == BadIds(failed, c)
    <3>1. DirOK(c, job, list, made, m, failed, dead)
      BY DEF DInv, DirsInv
    <3>2. \A v \in Workers : v # w => ~Awaits(job[v], c)
      BY <1>2 DEF Awaits
    <3>3. Awaits(job[w], c) <=> \E k \in DOMAIN left : left[k] = c
      BY <1>1 DEF Awaits
    <3> HIDE DEF left, ids, n, list, made
    <3>4. c \in ToSet(left) <=> \E k \in DOMAIN left : left[k] = c
      BY <1>3 DEF ToSet
    <3>5. BadIds(failed', c) = IF c \in ToSet(left) THEN bad \cup ids ELSE bad
      BY <1>4, <1>5 DEF BadIds
    <3>6. CASE \E k \in DOMAIN left : left[k] = c
      <4>1. Shows(list, made, Undone(m, n), m, Wanted[c], bad, dead)
        BY <3>1, <3>3, <3>6 DEF DirOK, n
      <4>2. NoticeOf(m, n, dead)
        BY <1>3, <3>6
      <4>3. Shows(list, made, m, m, Wanted[c], bad \cup DOMAIN n.old \cup DOMAIN n.new, dead)
        BY <1>4, <4>1, <4>2, FailedShows
      <4>4. BadIds(failed', c) = bad \cup DOMAIN n.old \cup DOMAIN n.new
        BY <3>4, <3>5, <3>6 DEF ids
      <4>5. \A v \in Workers : ~Awaits(job'[v], c)
        BY <1>6 DEF Awaits
      <4>6. DirOK(c, job', list, made, m, failed', dead)
        BY <4>3, <4>4, <4>5 DEF DirOK
      <4>7. QED
        BY <4>6 DEF list, made
    <3>7. CASE ~\E k \in DOMAIN left : left[k] = c
      <4>1. Shows(list, made, m, m, Wanted[c], bad, dead)
        BY <3>1, <3>2, <3>3, <3>7 DEF DirOK
      <4>2. BadIds(failed', c) = bad
        BY <3>4, <3>5, <3>7
      <4>3. \A v \in Workers : ~Awaits(job'[v], c)
        BY <1>6 DEF Awaits
      <4>4. DirOK(c, job', list, made, m, failed', dead)
        BY <4>1, <4>2, <4>3 DEF DirOK
      <4>5. QED
        BY <4>4 DEF list, made
    <3>8. QED
      BY <3>6, <3>7
  <2>3. QED
    BY <1>5, <1>7, <2>1, <2>2 DEF DirsInv
<1>11. QED
  BY <1>7, <1>8, <1>9, <1>10 DEF DInv

\* Nobody is left to be told.
LEMMA ReturnDInv ==
  ASSUME IInv, DInv, NEW w \in Workers, Return(w)
  PROVE  DInv'
<1>1. /\ job[w].pc = "notifying" /\ job[w] # Idle /\ job[w].left = <<>> /\ control = w
      /\ job' = [job EXCEPT ![w] = Idle]
      /\ control' = IF w = "resume" THEN "resume" ELSE "none"
      /\ UNCHANGED <<server, posted, inbox, phase, paused, queue, fetched, messages,
                     listeners, files, items, failed>>
  BY DEF Return, Idle, world, tree, history
<1>2. \A v \in Workers : v # w => job[v] = Idle
  BY <1>1, Underway
<1>3. \A v \in Workers : job'[v] = Idle
  BY <1>1, <1>2 DEF IInv, JobInv
<1>4. EventsInv' /\ SourcesInv' /\ Produced' = Produced /\ Coming' = Coming
  BY <1>1, QuietEvents
<1>5. PhaseInv'
  <2>1. control' = "resume" => fetched = Sources
    BY <1>1 DEF DInv, PhaseInv
  <2>2. w = "resume" => control' = "resume"
    BY <1>1
  <2>3. QED
    BY <1>1, <2>1, <2>2, PhaseWorks
<1>6. JobsInv'
  BY <1>3 DEF JobsInv
<1>7. DirsInv'
  <2>1. DirsInv
    BY DEF DInv
  <2>2. DOMAIN <<>> = {}
    OBVIOUS
  <2>3. \A v \in Workers : \A c : ~Awaits(job[v], c) /\ ~Awaits(job'[v], c)
    BY <1>1, <1>2, <1>3, <2>2 DEF Awaits
  <2>4. QED
    BY <1>1, <1>4, <2>1, <2>3 DEF DirsInv, DirOK
<1>8. QED
  BY <1>4, <1>5, <1>6, <1>7 DEF DInv

LEMMA WorkingDInv == ASSUME IInv, DInv, NEW w \in Workers, Working(w) PROVE DInv'
<1>1. CASE Notify(w)
  <2> DEFINE d == Head(job[w].left)
  <2>1. job[w] # Idle /\ job[w].left # <<>>
    BY <1>1 DEF Notify, Idle
  <2>2. UNCHANGED <<world, inbox, phase, paused, queue, fetched, known, messages, listeners,
                    overlapped>>
    BY <1>1 DEF Notify
  <2>3. \E plan \in {PlanFor(job[w].notice, files[d], Wanted[d])} :
          \/ /\ P!Waits(plan)
             /\ job' = [job EXCEPT ![w] = Producing(job[w], plan)]
             /\ control' = "none"
             /\ UNCHANGED <<tree, failed>>
          \/ Deliver(w, plan)
    BY <1>1 DEF Notify, Suspended, PlanFor
  <2>4. PICK plan \in {PlanFor(job[w].notice, files[d], Wanted[d])} :
          \/ /\ P!Waits(plan)
             /\ job' = [job EXCEPT ![w] = Producing(job[w], plan)]
             /\ control' = "none"
             /\ UNCHANGED <<tree, failed>>
          \/ Deliver(w, plan)
    BY <2>3
  <2>5. plan = PlanFor(job[w].notice, files[Head(job[w].left)], Wanted[Head(job[w].left)])
    OBVIOUS
  <2>6. CASE Deliver(w, plan)
    BY <2>1, <2>2, <2>5, <2>6, DeliverDInv
  <2>7. CASE /\ P!Waits(plan)
             /\ job' = [job EXCEPT ![w] = Producing(job[w], plan)]
             /\ control' = "none"
             /\ UNCHANGED <<tree, failed>>
    BY <2>1, <2>2, <2>5, <2>7, WaitsDInv
  <2>8. QED
    BY <2>4, <2>6, <2>7
<1>2. CASE Wake(w)
  <2>1. job[w].pc = "producing" /\ job[w] # Idle
    BY <1>2 DEF Wake, Idle
  <2>2. /\ job[w].left # <<>>
        /\ job[w].plan = PlanFor(job[w].notice, files[Head(job[w].left)],
                                 Wanted[Head(job[w].left)])
    BY <2>1, Underway DEF JobOK
  <2>3. /\ Deliver(w, job[w].plan)
        /\ UNCHANGED <<world, inbox, phase, paused, queue, fetched, known, messages,
                       listeners, overlapped>>
    BY <1>2 DEF Wake
  <2>4. QED
    BY <2>1, <2>2, <2>3, DeliverDInv
<1>3. QED
  BY <1>1, <1>2, FailDInv, ReturnDInv DEF Working

-----------------------------------------------------------------------------
(* The theorem *)

LEMMA MountingDInv == ASSUME IInv, DInv, Mounting, ~overlapped' PROVE DInv'
<1>1. CASE \E s \in Sources : Fetch(s)
  BY <1>1, FetchDInv
<1>2. CASE \E d \in Dirs : Produce(d)
  BY <1>2, ProduceDInv
<1>3. CASE (\E d \in Dirs : FailProduce(d)) \/ Resume \/ Mount
  BY <1>3, PhaseDInv
<1>4. CASE Replay
  BY <1>4, ReplayDInv
<1>5. QED
  BY <1>1, <1>2, <1>3, <1>4 DEF Mounting

\* Once two events were under way at a time, the history says so.
LEMMA OverlapStays == ASSUME Next, ~overlapped' PROVE ~overlapped
<1>1. CASE Telegram
  BY <1>1 DEF Telegram, Post, Edit, React, Delete, Send, history
<1>2. CASE Mounting
  BY <1>2 DEF Mounting, Fetch, Produce, FailProduce, Resume, Replay, Mount, Dispatch, history
<1>3. CASE Handle
  BY <1>3 DEF Handle, Dispatch
<1>4. CASE \E w \in Workers : Working(w)
  BY <1>4 DEF Working, Notify, Wake, Fail, Return, history
<1>5. QED
  BY <1>1, <1>2, <1>3, <1>4 DEF Next

LEMMA StutterDInv == ASSUME DInv, UNCHANGED vars PROVE DInv'
<1>1. UNCHANGED <<server, posted, inbox, phase, paused, queue, fetched, messages, listeners,
                  files, items, job, control, failed>>
  BY DEF vars, world, tree, history
<1>2. EventsInv' /\ SourcesInv' /\ Produced' = Produced /\ Coming' = Coming
  BY <1>1, QuietEvents
<1>3. PhaseInv' /\ JobsInv' /\ DirsInv'
  BY <1>1, <1>2 DEF DInv, PhaseInv, JobsInv, DirsInv
<1>4. QED
  BY <1>2, <1>3 DEF DInv

LEMMA InitGInv == Init => GInv
BY InitIInv, InitDInv DEF GInv

LEMMA NextGInv == GInv /\ [Next]_vars => GInv'
<1> SUFFICES ASSUME GInv, [Next]_vars PROVE GInv'
  OBVIOUS
<1>1. IInv /\ IInv'
  BY NextIInv DEF GInv
<1>2. ASSUME Next, ~overlapped' PROVE DInv'
  <2>1. DInv
    BY <1>2, OverlapStays DEF GInv
  <2>2. CASE Telegram
    BY <1>1, <2>1, <2>2, TelegramDInv
  <2>3. CASE Mounting
    BY <1>1, <1>2, <2>1, <2>3, MountingDInv
  <2>4. CASE Handle
    BY <1>1, <1>2, <2>1, <2>4, HandleDInv
  <2>5. CASE \E w \in Workers : Working(w)
    BY <1>1, <2>1, <2>5, WorkingDInv
  <2>6. QED
    BY <1>2, <2>2, <2>3, <2>4, <2>5 DEF Next
<1>3. ASSUME UNCHANGED vars, ~overlapped' PROVE DInv'
  <2>1. overlapped' = overlapped
    BY <1>3 DEF vars, history
  <2>2. DInv
    BY <1>3, <2>1 DEF GInv
  <2>3. QED
    BY <1>3, <2>2, StutterDInv
<1>4. QED
  BY <1>1, <1>2, <1>3 DEF GInv

\* With nothing under way, the items of a directory are as the property says.
LEMMA ShownItems ==
  ASSUME NEW d, NEW m, NEW dead, NEW list, NEW made, NEW fails, Collection(m),
         Shows(list, made, m, m, Wanted[d], BadIds(fails, d), dead)
  PROVE  /\ {f \in ToSet(list) : <<d, f.id>> \notin fails}
              = {f \in {P!File(i, m[i]) : i \in DOMAIN P!Matching(m, Wanted[d])} :
                   <<d, f.id>> \notin fails}
         /\ \A k, l \in DOMAIN list : list[k].id = list[l].id => k = l
<1> DEFINE bad == BadIds(fails, d)
<1>1. DOMAIN P!Matching(m, Wanted[d]) = {i \in DOMAIN m : m[i] \in Wanted[d]}
  BY DEF P!Matching, P!RestrictValues, P!Restrict
<1>2. /\ OneEach(list, made) /\ IdsOf(list) \subseteq DOMAIN m
      /\ \A i \in DOMAIN m \ bad : /\ i \in IdsOf(list) <=> m[i] \in Wanted[d]
                                   /\ i \in IdsOf(list) => made[i] = m[i]
  BY DEF Shows
<1>3. \A i \in DOMAIN m : i \in bad <=> <<d, i>> \in fails
  BY DEF BadIds, Collection
<1> HIDE DEF bad
<1>4. \A i : P!File(i, m[i]).id = i
  BY DEF P!File
<1>5. ASSUME NEW f \in ToSet(list), <<d, f.id>> \notin fails
      PROVE  f \in {P!File(i, m[i]) : i \in DOMAIN P!Matching(m, Wanted[d])}
  <2>1. f.id \in IdsOf(list) /\ f = P!File(f.id, made[f.id])
    BY <1>2 DEF ToSet, IdsOf, OneEach
  <2>2. m[f.id] \in Wanted[d] /\ made[f.id] = m[f.id] /\ f.id \in DOMAIN m
    BY <1>2, <1>3, <1>5, <2>1
  <2>3. QED
    BY <1>1, <2>1, <2>2
<1>6. ASSUME NEW i \in DOMAIN P!Matching(m, Wanted[d]), <<d, i>> \notin fails
      PROVE  P!File(i, m[i]) \in ToSet(list)
  <2>1. i \in IdsOf(list) /\ made[i] = m[i]
    BY <1>1, <1>2, <1>3, <1>6
  <2>2. PICK k \in DOMAIN list : list[k].id = i
    BY <2>1 DEF IdsOf
  <2>3. list[k] = P!File(i, m[i])
    BY <1>2, <2>1, <2>2 DEF OneEach
  <2>4. QED
    BY <2>3 DEF ToSet
<1>7. {f \in ToSet(list) : <<d, f.id>> \notin fails}
        = {f \in {P!File(i, m[i]) : i \in DOMAIN P!Matching(m, Wanted[d])} :
             <<d, f.id>> \notin fails}
  BY <1>4, <1>5, <1>6
<1>8. QED
  BY <1>2, <1>7 DEF OneEach

LEMMA GInvShows == GInv => DirsShowTheirSource
<1> SUFFICES ASSUME GInv, NoJobs, ~overlapped, NEW d \in Produced PROVE ShowsItsSource(d)
  BY DEF DirsShowTheirSource
<1> DEFINE m    == messages[SourceOf[d]]
           dead == DeadOf(Coming, posted, d)
<1>1. IInv /\ SourcesInv /\ DirsInv
  BY DEF GInv, DInv
<1>2. DirOK(d, job, items[d], files[d], m, failed, dead)
  BY <1>1 DEF DirsInv
<1>3. Shows(items[d], files[d], m, m, Wanted[d], BadIds(failed, d), dead)
  <2>1. \A v \in Workers : ~Awaits(job[v], d)
    BY DEF NoJobs, Awaits
  <2>2. QED
    BY <1>2, <2>1 DEF DirOK
<1>4. Collection(m)
  <2>1. SourceOf[d] \in Sources /\ EntityOf[SourceOf[d]] \in Entities
    BY SourcesAssumption DEF Produced
  <2>2. SourceShape(m, posted[EntityOf[SourceOf[d]]])
    BY <1>1, <2>1 DEF SourcesInv
  <2>3. posted[EntityOf[SourceOf[d]]] \in Nat
    BY <1>1, <2>1 DEF IInv, ServerInv
  <2>4. QED
    BY <2>2, <2>3, ShapeCollects
<1> HIDE DEF m, dead
<1>5. /\ {f \in ToSet(items[d]) : <<d, f.id>> \notin failed}
           = {f \in {P!File(i, m[i]) : i \in DOMAIN P!Matching(m, Wanted[d])} :
                <<d, f.id>> \notin failed}
      /\ \A k, l \in DOMAIN items[d] : items[d][k].id = items[d][l].id => k = l
  BY <1>3, <1>4, ShownItems
<1>6. QED
  BY <1>5 DEF ShowsItsSource, m

\* Between two events every produced directory shows its source, whatever
\* edits, reactions and removals came in which order, how many sources and
\* directories there are, and which files could not be made on the way.
THEOREM DirsShow == Spec => []DirsShowTheirSource
<1>1. Spec => []GInv
  BY InitGInv, NextGInv, PTL DEF Spec
<1>2. QED
  BY <1>1, GInvShows, PTL

-----------------------------------------------------------------------------
(* Messages that are behind their entity *)

\* The kinds of the events of message i of e that come after the k-th.
Kinds(W, k, e, i) ==
  {W[l].kind : l \in {n \in DOMAIN W : k < n /\ W[n].entity = e /\ i \in AboutIds(W[n])}}

\* Events of the kinds K bring a message with content c to what it is now.
Becomes(c, now, i, K) ==
  /\ i \notin DOMAIN now => "delete" \in K
  /\ i \in DOMAIN now =>
       /\ c.body = now[i].body \/ "edit" \in K
       /\ c.reaction = now[i].reaction \/ K \cap {"edit", "reaction"} # {}
       /\ c \in Supported <=> now[i] \in Supported

\* What event v says of message i is so, or is undone by later events.
Undoes(v, now, i, K) ==
  /\ v.kind = "delete" => i \notin DOMAIN now
  /\ v.kind \in {"new", "edit"} => Becomes(v.change[i], now, i, K)
  /\ v.kind = "reaction" =>
       /\ i \notin DOMAIN now => "delete" \in K
       /\ i \in DOMAIN now =>
            v.change[i] = now[i].reaction \/ K \cap {"edit", "reaction"} # {}

\* The messages m of a source have message i as it is, or will.
Tracks(m, now, i, K) ==
  /\ i \in DOMAIN m => Becomes(m[i], now, i, K)
  /\ i \in DOMAIN now \ DOMAIN m /\ now[i] \in Supported => "new" \in K

Served(e) == \E s \in Sources : EntityOf[s] = e

EventsUndone(W, srv) ==
  \A k \in DOMAIN W :
    /\ Served(W[k].entity)
    /\ \A i \in AboutIds(W[k]) :
         Undoes(W[k], srv[W[k].entity], i, Kinds(W, k, W[k].entity, i))

SourcesTrack(W, srv, ms, got) ==
  \A s \in got : s \in Connected(EntityOf[s]) =>
    \A i \in Nat : Tracks(ms[s], srv[EntityOf[s]], i, Kinds(W, 0, EntityOf[s], i))

LEMMA MoreKinds ==
  ASSUME NEW now, NEW i, NEW K, NEW K2, K \subseteq K2
  PROVE  /\ \A c : Becomes(c, now, i, K) => Becomes(c, now, i, K2)
         /\ \A v : Undoes(v, now, i, K) => Undoes(v, now, i, K2)
         /\ \A m : Tracks(m, now, i, K) => Tracks(m, now, i, K2)
<1>1. \A c : Becomes(c, now, i, K) => Becomes(c, now, i, K2)
  BY DEF Becomes
<1>2. QED
  BY <1>1 DEF Undoes, Tracks

\* What an update makes of message i, to be told by events of the kinds K.
Moves(now, now2, i, K) ==
  \/ /\ i \in DOMAIN now2 <=> i \in DOMAIN now
     /\ i \in DOMAIN now => now2[i] = now[i]
  \/ i \notin DOMAIN now2 /\ "delete" \in K
  \/ /\ i \in DOMAIN now /\ i \in DOMAIN now2
     /\ now2[i] \in Supported <=> now[i] \in Supported
     /\ \/ now2[i].reaction = now[i].reaction /\ "edit" \in K
        \/ now2[i].body = now[i].body /\ "reaction" \in K

LEMMA MovedOn ==
  ASSUME NEW now, NEW now2, NEW i, NEW K, NEW K2, K \subseteq K2, Moves(now, now2, i, K2)
  PROVE  /\ \A c : Becomes(c, now, i, K) => Becomes(c, now2, i, K2)
         /\ \A v : Undoes(v, now, i, K) => Undoes(v, now2, i, K2)
         /\ \A m : Tracks(m, now, i, K) => Tracks(m, now2, i, K2)
<1>1. \A c : Becomes(c, now, i, K) => Becomes(c, now2, i, K2)
  <2>1. CASE i \notin DOMAIN now2
    BY <2>1 DEF Becomes, Moves
  <2>2. CASE i \in DOMAIN now2
    BY <2>2 DEF Becomes, Moves
  <2>3. QED
    BY <2>1, <2>2
<1>2. \A v : Undoes(v, now, i, K) => Undoes(v, now2, i, K2)
  BY <1>1 DEF Undoes, Moves
<1>3. \A m : Tracks(m, now, i, K) => Tracks(m, now2, i, K2)
  BY <1>1 DEF Tracks, Moves
<1>4. QED
  BY <1>1, <1>2, <1>3

-----------------------------------------------------------------------------
(* Kinds and the ways of events *)

LEMMA KindsLeft ==
  ASSUME NEW W \in Seq(Event), NEW W2 \in Seq(Event), NEW srv, LeftOf(W2, W),
         EventsUndone(W, srv)
  PROVE  EventsUndone(W2, srv)
<1>1. DOMAIN W \subseteq Nat \ {0} /\ DOMAIN W2 \subseteq Nat
  OBVIOUS
<1>2. PICK h \in [DOMAIN W2 -> DOMAIN W] :
        /\ \A k \in DOMAIN W2 : W2[k] = W[h[k]]
        /\ \A k, l \in DOMAIN W2 : k < l /\ W2[k].entity = W2[l].entity => h[k] < h[l]
        /\ \A l \in DOMAIN W : l # 1 => \E k \in DOMAIN W2 : h[k] = l
  BY DEF LeftOf
<1>3. ASSUME NEW k \in DOMAIN W2, NEW i \in AboutIds(W2[k])
      PROVE  Undoes(W2[k], srv[W2[k].entity], i, Kinds(W2, k, W2[k].entity, i))
  <2> DEFINE e == W2[k].entity
             g == h[k]
  <2>1. g \in DOMAIN W /\ W2[k] = W[g]
    BY <1>2
  <2> HIDE DEF g
  <2>2. Undoes(W2[k], srv[e], i, Kinds(W, g, e, i))
    BY <2>1 DEF EventsUndone
  <2>3. ASSUME NEW l \in DOMAIN W, g < l, W[l].entity = e
        PROVE  \E q \in DOMAIN W2 : k < q /\ W2[q] = W[l]
    <3>1. l # 1
      BY <1>1, <2>1, <2>3
    <3>2. PICK q \in DOMAIN W2 : h[q] = l
      BY <1>2, <3>1
    <3>3. W2[q] = W[l]
      BY <1>2, <3>2
    <3>4. q < k => h[q] < h[k]
      BY <1>2, <2>3, <3>3
    <3>5. ~(h[q] < h[k]) /\ h[q] # h[k]
      BY <1>1, <2>1, <2>3, <3>2 DEF g
    <3>6. k < q
      BY <1>1, <3>4, <3>5
    <3>7. QED
      BY <3>3, <3>6
  <2>4. Kinds(W, g, e, i) \subseteq Kinds(W2, k, e, i)
    BY <2>3 DEF Kinds
  <2>5. QED
    BY <2>2, <2>4, MoreKinds
<1>4. QED
  BY <1>2, <1>3 DEF EventsUndone

LEMMA KindsMoved ==
  ASSUME NEW W, NEW W2 \in Seq(Event), NoneLost(W2, W), NEW e, NEW i
  PROVE  Kinds(W, 0, e, i) \subseteq Kinds(W2, 0, e, i)
<1>1. DOMAIN W2 \subseteq Nat \ {0}
  OBVIOUS
<1>2. \A k \in DOMAIN W2 : 0 < k
  BY <1>1
<1>3. QED
  BY <1>2 DEF Kinds, NoneLost

LEMMA KindsTaken ==
  ASSUME NEW W \in Seq(Event), W # <<>>, NEW e, NEW i
  PROVE  /\ Kinds(W, 1, e, i) \subseteq Kinds(Tail(W), 0, e, i)
         /\ Kinds(W, 0, e, i) \subseteq
              Kinds(Tail(W), 0, e, i) \cup
                (IF Head(W).entity = e /\ i \in AboutIds(Head(W)) THEN {Head(W).kind} ELSE {})
<1> DEFINE n  == Len(W)
           W2 == Tail(W)
           v  == Head(W)
<1>1. /\ n \in Nat \ {0} /\ DOMAIN W = 1..n /\ DOMAIN W2 = 1..(n - 1)
      /\ \A k \in 1..(n - 1) : W2[k] = W[k + 1]
      /\ W[1] = v
  OBVIOUS
<1> HIDE DEF n, W2, v
<1>2. \A l \in 1..n : l = 1 \/ (l - 1 \in 1..(n - 1) /\ 0 < l - 1 /\ W2[l - 1] = W[l])
  <2>1. \A l \in 1..n : l = 1 \/ (l - 1 \in 1..(n - 1) /\ 0 < l - 1 /\ (l - 1) + 1 = l)
    BY <1>1
  <2>2. QED
    BY <1>1, <2>1
<1>3. Kinds(W, 1, e, i) \subseteq Kinds(W2, 0, e, i)
  <2>1. ASSUME NEW l \in 1..n, 1 < l, W[l].entity = e, i \in AboutIds(W[l])
        PROVE  W[l].kind \in Kinds(W2, 0, e, i)
    <3>1. l - 1 \in 1..(n - 1) /\ 0 < l - 1 /\ W2[l - 1] = W[l]
      BY <1>2, <2>1
    <3>2. QED
      BY <1>1, <2>1, <3>1 DEF Kinds
  <2>2. QED
    BY <1>1, <2>1 DEF Kinds
<1>4. ASSUME NEW l \in 1..n, W[l].entity = e, i \in AboutIds(W[l])
      PROVE  \/ W[l].kind \in Kinds(W2, 0, e, i)
             \/ v.entity = e /\ i \in AboutIds(v) /\ W[l].kind = v.kind
  <2>1. CASE l = 1
    BY <1>1, <1>4, <2>1
  <2>2. CASE l # 1
    <3>1. l - 1 \in 1..(n - 1) /\ 0 < l - 1 /\ W2[l - 1] = W[l]
      BY <1>2, <2>2
    <3>2. QED
      BY <1>1, <1>4, <3>1 DEF Kinds
  <2>3. QED
    BY <2>1, <2>2
<1>5. Kinds(W, 0, e, i) \subseteq
        Kinds(W2, 0, e, i) \cup (IF v.entity = e /\ i \in AboutIds(v) THEN {v.kind} ELSE {})
  <2> DEFINE more == IF v.entity = e /\ i \in AboutIds(v) THEN {v.kind} ELSE {}
             K2   == Kinds(W2, 0, e, i)
  <2>1. \A l \in 1..n : W[l].entity = e /\ i \in AboutIds(W[l]) => W[l].kind \in K2 \cup more
    BY <1>4
  <2> HIDE DEF more, K2
  <2>2. QED
    BY <1>1, <2>1 DEF Kinds, more, K2
<1>6. QED
  BY <1>3, <1>5 DEF W2, v

LEMMA KindsSent ==
  ASSUME NEW W \in Seq(Event), NEW W2 \in Seq(Event), NEW event, SentAfter(W2, W, event),
         NEW k \in DOMAIN W \cup {0}, NEW e, NEW i
  PROVE  /\ Kinds(W, k, e, i) \subseteq Kinds(W2, k, e, i)
         /\ (\E l \in DOMAIN W2 : l \notin DOMAIN W) /\ event.entity = e /\ i \in AboutIds(event)
              => event.kind \in Kinds(W2, k, e, i)
<1>1. Kinds(W, k, e, i) \subseteq Kinds(W2, k, e, i)
  BY DEF Kinds, SentAfter
<1>2. ASSUME NEW l \in DOMAIN W2, l \notin DOMAIN W, event.entity = e, i \in AboutIds(event)
      PROVE  event.kind \in Kinds(W2, k, e, i)
  <2>1. W2[l] = event
    BY <1>2 DEF SentAfter
  <2>2. k < l
    <3>1. CASE k \in DOMAIN W
      BY <1>2, <3>1 DEF SentAfter
    <3>2. CASE k = 0
      <4>1. l \in Nat \ {0}
        OBVIOUS
      <4>2. QED
        BY <3>2, <4>1
    <3>3. QED
      BY <3>1, <3>2
  <2>3. QED
    BY <1>2, <2>1, <2>2 DEF Kinds
<1>3. QED
  BY <1>1, <1>2

-----------------------------------------------------------------------------
(* Telegram *)

\* An update moves the messages of its entity as its event says.
LEMMA StepMoves ==
  ASSUME EditsKeepSupport, NEW e \in Entities, NEW kind, NEW change,
         ServerStep(e, kind, change), NEW i, NEW K,
         server[e] \in [DOMAIN server[e] -> Contents],
         IF kind = "delete" THEN i \in change => kind \in K ELSE i \in DOMAIN change => kind \in K
  PROVE  \/ Moves(server[e], server'[e], i, K)
         \/ i = posted[e] + 1 /\ kind = "new" /\ "new" \in K
<1> DEFINE now  == server[e]
           now2 == server'[e]
<1>1. CASE kind = "new"
  <2>1. PICK c : Announces(now, now2, posted[e] + 1, c, change)
    BY <1>1 DEF ServerStep
  <2>2. /\ DOMAIN change = {posted[e] + 1} /\ DOMAIN now2 = DOMAIN now \cup {posted[e] + 1}
        /\ \A j \in DOMAIN now : now2[j] = now[j]
    BY <2>1 DEF Announces, One
  <2> HIDE DEF now, now2
  <2>3. CASE i = posted[e] + 1
    BY <1>1, <2>2, <2>3
  <2>4. CASE i # posted[e] + 1
    <3>1. Moves(now, now2, i, K)
      BY <2>2, <2>4 DEF Moves
    <3>2. QED
      BY <3>1 DEF now, now2
  <2>5. QED
    BY <2>3, <2>4
<1>2. CASE kind = "edit"
  <2>1. PICK j, c : Rewrites(now, now2, j, c, change)
    BY <1>2 DEF ServerStep
  <2>2. /\ DOMAIN change = {j} /\ DOMAIN now2 = DOMAIN now /\ j \in DOMAIN now /\ now2[j] = c
        /\ \A l \in DOMAIN now : l # j => now2[l] = now[l]
        /\ <<now[j].body, c.body>> \in Edits /\ c = [now[j] EXCEPT !.body = c.body]
        /\ c \in Contents
    BY <2>1 DEF Rewrites, One
  <2>3. now[j] \in Contents /\ c.body \in Bodies
    BY <2>2 DEF Contents
  <2> HIDE DEF now, now2
  <2>4. now[j] \in Supported <=> c \in Supported
    BY <2>2, <2>3 DEF EditsKeepSupport
  <2>5. c.reaction = now[j].reaction
    BY <2>2, <2>3 DEF Contents
  <2>6. Moves(now, now2, i, K)
    <3>1. CASE i = j
      BY <1>2, <2>2, <2>4, <2>5, <3>1 DEF Moves
    <3>2. CASE i # j
      BY <2>2, <3>2 DEF Moves
    <3>3. QED
      BY <3>1, <3>2
  <2>7. QED
    BY <2>6 DEF now, now2
<1>3. CASE kind = "reaction"
  <2>1. PICK j, r : Reacts(now, now2, j, r, change)
    BY <1>3 DEF ServerStep
  <2>2. /\ DOMAIN change = {j} /\ DOMAIN now2 = DOMAIN now /\ j \in DOMAIN now
        /\ now2[j] = [now[j] EXCEPT !.reaction = r] /\ r \in Reactions
        /\ now2[j].body = now[j].body
        /\ \A l \in DOMAIN now : l # j => now2[l] = now[l]
    BY <2>1 DEF Reacts, One
  <2>3. now[j] \in Contents
    BY <2>2
  <2> HIDE DEF now, now2
  <2>4. now[j] \in Supported <=> now2[j] \in Supported
    BY <2>2, <2>3 DEF EditsKeepSupport
  <2>5. Moves(now, now2, i, K)
    <3>1. CASE i = j
      BY <1>3, <2>2, <2>4, <3>1 DEF Moves
    <3>2. CASE i # j
      BY <2>2, <3>2 DEF Moves
    <3>3. QED
      BY <3>1, <3>2
  <2>6. QED
    BY <2>5 DEF now, now2
<1>4. CASE kind = "delete"
  <2>1. Deletes(now, now2, change)
    BY <1>4 DEF ServerStep
  <2> HIDE DEF now, now2
  <2>2. Moves(now, now2, i, K)
    BY <1>4, <2>1 DEF Moves, Deletes
  <2>3. QED
    BY <2>2 DEF now, now2
<1>5. QED
  BY <1>1, <1>2, <1>3, <1>4 DEF ServerStep

\* The event tells what the message is now.
LEMMA StepTells ==
  ASSUME NEW e \in Entities, NEW kind, NEW change, ServerStep(e, kind, change),
         NEW i \in AboutIds([entity |-> e, kind |-> kind, change |-> change]), NEW K
  PROVE  Undoes([entity |-> e, kind |-> kind, change |-> change], server'[e], i, K)
<1> DEFINE v    == [entity |-> e, kind |-> kind, change |-> change]
           now  == server[e]
           now2 == server'[e]
<1>1. v.kind = kind /\ v.change = change
      /\ i \in IF kind = "delete" THEN change ELSE DOMAIN change
  BY DEF AboutIds
<1> HIDE DEF v
<1>2. CASE kind = "new"
  <2>1. PICK c : Announces(now, now2, posted[e] + 1, c, change)
    BY <1>2 DEF ServerStep
  <2>2. i \in DOMAIN now2 /\ now2[i] = c /\ change[i] = c
    BY <1>1, <1>2, <2>1 DEF Announces, One
  <2>3. QED
    BY <1>1, <1>2, <2>2 DEF Undoes, Becomes, v
<1>3. CASE kind = "edit"
  <2>1. PICK j, c : Rewrites(now, now2, j, c, change)
    BY <1>3 DEF ServerStep
  <2>2. i \in DOMAIN now2 /\ now2[i] = c /\ change[i] = c
    BY <1>1, <1>3, <2>1 DEF Rewrites, One
  <2>3. QED
    BY <1>1, <1>3, <2>2 DEF Undoes, Becomes, v
<1>4. CASE kind = "reaction"
  <2>1. PICK j, r : Reacts(now, now2, j, r, change)
    BY <1>4 DEF ServerStep
  <2>2. i \in DOMAIN now2 /\ now2[i].reaction = r /\ change[i] = r
    BY <1>1, <1>4, <2>1 DEF Reacts, One
  <2>3. QED
    BY <1>1, <1>4, <2>2 DEF Undoes, Becomes, v
<1>5. CASE kind = "delete"
  <2>1. i \notin DOMAIN now2
    BY <1>1, <1>5 DEF ServerStep, Deletes
  <2>2. QED
    BY <1>1, <1>5, <2>1 DEF Undoes, Becomes, v
<1>6. QED
  BY <1>2, <1>3, <1>4, <1>5 DEF ServerStep

\* An entity nobody follows starts no handler.
LEMMA UnservedSilent ==
  ASSUME NEW e, ~Served(e), inbox \in Seq(Event), NEW kind, NEW change, Send(e, kind, change)
  PROVE  inbox' = inbox
<1>1. {s \in Sources : EntityOf[s] = e} = {}
  BY DEF Served
<1>2. Cardinality({}) = 0
  BY FS_EmptySet, Zenon
<1> DEFINE event == [entity |-> e, kind |-> kind, change |-> change]
<1>3. Handlers(e, event) = [k \in 1..0 |-> event]
  BY <1>1, <1>2, Zenon DEF Handlers
<1> HIDE DEF event
<1>4. inbox' = inbox \o Handlers(e, event)
  BY DEF Send, event
<1>5. [k \in 1..0 |-> event] = <<>>
  OBVIOUS
<1>6. inbox \o <<>> = inbox
  OBVIOUS
<1>7. QED
  BY <1>3, <1>4, <1>5, <1>6
LEMMA StepEvent ==
  ASSUME IInv, EventsInv, NEW e \in Entities, NEW kind, NEW change,
         ServerStep(e, kind, change)
  PROVE  /\ [entity |-> e, kind |-> kind, change |-> change] \in Event
         /\ kind \in {"new", "edit", "reaction", "delete"}
<1>1. /\ posted[e] \in Nat /\ DOMAIN server[e] \subseteq 1..posted[e]
  BY DEF IInv, ServerInv
<1>2. CASE kind = "new"
  <2>1. PICK c : Announces(server[e], server'[e], posted[e] + 1, c, change)
    BY <1>2 DEF ServerStep
  <2> DEFINE i == posted[e] + 1
  <2>2. change = One(i, c) /\ c \in Contents /\ i \in 1..i /\ i \in Nat
    BY <1>1, <2>1 DEF Announces
  <2> HIDE DEF i
  <2>3. QED
    BY <1>2, <2>2, OneEvent
<1>3. CASE kind \in {"edit", "reaction"}
  <2>1. PICK i \in DOMAIN server[e], c \in Contents \cup Reactions :
          change = One(i, c) /\ c \in IF kind = "reaction" THEN Reactions ELSE Contents
    BY <1>3 DEF ServerStep, Rewrites, Reacts
  <2>2. i \in 1..posted[e]
    BY <1>1
  <2>3. QED
    BY <1>1, <1>3, <2>1, <2>2, OneEvent
<1>4. CASE kind = "delete"
  <2>1. change \in SUBSET (1..posted[e])
    BY <1>1, <1>4 DEF ServerStep, Deletes
  <2>2. QED
    BY <1>1, <1>4, <2>1, DeleteEvent
<1>5. QED
  BY <1>2, <1>3, <1>4 DEF ServerStep

\* Events and sources are brought up to date by what is to come.
FInv ==
  /\ EventsUndone(Coming, server)
  /\ SourcesTrack(Coming, server, messages, fetched)

LEMMA TelegramFInv ==
  ASSUME EditsKeepSupport, IInv, DInv, FInv, Telegram PROVE FInv'
<1>1. EventsInv /\ SourcesInv
  BY DEF DInv
<1>2. PICK e \in Entities : \E kind, change : ServerStep(e, kind, change)
  BY <1>1, TelegramSteps
<1>3. PICK kind, change : ServerStep(e, kind, change)
  BY <1>2
<1> DEFINE event == [entity |-> e, kind |-> kind, change |-> change]
           W     == Coming
           W2    == Coming'
           srv   == server
           srv2  == server'
<1>4. event \in Event /\ kind \in {"new", "edit", "reaction", "delete"}
  BY <1>1, <1>3, StepEvent
<1>5. /\ Send(e, kind, change) /\ messages' = messages /\ fetched' = fetched
      /\ queue' = queue
      /\ \A f \in Entities : f # e => srv2[f] = srv[f]
  BY <1>3 DEF ServerStep, Send
<1>6. /\ fetched \subseteq Sources /\ posted \in [Entities -> Nat]
      /\ \A s \in Sources : EntityOf[s] \in Entities
      /\ server[e] \in [DOMAIN server[e] -> Contents]
  BY <1>1, SourcesAssumption DEF IInv, MountInv, ServerInv, EventsInv
<1>7. W \in Seq(Event) /\ \A k \in DOMAIN W : W[k].entity \in Entities
  BY <1>1, ComingEvents DEF Event
<1>8. EventsUndone(W, srv) /\ SourcesTrack(W, srv, messages, fetched)
  BY DEF FInv
<1>9. CASE ~Served(e)
  <2>1. W2 = W
    <3>1. inbox' = inbox
      BY <1>1, <1>5, <1>9, UnservedSilent DEF EventsInv
    <3>2. QED
      BY <1>5, <3>1 DEF Coming
  <2> HIDE DEF W, W2, srv, srv2
  <2>2. \A k \in DOMAIN W : srv2[W[k].entity] = srv[W[k].entity]
    BY <1>5, <1>7, <1>8, <1>9 DEF EventsUndone
  <2>3. \A s \in fetched : srv2[EntityOf[s]] = srv[EntityOf[s]]
    BY <1>5, <1>6, <1>9 DEF Served
  <2>4. EventsUndone(W2, srv2) /\ SourcesTrack(W2, srv2, messages, fetched)
    BY <1>8, <2>1, <2>2, <2>3 DEF EventsUndone, SourcesTrack
  <2>5. QED
    BY <1>5, <2>4 DEF FInv, W2, srv2
<1>10. CASE Served(e)
  <2>1. /\ inbox' \in Seq(Event) /\ SentAfter(W2, W, event)
        /\ \E l \in DOMAIN W2 : l \notin DOMAIN W
    <3>1. Cardinality({s \in Sources : EntityOf[s] = e}) \in Nat
          /\ Cardinality({s \in Sources : EntityOf[s] = e}) > 0
      BY <1>10, SourcesFinite DEF Served
    <3>2. QED
      BY <1>1, <1>4, <1>5, <3>1, SentComing
  <2>2. W2 \in Seq(Event)
    BY <1>1, <1>5, <2>1 DEF Coming, EventsInv
  <2>3. WellShaped(W, posted)
    BY <1>1 DEF EventsInv
  <2>4. event.entity = e /\ event.kind = kind
        /\ AboutIds(event) = IF kind = "delete" THEN change ELSE DOMAIN change
    BY DEF AboutIds
  <2>5. \A i \in AboutIds(event) : \A K : Undoes(event, srv2[e], i, K)
    BY <1>3, StepTells
  <2> HIDE DEF event, W, W2
  <2>6. ASSUME NEW k \in DOMAIN W \cup {0}, NEW i
        PROVE  \/ Moves(srv[e], srv2[e], i, Kinds(W2, k, e, i))
               \/ i = posted[e] + 1 /\ kind = "new" /\ "new" \in Kinds(W2, k, e, i)
    <3>1. i \in AboutIds(event) => kind \in Kinds(W2, k, e, i)
      BY <1>7, <2>1, <2>2, <2>4, KindsSent
    <3>2. IF kind = "delete" THEN i \in change => kind \in Kinds(W2, k, e, i)
          ELSE i \in DOMAIN change => kind \in Kinds(W2, k, e, i)
      BY <2>4, <3>1
    <3>3. QED
      BY <1>3, <1>6, <3>2, StepMoves
  <2>7. \A k \in DOMAIN W \cup {0} : \A f, i : Kinds(W, k, f, i) \subseteq Kinds(W2, k, f, i)
    BY <1>7, <2>1, <2>2, KindsSent
  <2> HIDE DEF srv, srv2
  <2>8. EventsUndone(W2, srv2)
    <3>1. ASSUME NEW k \in DOMAIN W2, k \notin DOMAIN W
          PROVE  /\ Served(W2[k].entity)
                 /\ \A i \in AboutIds(W2[k]) :
                      Undoes(W2[k], srv2[W2[k].entity], i, Kinds(W2, k, W2[k].entity, i))
      <4>1. W2[k] = event
        BY <2>1, <3>1 DEF SentAfter
      <4>2. QED
        BY <1>10, <2>4, <2>5, <4>1
    <3>2. ASSUME NEW k \in DOMAIN W, NEW i \in AboutIds(W[k])
          PROVE  Undoes(W[k], srv2[W[k].entity], i, Kinds(W2, k, W[k].entity, i))
      <4> DEFINE f == W[k].entity
                 v == W[k]
      <4>1. /\ Undoes(v, srv[f], i, Kinds(W, k, f, i)) /\ f \in Entities
            /\ Kinds(W, k, f, i) \subseteq Kinds(W2, k, f, i)
        BY <1>7, <1>8, <2>7 DEF EventsUndone
      <4>2. i \in 1..posted[f]
        BY <2>3 DEF WellShaped, EventShape
      <4> HIDE DEF f, v
      <4>3. CASE f = e
        <5>1. i # posted[e] + 1
          BY <1>6, <4>2, <4>3
        <5>2. Moves(srv[e], srv2[e], i, Kinds(W2, k, e, i))
          BY <2>6, <5>1
        <5>3. Undoes(v, srv2[e], i, Kinds(W2, k, e, i))
          BY <4>1, <4>3, <5>2, MovedOn
        <5>4. QED
          BY <4>3, <5>3 DEF f, v
      <4>4. CASE f # e
        <5>1. srv2[f] = srv[f]
          BY <1>5, <4>1, <4>4
        <5>2. Undoes(v, srv2[f], i, Kinds(W2, k, f, i))
          BY <4>1, <5>1, MoreKinds
        <5>3. QED
          BY <5>2 DEF f, v
      <4>5. QED
        BY <4>3, <4>4
    <3>3. \A k \in DOMAIN W : W2[k] = W[k] /\ Served(W[k].entity)
      BY <1>8, <2>1 DEF SentAfter, EventsUndone
    <3>4. QED
      BY <3>1, <3>2, <3>3 DEF EventsUndone
  <2>9. SourcesTrack(W2, srv2, messages, fetched)
    <3>1. ASSUME NEW s \in fetched, s \in Connected(EntityOf[s]), NEW i \in Nat
          PROVE  Tracks(messages[s], srv2[EntityOf[s]], i, Kinds(W2, 0, EntityOf[s], i))
      <4> DEFINE f == EntityOf[s]
                 m == messages[s]
      <4>1. /\ Tracks(m, srv[f], i, Kinds(W, 0, f, i)) /\ f \in Entities
            /\ Kinds(W, 0, f, i) \subseteq Kinds(W2, 0, f, i)
            /\ DOMAIN m \subseteq 1..posted[f]
        BY <1>1, <1>6, <1>8, <2>7, <3>1 DEF SourcesTrack, SourcesInv, SourceShape
      <4> HIDE DEF f, m
      <4>2. CASE f = e
        <5>1. CASE Moves(srv[e], srv2[e], i, Kinds(W2, 0, e, i))
          <6>1. Tracks(m, srv2[e], i, Kinds(W2, 0, e, i))
            BY <4>1, <4>2, <5>1, MovedOn
          <6>2. QED
            BY <4>2, <6>1 DEF f, m
        <5>2. CASE i = posted[e] + 1 /\ "new" \in Kinds(W2, 0, e, i)
          <6>1. i \notin DOMAIN m
            BY <1>6, <4>1, <4>2, <5>2
          <6>2. Tracks(m, srv2[e], i, Kinds(W2, 0, e, i))
            BY <5>2, <6>1 DEF Tracks
          <6>3. QED
            BY <4>2, <6>2 DEF f, m
        <5>3. QED
          BY <2>6, <5>1, <5>2
      <4>3. CASE f # e
        <5>1. srv2[f] = srv[f]
          BY <1>5, <4>1, <4>3
        <5>2. Tracks(m, srv2[f], i, Kinds(W2, 0, f, i))
          BY <4>1, <5>1, MoreKinds
        <5>3. QED
          BY <5>2 DEF f, m
      <4>4. QED
        BY <4>2, <4>3
    <3>2. QED
      BY <3>1 DEF SourcesTrack
  <2>10. QED
    BY <1>5, <2>8, <2>9 DEF FInv, W2, srv2
<1>11. QED
  BY <1>9, <1>10

-----------------------------------------------------------------------------
(* A source takes an event *)

\* What stays behind is brought up to date by the events behind this one.
LEMMA SameTracks ==
  ASSUME NEW m, NEW m2, NEW now, NEW i, NEW K, i \in DOMAIN m2 <=> i \in DOMAIN m,
         i \in DOMAIN m => m2[i] = m[i], Tracks(m, now, i, K)
  PROVE  Tracks(m2, now, i, K)
BY DEF Tracks

LEMMA AddTracks ==
  ASSUME NEW m, NEW result, NEW j, NEW c, NEW now, NEW i, NEW K,
         AddsTo(m, result, One(j, c)),
         Tracks(m, now, i, K \cup (IF i = j THEN {"new"} ELSE {})),
         i = j => Becomes(c, now, i, K)
  PROVE  Tracks(result.messages, now, i, K)
<1> DEFINE m2 == result.messages
<1>1. /\ DOMAIN m2 = DOMAIN m \cup (IF c \in Supported THEN {j} ELSE {})
      /\ \A l \in DOMAIN m2 : m2[l] = IF l \in DOMAIN m THEN m[l] ELSE c
  BY DEF AddsTo, One
<1> HIDE DEF m2
<1>2. CASE i # j
  <2>1. Tracks(m, now, i, K)
    BY <1>2
  <2>2. QED
    BY <1>1, <1>2, <2>1, SameTracks DEF m2
<1>3. CASE i = j /\ i \in DOMAIN m
  <2>1. Becomes(m[i], now, i, K)
    BY <1>3 DEF Tracks, Becomes
  <2>2. i \in DOMAIN m2 /\ m2[i] = m[i]
    BY <1>1, <1>3
  <2>3. QED
    BY <2>1, <2>2 DEF Tracks, m2
<1>4. CASE i = j /\ i \notin DOMAIN m
  <2>1. Becomes(c, now, i, K)
    BY <1>4
  <2>2. CASE c \in Supported
    <3>1. i \in DOMAIN m2 /\ m2[i] = c
      BY <1>1, <1>4, <2>2
    <3>2. QED
      BY <2>1, <3>1 DEF Tracks, m2
  <2>3. CASE c \notin Supported
    <3>1. i \notin DOMAIN m2
      BY <1>1, <1>4, <2>3
    <3>2. i \in DOMAIN now => now[i] \notin Supported
      BY <2>1, <2>3 DEF Becomes
    <3>3. QED
      BY <3>1, <3>2 DEF Tracks, m2
  <2>4. QED
    BY <2>2, <2>3
<1>5. QED
  BY <1>2, <1>3, <1>4

\* An edit, or a reaction, after which message j has content c.
LEMMA EditTracks ==
  ASSUME NEW m, NEW result, NEW edited, NEW j, NEW c, NEW now, NEW i, NEW K,
         NEW kind \in {"edit", "reaction"}, AllSupported(m),
         EditsIn(m, result, edited), DOMAIN edited = {j}, edited[j] = c,
         Tracks(m, now, i, K \cup (IF i = j THEN {kind} ELSE {})),
         i = j /\ j \in DOMAIN m => Becomes(c, now, i, K)
  PROVE  Tracks(result.messages, now, i, K)
<1> DEFINE m2 == result.messages
<1>1. DOMAIN M!Filtered(edited) \subseteq {j}
  BY FilteredProps
<1>2. /\ DOMAIN m2 = DOMAIN m
      /\ \A l \in DOMAIN m : m2[l] = IF l = j /\ c \in Supported THEN c ELSE m[l]
  BY <1>1 DEF EditsIn
<1> HIDE DEF m2
<1>3. CASE i # j
  <2>1. Tracks(m, now, i, K)
    BY <1>3
  <2>2. QED
    BY <1>2, <1>3, <2>1, SameTracks DEF m2
<1>4. CASE i = j /\ i \notin DOMAIN m
  <2>1. i \in DOMAIN now /\ now[i] \in Supported => "new" \in K
    BY <1>4 DEF Tracks
  <2>2. QED
    BY <1>2, <1>4, <2>1 DEF Tracks, m2
<1>5. CASE i = j /\ i \in DOMAIN m
  <2>1. Becomes(c, now, i, K)
    BY <1>5
  <2>2. CASE c \in Supported
    <3>1. i \in DOMAIN m2 /\ m2[i] = c
      BY <1>2, <1>5, <2>2
    <3>2. QED
      BY <2>1, <3>1 DEF Tracks, m2
  <2>3. CASE c \notin Supported
    <3>1. i \in DOMAIN m2 /\ m2[i] = m[i] /\ m[i] \in Supported
      BY <1>2, <1>5, <2>3 DEF AllSupported
    <3>2. Becomes(m[i], now, i, K \cup {kind})
      BY <1>5 DEF Tracks
    <3>3. i \notin DOMAIN now
      BY <2>1, <2>3, <3>1, <3>2 DEF Becomes
    <3>4. Becomes(m[i], now, i, K)
      BY <3>2, <3>3 DEF Becomes
    <3>5. QED
      BY <3>1, <3>4 DEF Tracks, m2
  <2>4. QED
    BY <2>2, <2>3
<1>6. QED
  BY <1>3, <1>4, <1>5

LEMMA RemoveTracks ==
  ASSUME NEW m, NEW result, NEW ids, NEW now, NEW i, NEW K, RemovesFrom(m, result, ids),
         Tracks(m, now, i, K \cup (IF i \in ids THEN {"delete"} ELSE {})),
         i \in ids => i \notin DOMAIN now
  PROVE  Tracks(result.messages, now, i, K)
<1>1. CASE i \notin ids
  <2>1. Tracks(m, now, i, K)
    BY <1>1
  <2>2. QED
    BY <1>1, <2>1, SameTracks DEF RemovesFrom
<1>2. CASE i \in ids
  BY <1>2 DEF RemovesFrom, Tracks
<1>3. QED
  BY <1>1, <1>2

LEMMA UpdatedTracks ==
  ASSUME EditsKeepSupport, NEW s \in known, NEW n \in Nat, NEW event \in Event,
         SourceShape(messages[s], n), AllSupported(messages[s]), EventShape(event, n),
         NEW now, NEW i, NEW K,
         Tracks(messages[s], now, i,
                K \cup (IF i \in AboutIds(event) THEN {event.kind} ELSE {})),
         i \in AboutIds(event) => Undoes(event, now, i, K)
  PROVE  Tracks(Updated(s, event).messages, now, i, K)
<1> DEFINE old    == messages[s]
           result == Updated(s, event)
           change == event.change
<1>1. event.kind \in {"new", "edit", "reaction", "delete"}
  BY DEF Event
<1>2. CASE event.kind = "new"
  <2>1. result = M!AddMessages(old, change)
    BY <1>2 DEF Updated
  <2>2. PICK j \in 1..n, c \in Contents : change = One(j, c)
    BY <1>2 DEF EventShape
  <2>3. AboutIds(event) = {j} /\ change[j] = c
    BY <1>2, <2>2 DEF AboutIds, One
  <2>4. i = j => Becomes(c, now, i, K)
    BY <1>2, <2>3 DEF Undoes
  <2>5. Tracks(old, now, i, K \cup (IF i = j THEN {"new"} ELSE {}))
    BY <1>2, <2>3
  <2> HIDE DEF result, old, change
  <2>6. SourceShape(old, n)
    BY DEF old
  <2>7. SourceShape(change, n)
    BY <2>2, OneShape
  <2>8. AddsTo(old, result, One(j, c))
    BY <2>1, <2>2, <2>6, <2>7, AddTold
  <2>9. Tracks(result.messages, now, i, K)
    BY <2>4, <2>5, <2>8, AddTracks
  <2>10. QED
    BY <2>9 DEF result
<1>3. CASE event.kind = "delete"
  <2>1. result = M!RemoveMessages(old, change)
    BY <1>3 DEF Updated
  <2>2. AboutIds(event) = change
    BY <1>3 DEF AboutIds
  <2>3. i \in change => i \notin DOMAIN now
    BY <1>3, <2>2 DEF Undoes
  <2>4. Tracks(old, now, i, K \cup (IF i \in change THEN {"delete"} ELSE {}))
    BY <1>3, <2>2
  <2> HIDE DEF result, old
  <2>5. SourceShape(old, n)
    BY DEF old
  <2>6. RemovesFrom(old, result, change)
    BY <2>1, <2>5, RemoveTold
  <2> HIDE DEF change
  <2>7. Tracks(result.messages, now, i, K)
    BY <2>3, <2>4, <2>6, RemoveTracks
  <2>8. QED
    BY <2>7 DEF result
<1>4. CASE event.kind = "edit"
  <2>1. result = M!EditMessages(old, change)
    BY <1>4 DEF Updated
  <2>2. PICK j \in 1..n, c \in Contents : change = One(j, c)
    BY <1>4 DEF EventShape
  <2>3. AboutIds(event) = {j} /\ change[j] = c /\ DOMAIN change = {j}
    BY <1>4, <2>2 DEF AboutIds, One
  <2>4. i = j => Becomes(c, now, i, K)
    BY <1>4, <2>3 DEF Undoes
  <2>5. Tracks(old, now, i, K \cup (IF i = j THEN {"edit"} ELSE {}))
    BY <1>4, <2>3
  <2> HIDE DEF result, old, change
  <2>6. SourceShape(old, n) /\ AllSupported(old)
    BY DEF old
  <2>7. SourceShape(change, n)
    BY <2>2, OneShape
  <2>8. EditsIn(old, result, change)
    BY <2>1, <2>6, <2>7, EditTold
  <2>9. Tracks(result.messages, now, i, K)
    BY <2>3, <2>4, <2>5, <2>6, <2>8, EditTracks
  <2>10. QED
    BY <2>9 DEF result
<1>5. CASE event.kind = "reaction" /\ DOMAIN change \subseteq DOMAIN old
  <2>1. result = M!EditMessages(old, Reacted(old, change))
    BY <1>5 DEF Updated, Reacted
  <2>2. PICK j \in 1..n, r \in Reactions : change = One(j, r)
    BY <1>5 DEF EventShape
  <2>3. AboutIds(event) = {j} /\ change[j] = r /\ j \in DOMAIN old
    BY <1>5, <2>2 DEF AboutIds, One
  <2>4. Tracks(old, now, i, K \cup (IF i = j THEN {"reaction"} ELSE {}))
    BY <1>5, <2>3
  <2>5. i = j => /\ i \notin DOMAIN now => "delete" \in K
                 /\ i \in DOMAIN now =>
                      r = now[i].reaction \/ K \cap {"edit", "reaction"} # {}
    BY <1>5, <2>3 DEF Undoes
  <2> HIDE DEF result, old, change
  <2>6. SourceShape(old, n) /\ AllSupported(old)
    BY DEF old
  <2> DEFINE edited == Reacted(old, change)
             c      == [old[j] EXCEPT !.reaction = r]
  <2>7. /\ SourceShape(edited, n) /\ DOMAIN edited = {j} /\ edited[j] = c
        /\ c.body = old[j].body /\ c.reaction = r
    BY <2>2, <2>3, <2>6, ReactedShape
  <2>8. c \in Supported /\ old[j] \in Supported
    <3>1. old[j] \in Contents /\ old[j] \in Supported
      BY <2>3, <2>6 DEF SourceShape, AllSupported
    <3>2. QED
      BY <3>1 DEF EditsKeepSupport
  <2> HIDE DEF edited, c
  <2>9. EditsIn(old, result, edited)
    BY <2>1, <2>6, <2>7, EditTold DEF edited
  <2>10. i = j => Becomes(c, now, i, K)
    <3>1. i = j => Becomes(old[j], now, i, K \cup {"reaction"})
      BY <2>3, <2>4 DEF Tracks
    <3>2. QED
      BY <2>5, <2>7, <2>8, <3>1 DEF Becomes
  <2>11. Tracks(result.messages, now, i, K)
    BY <2>4, <2>6, <2>7, <2>9, <2>10, EditTracks
  <2>12. QED
    BY <2>11 DEF result
<1>6. CASE event.kind = "reaction" /\ ~(DOMAIN change \subseteq DOMAIN old)
  <2>1. result.messages = old
    BY <1>6 DEF Updated, M!Result
  <2>2. PICK j \in 1..n, r \in Reactions : change = One(j, r)
    BY <1>6 DEF EventShape
  <2>3. AboutIds(event) = {j} /\ j \notin DOMAIN old
    BY <1>6, <2>2 DEF AboutIds, One
  <2>4. Tracks(old, now, i, K \cup (IF i = j THEN {"reaction"} ELSE {}))
    BY <1>6, <2>3
  <2> HIDE DEF result, old
  <2>5. Tracks(old, now, i, K)
    BY <2>3, <2>4 DEF Tracks
  <2>6. QED
    BY <2>1, <2>5 DEF result
<1>7. QED
  BY <1>1, <1>2, <1>3, <1>4, <1>5, <1>6

-----------------------------------------------------------------------------
(* Handlers and mount() *)

\* The last source that was connected to an entity is the only one.
LEMMA ConnectedOne ==
  ASSUME NEW e, NEW s \in Connected(e)
  PROVE  s \in Sources /\ EntityOf[s] = e /\ \A t \in Connected(e) : t = s
<1> DEFINE IsLast(k) ==
      /\ EntityOf[SourceOrder[k]] = e
      /\ \A m \in DOMAIN SourceOrder : k < m => EntityOf[SourceOrder[m]] # e
<1>1. DOMAIN SourceOrder \subseteq Nat
  BY SourcesAssumption
<1>2. \A t \in Connected(e) : \E k \in DOMAIN SourceOrder : t = SourceOrder[k] /\ IsLast(k)
  BY DEF Connected
<1>3. ASSUME NEW k \in DOMAIN SourceOrder, NEW l \in DOMAIN SourceOrder, IsLast(k), IsLast(l)
      PROVE  k = l
  <2>1. ~(k < l) /\ ~(l < k)
    BY <1>3
  <2>2. QED
    BY <1>1, <2>1
<1>4. \A t \in Connected(e) : EntityOf[t] = e
  BY <1>2
<1> HIDE DEF IsLast
<1>5. \A t \in Connected(e) : t = s
  BY <1>2, <1>3
<1>6. QED
  BY <1>4, <1>5, ConnectedAreSources

LEMMA DispatchFInv ==
  ASSUME EditsKeepSupport, IInv, EventsInv, SourcesInv, FInv, NEW w \in Workers,
         Coming # <<>>, Dispatch(w, Head(Coming)), Coming' = Tail(Coming),
         UNCHANGED <<server, posted, fetched>>
  PROVE  FInv'
<1> DEFINE W     == Coming
           W2    == Tail(W)
           event == Head(W)
           e     == event.entity
           srv   == server
<1>1. /\ W \in Seq(Event) /\ W # <<>> /\ InOrder(W) /\ WellShaped(W, posted)
      /\ posted \in [Entities -> Nat] /\ fetched \subseteq known /\ known \subseteq Sources
      /\ DOMAIN messages = Sources
  BY ComingEvents DEF EventsInv, IInv, ServerInv, MountInv, SourceInv
<1>2. PICK s \in Connected(e) :
        messages' = [messages EXCEPT ![s] = Updated(s, event).messages]
  BY DEF Dispatch
<1>3. s \in Sources /\ EntityOf[s] = e /\ \A t \in Connected(e) : t = s
  BY ConnectedOne
<1>4. EventsUndone(W, srv) /\ SourcesTrack(W, srv, messages, fetched)
  BY DEF FInv
<1>5. Coming' = W2 /\ server' = srv /\ posted' = posted /\ fetched' = fetched
  OBVIOUS
<1> HIDE DEF W, srv
<1>6. /\ LeftOf(W2, W) /\ W2 \in Seq(Event) /\ 1 \in DOMAIN W /\ W[1] = event
  BY <1>1, ComingTaken
<1>7. event \in Event /\ EventShape(event, posted[e])
  BY <1>1, FirstEvent
<1>8. \A f, i : /\ Kinds(W, 1, f, i) \subseteq Kinds(W2, 0, f, i)
                /\ Kinds(W, 0, f, i) \subseteq
                     Kinds(W2, 0, f, i) \cup
                       (IF e = f /\ i \in AboutIds(event) THEN {event.kind} ELSE {})
  BY <1>1, KindsTaken
<1>9. \A i \in AboutIds(event) : Undoes(event, srv[e], i, Kinds(W, 1, e, i))
  BY <1>4, <1>6 DEF EventsUndone
<1>10. e \in Entities /\ posted[e] \in Nat
  BY <1>1, <1>7 DEF Event
<1> HIDE DEF W2, event, e
<1>11. EventsUndone(W2, srv)
  BY <1>1, <1>4, <1>6, KindsLeft
<1>12. ASSUME NEW t \in fetched, t \in Connected(EntityOf[t]), NEW i \in Nat
       PROVE  Tracks(messages'[t], srv[EntityOf[t]], i, Kinds(W2, 0, EntityOf[t], i))
  <2> DEFINE f  == EntityOf[t]
             m  == messages[t]
             K0 == Kinds(W, 0, f, i)
             K1 == Kinds(W, 1, f, i)
             K2 == Kinds(W2, 0, f, i)
             more == IF i \in AboutIds(event) THEN {event.kind} ELSE {}
  <2>1. Tracks(m, srv[f], i, K0) /\ t \in Sources /\ t \in known
    BY <1>1, <1>4, <1>12 DEF SourcesTrack
  <2>2. K1 \subseteq K2
    BY <1>8
  <2>3. CASE t = s
    <3>1. f = e /\ t \in known
      BY <1>3, <2>1, <2>3
    <3>2. K0 \subseteq K2 \cup more
      BY <1>8, <3>1
    <3>3. i \in AboutIds(event) => Undoes(event, srv[f], i, K1)
      BY <1>9, <3>1
    <3>4. SourceShape(messages[t], posted[e]) /\ AllSupported(messages[t])
      BY <1>3, <2>3 DEF SourcesInv, IInv, SourceInv
    <3>5. messages'[t] = Updated(t, event).messages
      BY <1>1, <1>2, <1>3, <2>3 DEF event, e
    <3> DEFINE now == srv[f]
    <3> HIDE DEF f, K0, K1, K2, now
    <3>6. i \in AboutIds(event) => Undoes(event, now, i, K2)
      BY <2>2, <3>3, MoreKinds DEF now
    <3>7. Tracks(messages[t], now, i, K2 \cup more)
      BY <2>1, <3>2, MoreKinds DEF now
    <3>8. Tracks(Updated(t, event).messages, now, i, K2)
      BY <1>7, <1>10, <3>1, <3>4, <3>6, <3>7, UpdatedTracks
    <3>9. QED
      BY <3>5, <3>8 DEF f, K2, now
  <2>4. CASE t # s
    <3>1. f # e
      BY <1>3, <1>12, <2>4
    <3>2. K0 \subseteq K2
      BY <1>8, <3>1
    <3>3. messages'[t] = m
      BY <1>1, <1>2, <1>3, <2>1, <2>4 DEF event, e
    <3> HIDE DEF f, K0, K1, K2, m
    <3>4. Tracks(m, srv[f], i, K2)
      BY <2>1, <3>2, MoreKinds
    <3>5. QED
      BY <3>3, <3>4 DEF f, K2
  <2>5. QED
    BY <2>3, <2>4
<1>13. SourcesTrack(W2, srv, messages', fetched)
  BY <1>12 DEF SourcesTrack
<1>14. QED
  BY <1>5, <1>11, <1>13 DEF FInv

LEMMA HandleFInv ==
  ASSUME EditsKeepSupport, IInv, DInv, FInv, Handle, ~overlapped' PROVE FInv'
<1>1. EventsInv /\ PhaseInv /\ SourcesInv
  BY DEF DInv
<1>2. queue \in Seq(Event) /\ inbox \in Seq(Event)
  BY <1>1 DEF EventsInv
<1>3. /\ phase # "aborted" /\ control = "none" /\ inbox # <<>> /\ inbox' = Tail(inbox)
      /\ UNCHANGED <<server, posted, fetched>> /\ job["live"] = Idle
  BY DEF Handle, world
<1>4. CASE paused /\ queue' = Queued(queue, Head(inbox))
           /\ UNCHANGED <<known, messages, job, control, overlapped>>
  <2>1. /\ inbox' \in Seq(Event) /\ queue' \in Seq(Event)
        /\ LeftOf(queue' \o inbox', queue \o inbox)
        /\ NoneLost(queue' \o inbox', queue \o inbox)
    BY <1>2, <1>3, <1>4, ComingMoved
  <2> DEFINE W  == Coming
             W2 == Coming'
  <2>2. W \in Seq(Event) /\ W2 \in Seq(Event) /\ LeftOf(W2, W) /\ NoneLost(W2, W)
    BY <1>2, <2>1 DEF Coming
  <2>3. EventsUndone(W, server) /\ SourcesTrack(W, server, messages, fetched)
    BY DEF FInv
  <2> HIDE DEF W, W2
  <2>4. EventsUndone(W2, server)
    BY <2>2, <2>3, KindsLeft
  <2>5. \A e, i : Kinds(W, 0, e, i) \subseteq Kinds(W2, 0, e, i)
    BY <2>2, KindsMoved
  <2>6. SourcesTrack(W2, server, messages, fetched)
    <3>1. ASSUME NEW s \in fetched, s \in Connected(EntityOf[s]), NEW i \in Nat
          PROVE  Tracks(messages[s], server[EntityOf[s]], i, Kinds(W2, 0, EntityOf[s], i))
      <4> DEFINE K  == Kinds(W, 0, EntityOf[s], i)
                 K2 == Kinds(W2, 0, EntityOf[s], i)
      <4>1. Tracks(messages[s], server[EntityOf[s]], i, K) /\ K \subseteq K2
        BY <2>3, <2>5, <3>1 DEF SourcesTrack
      <4> HIDE DEF K, K2
      <4>2. Tracks(messages[s], server[EntityOf[s]], i, K2)
        BY <4>1, MoreKinds
      <4>3. QED
        BY <4>2 DEF K2
    <3>2. QED
      BY <3>1 DEF SourcesTrack
  <2>7. QED
    BY <1>3, <1>4, <2>4, <2>6 DEF FInv, W2
<1>5. CASE ~paused /\ Dispatch("live", Head(inbox)) /\ UNCHANGED queue
  <2>1. "live" \in Workers /\ "resume" \in Workers \ {"live"}
    BY DEF Workers
  <2>2. job["resume"] = Idle
    BY <1>5, <2>1, DispatchJobs
  <2>3. queue = <<>>
    <3>1. phase \in {"resuming", "mounted"}
      BY <1>3, <1>5 DEF IInv, MountInv
    <3>2. QED
      BY <1>1, <1>3, <2>2, <3>1 DEF PhaseInv
  <2>4. Coming = inbox /\ Coming' = Tail(inbox)
    BY <1>2, <1>3, <1>5, <2>3 DEF Coming
  <2>5. QED
    BY <1>1, <1>3, <1>5, <2>1, <2>4, DispatchFInv
<1>6. QED
  BY <1>4, <1>5 DEF Handle

LEMMA ReplayFInv == ASSUME EditsKeepSupport, IInv, DInv, FInv, Replay PROVE FInv'
<1>1. EventsInv /\ SourcesInv
  BY DEF DInv
<1>2. queue \in Seq(Event) /\ inbox \in Seq(Event)
  BY <1>1 DEF EventsInv
<1>3. /\ queue # <<>> /\ queue' = Tail(queue) /\ inbox' = inbox
      /\ Dispatch("resume", Head(queue)) /\ UNCHANGED <<server, posted, fetched>>
  BY DEF Replay, world
<1>4. Coming # <<>> /\ Head(Coming) = Head(queue) /\ Coming' = Tail(Coming)
  <2>1. /\ queue \o inbox # <<>> /\ Head(queue \o inbox) = Head(queue)
        /\ Tail(queue) \o inbox = Tail(queue \o inbox)
    BY <1>2, <1>3, ComingReplayed
  <2>2. QED
    BY <1>3, <2>1 DEF Coming
<1>5. "resume" \in Workers
  BY DEF Workers
<1>6. QED
  BY <1>1, <1>3, <1>4, <1>5, DispatchFInv

\* A source that is fetched has the messages as they are; events that are still
\* to come have nothing to undo in it.
LEMMA FetchFInv == ASSUME IInv, FInv, NEW s \in Sources, Fetch(s) PROVE FInv'
<1>1. /\ phase = "starting" /\ s \notin fetched /\ fetched' = fetched \cup {s}
      /\ messages' = [messages EXCEPT ![s] =
                        M!SetMessages(s \in known, @, server[EntityOf[s]])]
      /\ UNCHANGED <<server, queue, inbox>>
  BY DEF Fetch, world
<1>2. s \notin known /\ DOMAIN messages = Sources /\ fetched \subseteq Sources
  BY <1>1 DEF IInv, MountInv, SourceInv
<1> DEFINE F == M!Filtered(server[EntityOf[s]])
<1>3. messages' = [messages EXCEPT ![s] = F]
  BY <1>1, <1>2 DEF M!SetMessages
<1>4. \A i, K : Tracks(F, server[EntityOf[s]], i, K)
  BY FilteredProps DEF Tracks, Becomes
<1> HIDE DEF F
<1>5. \A t \in Sources : messages'[t] = IF t = s THEN F ELSE messages[t]
  BY <1>2, <1>3
<1>6. EventsUndone(Coming, server) /\ SourcesTrack(Coming, server, messages, fetched)
  BY DEF FInv
<1>7. Coming' = Coming /\ server' = server
  BY <1>1 DEF Coming
<1>8. SourcesTrack(Coming, server, messages', fetched')
  BY <1>1, <1>2, <1>4, <1>5, <1>6 DEF SourcesTrack
<1>9. QED
  BY <1>6, <1>7, <1>8 DEF FInv

LEMMA QuietFInv ==
  ASSUME FInv, UNCHANGED <<server, queue, inbox, messages, fetched>> PROVE FInv'
<1>1. Coming' = Coming
  BY DEF Coming
<1>2. QED
  BY <1>1 DEF FInv

LEMMA MountingFInv == ASSUME EditsKeepSupport, IInv, DInv, FInv, Mounting PROVE FInv'
<1>1. CASE \E s \in Sources : Fetch(s)
  BY <1>1, FetchFInv
<1>2. CASE Replay
  BY <1>2, ReplayFInv
<1>3. CASE (\E d \in Dirs : Produce(d) \/ FailProduce(d)) \/ Resume \/ Mount
  <2>1. UNCHANGED <<server, queue, inbox, messages, fetched>>
    BY <1>3 DEF Produce, FailProduce, Resume, Mount, world
  <2>2. QED
    BY <2>1, QuietFInv
<1>4. QED
  BY <1>1, <1>2, <1>3 DEF Mounting

LEMMA WorkingFInv == ASSUME FInv, NEW w \in Workers, Working(w) PROVE FInv'
<1>1. UNCHANGED <<server, queue, inbox, messages, fetched>>
  BY DEF Working, Notify, Wake, Fail, Return, world
<1>2. QED
  BY <1>1, QuietFInv

\* All of this is about runs in which two events were never under way at a time.
HInv == GInv /\ (~overlapped => FInv)

LEMMA InitHInv == Init => HInv
<1> SUFFICES ASSUME Init PROVE HInv
  OBVIOUS
<1>1. queue = <<>> /\ inbox = <<>> /\ fetched = {}
  BY DEF Init
<1>2. Coming = <<>> /\ DOMAIN Coming = {}
  BY <1>1 DEF Coming
<1>3. FInv
  BY <1>1, <1>2 DEF FInv, EventsUndone, SourcesTrack
<1>4. QED
  BY <1>3, InitGInv DEF HInv

LEMMA NextHInv == ASSUME EditsKeepSupport PROVE HInv /\ [Next]_vars => HInv'
<1> SUFFICES ASSUME HInv, [Next]_vars PROVE HInv'
  OBVIOUS
<1>1. GInv /\ GInv' /\ IInv
  BY NextGInv DEF HInv, GInv
<1>2. ASSUME Next, ~overlapped' PROVE FInv'
  <2>1. DInv /\ FInv
    BY <1>2, OverlapStays DEF HInv, GInv
  <2>2. CASE Telegram
    BY <1>1, <2>1, <2>2, TelegramFInv
  <2>3. CASE Mounting
    BY <1>1, <2>1, <2>3, MountingFInv
  <2>4. CASE Handle
    BY <1>1, <1>2, <2>1, <2>4, HandleFInv
  <2>5. CASE \E w \in Workers : Working(w)
    BY <2>1, <2>5, WorkingFInv
  <2>6. QED
    BY <1>2, <2>2, <2>3, <2>4, <2>5 DEF Next
<1>3. ASSUME UNCHANGED vars, ~overlapped' PROVE FInv'
  <2>1. /\ overlapped' = overlapped
        /\ UNCHANGED <<server, queue, inbox, messages, fetched>>
    BY <1>3 DEF vars, world, history
  <2>2. FInv
    BY <1>3, <2>1 DEF HInv
  <2>3. QED
    BY <2>1, <2>2, QuietFInv
<1>4. QED
  BY <1>1, <1>2, <1>3 DEF HInv

\* With no event to come, a source has what is there and can be a file.
LEMMA TrackedMessages ==
  ASSUME NEW m, NEW now, NEW n \in Nat, SourceShape(m, n), AllSupported(m),
         now \in [DOMAIN now -> Contents], DOMAIN now \subseteq Nat,
         \A i \in Nat : Tracks(m, now, i, {})
  PROVE  m = M!Filtered(now)
<1>1. ASSUME NEW i \in DOMAIN m
      PROVE  i \in DOMAIN now /\ now[i] \in Supported /\ m[i] = now[i]
  <2>1. Becomes(m[i], now, i, {}) /\ m[i] \in Contents /\ m[i] \in Supported
    BY DEF Tracks, SourceShape, AllSupported
  <2>2. /\ i \in DOMAIN now /\ m[i].body = now[i].body /\ m[i].reaction = now[i].reaction
        /\ now[i] \in Supported /\ now[i] \in Contents
    BY <2>1 DEF Becomes
  <2>3. m[i] = now[i]
    BY <2>1, <2>2 DEF Contents
  <2>4. QED
    BY <2>2, <2>3
<1>2. \A i \in DOMAIN now : now[i] \in Supported => i \in DOMAIN m
  BY DEF Tracks
<1> DEFINE D == DOMAIN M!Filtered(now)
<1>3. D = {i \in DOMAIN now : now[i] \in Supported} /\ M!Filtered(now) = [i \in D |-> now[i]]
  BY FilteredProps
<1> HIDE DEF D
<1>4. DOMAIN m = D
  BY <1>1, <1>2, <1>3
<1>5. m = [i \in DOMAIN m |-> m[i]]
  BY DEF SourceShape
<1>6. QED
  BY <1>1, <1>3, <1>4, <1>5

LEMMA HInvFollows == HInv => ConnectedSourcesFollow
<1> SUFFICES ASSUME HInv, Settled, ~overlapped, NEW e \in Entities, NEW s \in Connected(e)
             PROVE  messages[s] = M!Filtered(server[e])
  BY DEF ConnectedSourcesFollow
<1>1. IInv /\ EventsInv /\ PhaseInv /\ SourcesInv /\ FInv
  BY DEF HInv, GInv, DInv
<1>2. fetched = Sources /\ queue = <<>> /\ inbox = <<>>
  BY <1>1 DEF Settled, PhaseInv
<1>3. Coming = <<>> /\ DOMAIN Coming = {}
  BY <1>2 DEF Coming
<1>4. s \in Sources /\ EntityOf[s] = e
  BY ConnectedOne
<1> DEFINE m   == messages[s]
           now == server[e]
<1>5. \A i \in Nat : Tracks(m, now, i, {})
  <2>1. \A i : Kinds(Coming, 0, e, i) = {}
    BY <1>3 DEF Kinds
  <2>2. QED
    BY <1>1, <1>2, <1>4, <2>1 DEF FInv, SourcesTrack
<1>6. SourceShape(m, posted[e]) /\ posted[e] \in Nat /\ AllSupported(m)
  BY <1>1, <1>4 DEF SourcesInv, IInv, ServerInv, SourceInv
<1>7. now \in [DOMAIN now -> Contents] /\ DOMAIN now \subseteq Nat
  BY <1>1, <1>6 DEF EventsInv, IInv, ServerInv
<1> HIDE DEF m, now
<1>8. m = M!Filtered(now)
  BY <1>5, <1>6, <1>7, TrackedMessages
<1>9. QED
  BY <1>8 DEF m, now

\* When nothing is under way any more, the source connected to an entity has
\* the messages of the entity that a file can be made of: whatever was posted,
\* edited and removed while mount() fetched, produced and replayed.  Edits that
\* make or end that a file can be made of a message are set aside: edit_messages
\* drops them (message_source.py:77).
THEOREM SourcesFollow == ASSUME EditsKeepSupport PROVE Spec => []ConnectedSourcesFollow
<1>1. Init => HInv
  BY InitHInv
<1>2. HInv /\ [Next]_vars => HInv'
  BY NextHInv
<1>3. HInv => ConnectedSourcesFollow
  BY HInvFollows
<1>4. Spec => []HInv
  BY <1>1, <1>2, PTL DEF Spec
<1>5. QED
  BY <1>3, <1>4, PTL
=============================================================================
