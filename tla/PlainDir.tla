------------------------------ MODULE PlainDir ------------------------------
(***************************************************************************)
(* A directory with one file per message: what VfsTreeProducerPlainDir     *)
(* makes of a notice of its source, and what that does to the items of the *)
(* VfsTreeDir (tgmount/vfs_tree.py).                                       *)
(*                                                                         *)
(* A file is the message it was made of.  Its name starts with the message *)
(* id, so that the item an update replaces is found by the id.             *)
(***************************************************************************)
EXTENDS Functions, SequencesExt

CONSTANT Texts   \* contents whose file waits for the sender's name to be fetched

File(i, c) == [id |-> i, content |-> c]

\* The files of messages, in some order (the code follows a Python set).
FilesOf(messages) ==
  SetToSeq({File(i, messages[i]) : i \in DOMAIN messages})

Matching(messages, wanted) == RestrictValues(messages, LAMBDA c : c \in wanted)

\* The ids of the messages that pass filters which look at one message only.
PassingIds(messages, wanted) == SetToSeq(DOMAIN Matching(messages, wanted))

\* update_new_messages, update_edited_messages and update_removed_messages up
\* to the first file they produce.  "files" is _message_to_file, "passing" what
\* apply_filters makes of the new messages: a filter can let a message through
\* twice, and only an edit goes through a dictionary then.  A removed message
\* stays in _message_to_file, one that an edit filtered out does not.
Plan(notice, files, passing) ==
  LET old     == Restrict(files, DOMAIN notice.old \cap DOMAIN files)
      passed  == ToSet(passing)
      added   == IF notice.kind = "new" THEN passing ELSE SetToSeq(passed \ DOMAIN old)
      gone    == DOMAIN old \ passed
  IN  [add    |-> [k \in DOMAIN added |-> File(added[k], notice.new[added[k]])],
       update |-> Restrict(notice.new, passed \cap DOMAIN old),
       remove |-> Restrict(old, gone),
       prune  |-> IF notice.kind = "edited" THEN gone ELSE {}]

\* Producing the files of a plan waits for the network at least once.
Waits(plan) ==
  \/ \E k \in DOMAIN plan.add : plan.add[k].content \in Texts
  \/ \E i \in DOMAIN plan.update : plan.update[i] \in Texts

\* The files that are added, by their ids.
Added(plan) ==
  [i \in {plan.add[k].id : k \in DOMAIN plan.add} |->
     (CHOOSE f \in ToSet(plan.add) : f.id = i).content]

\* Variant: the dictionary forgets the files that were updated.
FilesForgettingUpdated(files, plan) ==
  LET added == Added(plan)
  IN  [i \in (DOMAIN files \cup DOMAIN added) \ plan.prune |->
         IF i \in DOMAIN added THEN added[i] ELSE files[i]]

\* _message_to_file once the files of the plan are produced.
FilesAfter(files, plan) ==
  LET added == Added(plan)
  IN  [i \in (DOMAIN files \cup DOMAIN added \cup DOMAIN plan.update) \ plan.prune |->
         IF i \in DOMAIN added THEN added[i]
         ELSE IF i \in DOMAIN plan.update THEN plan.update[i]
         ELSE files[i]]

\* remove_content for each file: list.remove takes the first equal item.
Dropped(items, files) == FoldLeft(RemoveFirst, items, files)

\* update_content: the items with an updated name are replaced.
Replaced(items, update) ==
  [k \in DOMAIN items |->
     IF items[k].id \in DOMAIN update
     THEN File(items[k].id, update[items[k].id]) ELSE items[k]]

\* remove_items_from_vfs_dir, add_items_to_vfs_tree, update_items_in_vfs_tree.
ItemsAfter(items, plan) ==
  Replaced(Dropped(items, FilesOf(plan.remove)) \o plan.add, plan.update)
=============================================================================
