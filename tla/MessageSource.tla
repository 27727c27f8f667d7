--------------------------- MODULE MessageSource ---------------------------
(***************************************************************************)
(* The messages of a source (tgclient/message_source.py) and the           *)
(* collection that keeps them (tgclient/messages_collection.py).           *)
(*                                                                         *)
(* A collection is a function from message ids to contents.  What a        *)
(* listener of the source is told is a notice: the messages before and     *)
(* after, so that a new message has no "old" and a removed one no "new".   *)
(***************************************************************************)
EXTENDS Functions

CONSTANT Supported   \* contents a file can be made of (file_factory.supports)

Empty == <<>>

Ids(messages) == DOMAIN messages

Without(messages, ids) == Restrict(messages, Ids(messages) \ ids)

\* MessagesCollection.add_messages(overwright=True)
Overwritten(messages, others) ==
  [i \in Ids(messages) \cup Ids(others) |->
     IF i \in Ids(others) THEN others[i] ELSE messages[i]]

\* MessagesCollection.add_messages: a message that is there already is kept.
Extended(messages, others) == Overwritten(others, messages)

Filtered(messages) == RestrictValues(messages, LAMBDA c : c \in Supported)

Notice(kind, old, new) == [kind |-> kind, old |-> old, new |-> new]

NoNotice == Notice("none", Empty, Empty)

Result(messages, notice) == [messages |-> messages, notice |-> notice]

\* set_messages(notify=False): a source that has no messages yet keeps the
\* filtered ones; one that has takes them unfiltered, if the ids differ.
SetMessages(known, messages, fetched) ==
  IF ~known THEN Filtered(fetched)
  ELSE IF Ids(Filtered(fetched)) = Ids(messages) THEN messages
  ELSE fetched

\* add_messages: what is there already is not announced again.
AddMessages(messages, others) ==
  LET diff == Without(Filtered(others), Ids(messages))
  IN  Result(Extended(messages, diff),
             IF Ids(diff) = {} THEN NoNotice ELSE Notice("new", Empty, diff))

\* An edit counts only if all the messages of it that pass the filter are there.
EditMessages(messages, edited) ==
  LET filtered == Filtered(edited)
  IN  IF Ids(filtered) \subseteq Ids(messages)
      THEN Result(Overwritten(messages, filtered),
                  Notice("edited", Restrict(messages, Ids(filtered)), filtered))
      ELSE Result(messages, NoNotice)

\* remove_messages: the listeners are told of the messages as they were given.
RemoveGiven(messages, given) ==
  Result(Without(messages, Ids(given)),
         Notice("removed", Restrict(given, Ids(given) \cap Ids(messages)), Empty))

\* remove_messages_ids: ids that are not there are skipped.
RemoveMessages(messages, ids) ==
  Result(Without(messages, ids),
         Notice("removed", Restrict(messages, ids \cap Ids(messages)), Empty))
=============================================================================
