------------------------------- MODULE Filters -------------------------------
(***************************************************************************)
(* The filters of a config (tgmount/filters.py, provider_filters.py): how  *)
(* a name and its argument become a filter, and which messages of a list a *)
(* filter lets through.                                                    *)
(*                                                                         *)
(* A filter takes a whole list, so that what it does to a message can      *)
(* depend on the others.  Applying it to a list that a filter before it    *)
(* raised on gives Error again.                                            *)
(***************************************************************************)
EXTENDS Guards, ConfigReader

\* telegram_filters_to_filter_type: the classes a message is one of.
TelegramFilters ==
  [InputMessagesFilterPhotos     |-> {"MessageWithCompressedPhoto"},
   InputMessagesFilterVideo      |-> {"MessageWithVideo"},
   InputMessagesFilterPhotoVideo |-> {"MessageWithCompressedPhoto", "MessageWithVideo"},
   InputMessagesFilterDocument   |-> {"MessageWithOtherDocument", "MessageWithDocumentImage"},
   InputMessagesFilterGif        |-> {"MessageWithAnimated"},
   InputMessagesFilterVoice      |-> {"MessageWithVoice"},
   InputMessagesFilterMusic      |-> {"MessageWithMusic"},
   InputMessagesFilterRoundVoice |-> {"MessageWithKruzhochek", "MessageWithVoice"},
   InputMessagesFilterRoundVideo |-> {"MessageWithKruzhochek"}]

\* Guards as filters: the names of the classifier and those of Telegram.
GuardClasses(name) ==
  IF name \in DOMAIN TelegramFilters THEN TelegramFilters[name] ELSE {name}

\* ClassifierDefault.classes_dict
ClassNames == DOMAIN Guard(MessageProto(0, {}, 0, "", <<>>))

GuardFilters == DOMAIN TelegramFilters \cup ClassNames

Filter(name, arg, of) == [name |-> name, arg |-> arg, of |-> of]

-----------------------------------------------------------------------------
(* from_config *)

RECURSIVE ParseFilters(_), FromConfig(_, _)

\* The filters of a list of names and arguments (_parse_filter).
ParseFilters(items) ==
  IF items = Error THEN Error ELSE
  LET filters == [k \in DOMAIN items |-> FromConfig(items[k][1], items[k][2])]
  IN  IF AnyError(filters) THEN Error ELSE filters

\* FilterProviderBase.get and the from_config of the class it returns.  First
\* makes a filter of the class Last.
FromConfig(name, arg) ==
  CASE name \in {"Not", "Union", "And", "Seq"} ->
         LET of == ParseFilters(ParseFilterValue(arg))
         IN  IF of = Error THEN Error ELSE Filter(name, Null, of)
    [] name \in {"First", "Last"} -> Filter("Last", arg, <<>>)
    [] name = "OnlyUniqueDocs" ->
         IF arg = Null THEN Filter(name, Str("first"), <<>>)
         ELSE IF /\ Type(arg) = "mapping"
                 /\ Get(Data(arg), "picker") \in {Str("first"), Str("last")}
              THEN Filter(name, Data(arg)["picker"], <<>>)
              ELSE Error
    [] name = "ByReaction" ->
         IF Type(arg) = "mapping" /\ Get(Data(arg), "reaction") # Null
         THEN Filter(name, arg, <<>>) ELSE Error
    [] name \in {"All", "ByExtension"} \cup GuardFilters -> Filter(name, arg, <<>>)
    [] OTHER -> Error

-----------------------------------------------------------------------------
(* filter *)

\* OnlyUniqueDocs.filter: one message per document, in the order in which the
\* documents appear, then the messages that have none, each as often as it came.
UniqueDocs(ms, picker) ==
  LET down     == SelectSeq(ms, MessageDownloadable)
      others   == SelectSeq(ms, LAMBDA m : ~MessageDownloadable(m))
      fresh(k) == \A l \in 1..(k - 1) : down[l].doc # down[k].doc
      order    == SetToSortSeq({k \in DOMAIN down : fresh(k)}, <)
      same(k)  == {m \in Range(down) : m.doc = down[k].doc}
      picked(k) == CHOOSE m \in same(k) : \A n \in same(k) :
                     IF picker = "first" THEN m.id <= n.id ELSE n.id <= m.id
  IN  [k \in DOMAIN order |-> picked(order[k])] \o others

\* list(messages)[-count:]: a count of 0 keeps all, a negative one drops the
\* first ones, and a slice by anything but an int raises.
LastOf(ms, count) ==
  IF ~IsInt(count) THEN Error
  ELSE LET n == IntOf(count)
           first == IF n <= 0 THEN 1 - n ELSE IF n > Len(ms) THEN 1 ELSE Len(ms) - n + 1
       IN  SubSeq(ms, first, Len(ms))

ByReaction(ms, props) ==
  LET minimum == IF "minimum" \in DOMAIN props THEN props["minimum"] ELSE Num(1)
      reacted(m) == /\ MessageWithReactions(m)
                    /\ props["reaction"] \in {Str(r) : r \in DOMAIN m.reactions}
      enough(m)  == reacted(m) /\ IntOf(minimum) <= m.reactions[Data(props["reaction"])]
  IN  IF ~IsInt(minimum) /\ (\E m \in Range(ms) : reacted(m)) THEN Error
      ELSE SelectSeq(ms, enough)

RECURSIVE Apply(_, _), Chain(_, _)

\* Each filter filters what the one before it let through.
Chain(filters, ms) ==
  FoldLeft(LAMBDA passed, f : IF passed = Error THEN Error ELSE Apply(f, passed),
           ms, filters)

Apply(f, ms) ==
  LET each == [k \in DOMAIN f.of |-> Apply(f.of[k], ms)]
  IN  CASE f.name = "All" -> ms
        [] f.name = "Seq" -> Chain(f.of, ms)
        [] f.name = "Not" ->
             LET passed == Chain(f.of, ms)
             IN  IF passed = Error THEN Error
                 ELSE SelectSeq(ms, LAMBDA m : m \notin Range(passed))
        [] f.name = "Union" ->
             IF AnyError(each) THEN Error ELSE UniqueDocs(FlattenSeq(each), "first")
        [] f.name = "And" ->
             IF AnyError(each) THEN Error
             ELSE IF f.of = <<>> THEN ms
             ELSE UniqueDocs(SelectSeq(each[1], LAMBDA m :
                               \A k \in DOMAIN each : m \in Range(each[k])), "first")
        [] f.name = "Last" -> LastOf(ms, f.arg)
        [] f.name = "OnlyUniqueDocs" -> UniqueDocs(ms, Data(f.arg))
        [] f.name = "ByExtension" ->
             SelectSeq(ms, LAMBDA m : MessageWithFilename(m) /\ Str(m.ext) = f.arg)
        [] f.name = "ByReaction" -> ByReaction(ms, Data(f.arg))
        [] f.name \in GuardFilters ->
             SelectSeq(ms, LAMBDA m : \E c \in GuardClasses(f.name) : Guard(m)[c])
=============================================================================
