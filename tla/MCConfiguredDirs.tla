-------------------------- MODULE MCConfiguredDirs --------------------------
(***************************************************************************)
(* ConfiguredDirs on configs of a root with one or two subdirectories, of  *)
(* which the first can have one of its own.  The properties of each are    *)
(* taken from menus: short and long spellings, names that are missing, and *)
(* filters of every kind.                                                  *)
(***************************************************************************)
EXTENDS ConfiguredDirs

With(f, g) == [k \in DOMAIN f \cup DOMAIN g |-> IF k \in DOMAIN f THEN f[k] ELSE g[k]]

Yes == Bool(TRUE)

MCByteCounts == [s \in {"1MB"} |-> 1048576]

-----------------------------------------------------------------------------
(* Messages *)

Body(has, copy, ext, reactions) ==
  [has |-> has, copy |-> copy, ext |-> ext, reactions |-> reactions]

TextBody  == Body({"text"}, FALSE, "", <<>>)
LikedText == Body({"text", "reactions"}, FALSE, "", [r \in {"like"} |-> 2])
Photo     == Body({"photo"}, FALSE, ".jpg", <<>>)
Document  == Body({"document", "name", "text"}, FALSE, ".pdf", <<>>)
Copy      == Body({"document", "name", "forward"}, TRUE, ".zip", <<>>)
Bare      == Body({}, FALSE, "", <<>>)

MCBodies == {TextBody, LikedText, Photo, Document, Copy, Bare}

\* Texts get reactions and lose them, and become documents and back.
MCEdits ==
  {<<TextBody, Document>>, <<Document, TextBody>>, <<Photo, Document>>,
   <<TextBody, LikedText>>, <<LikedText, TextBody>>}

-----------------------------------------------------------------------------
(* Configs *)

Recursive(prop, value) == Map(prop :> value @@ [recursive |-> Yes])

Overwriting(name) ==
  Map([filter |-> Str(name), overwright |-> Yes, recursive |-> Yes])

Client == Map([session |-> Str("tgmount"), api_id |-> Num(1), api_hash |-> Str("hash")])

Entity(name) == Map([entity |-> Str(name)])

Config(root, sources, caches) ==
  [client          |-> Client,
   message_sources |-> Map(sources),
   caches          |-> Map(caches),
   root            |-> Map(root)]

Sources == [s1 |-> Entity("chat"), s2 |-> Entity("channel")]

Memory == [type |-> Str("memory"), capacity |-> Str("1MB")]

Caches == [memory1 |-> Map(Memory)]

\* What the root says of itself.
RootProps ==
  {[source |-> Recursive("source", Str("s1"))],
   [source |-> Recursive("source", Str("s1")),
    filter |-> Recursive("filter", Str("MessageDownloadable"))],
   [source |-> Str("s1"),
    filter |-> Recursive("filter", List(<<Map([Not |-> Str("MessageWithText")])>>))]}

\* What the first subdirectory says: every way to be produced or not, then
\* what the walk refuses.
MiddleProps ==
  {<<>>,
   [filter |-> Str("MessageWithText")],
   [filter |-> Recursive("filter", Str("MessageWithDocument"))],
   [filter |-> Map([filter |-> Str("MessageWithText"), overwright |-> Yes])],
   [producer |-> Str("PlainDir"), filter |-> Recursive("filter", Str("MessageWithText"))],
   [source |-> Recursive("source", Str("s2")), filter |-> Str("All")],
   [source |-> Str("s2")],
   [filter |-> Str("All"), cache |-> Map(Memory), treat_as |-> Str("MessageWithText")],
   [filter |-> Str("MessageDownloadable"), cache |-> Str("memory1")],
   [filter |-> Str("NoSuchFilter")],
   [filter |-> Str("All"), cache |-> Str("memory2")],
   [producer |-> Map([NoSuchProducer |-> Null])],
   [wrappers |-> Str("NoSuchWrapper")],
   [filter |-> Map([First |-> Map([count |-> Num(1)])])]}

InnerProps ==
  {[filter |-> Str("All")],
   [producer |-> Str("PlainDir")],
   [source |-> Str("s1"), filter |-> Str("MessageWithCompressedPhoto")]}

Nested ==
  {Config(With(root, [a |-> Map(With(middle, [b |-> Map(inner)])), c |-> Map(other)]),
          Sources, Caches) :
     root \in RootProps, middle \in MiddleProps, inner \in InnerProps,
     other \in {[filter |-> Str("All")]}}

\* One directory with a filter.
FilterValues ==
  {List(<<Str("MessageWithText"), Map([Not |-> Str("MessageWithDocument")])>>),
   Map([Union |-> List(<<Str("MessageWithCompressedPhoto"), Str("MessageWithDocument")>>)]),
   Map([And |-> List(<<Str("MessageWithText"), Map([ByExtension |-> Str(".pdf")])>>)]),
   Map([ByReaction |-> Map([reaction |-> Str("like"), minimum |-> Num(2)])]),
   Map([ByReaction |-> Map([reaction |-> Str("like"), minimum |-> Str("2")])]),
   Map([Union |-> List(<<Str("MessageWithText"), Str("MessageWithReactions")>>)]),
   Map([OnlyUniqueDocs |-> Map([picker |-> Str("last")])]),
   Map([Seq |-> List(<<Str("OnlyUniqueDocs"), Map([Last |-> Num(1)])>>)])}

Flat ==
  {Config([source |-> Str("s1"), filter |-> value], [s1 |-> Entity("chat")], <<>>) :
     value \in FilterValues}

\* One source with a filter of Telegram, and one that is not followed.
Narrow ==
  {Config([source |-> Str("s1")], [s1 |-> Map(entity)], <<>>) :
     entity \in {[entity |-> Str("chat"), filter |-> Str("InputMessagesFilterDocument")],
                [entity |-> Str("chat"), updates |-> Bool(FALSE)]}}

\* What the reader refuses, and a source that the fetcher does.
Refused ==
  {Config([a |-> Null], Sources, Caches),
   Config([source |-> Str("s1"), filter |-> Map([filter |-> Str("All"), recurse |-> Yes])],
          Sources, Caches),
   Config([source |-> Str("s1")], [s1 |-> Map([entity |-> Str("chat"), wait_time |-> Num(1)])],
          Caches),
   Config([source |-> Str("s1")],
          [s1 |-> Map([entity |-> Str("chat"), filter |-> Str("MessageWithMusic")])], Caches),
   Config([source |-> Str("s1")], Sources,
          [disk |-> Map([type |-> Str("disk"), capacity |-> Num(1)])])}

\* A directory below one that overwrites what its parent hands down.
Overwrites ==
  {Config([source |-> Recursive("source", Str("s1")),
           filter |-> Recursive("filter", Str("MessageWithText")),
           a      |-> Map([filter |-> Overwriting("MessageWithDocument"),
                           b      |-> Map([producer |-> Str("PlainDir")])])],
          Sources, Caches)}

MCConfigs == Nested \cup Overwrites \cup Flat \cup Narrow \cup Refused

MCMaxUpdates(c) == IF c \in Nested THEN 1 ELSE 2
=============================================================================
