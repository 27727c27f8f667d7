------------------------------- MODULE Guards -------------------------------
(***************************************************************************)
(* What a message can carry, the classes of messages with their guards     *)
(* (tgclient/guards.py), and the file a file factory makes of a message    *)
(* (tgmount/file_factory/).                                                *)
(*                                                                         *)
(* A message is a record: its id, the set of the attributes it has, the id *)
(* of its document or photo, the extension of its file name, and its       *)
(* reactions with their counts.                                            *)
(***************************************************************************)
EXTENDS Naturals, Sequences, SequencesExt

\* The attributes of MessageProto that are not None, those of its document
\* ("image size" of the attributes, "video mime" of the type) and "name", a
\* file with a name.
Attributes ==
  {"text", "forward", "reactions", "document", "photo", "name", "image size",
   "sticker", "video", "video note", "video mime", "gif", "audio", "voice"}

MessageProto(id, has, doc, ext, reactions) ==
  [id |-> id, has |-> has, doc |-> doc, ext |-> ext, reactions |-> reactions]

-----------------------------------------------------------------------------
(* The guards *)

MessageForwarded(m)           == "forward" \in m.has
MessageWithReactions(m)       == "reactions" \in m.has
MessageWithDocument(m)        == "document" \in m.has
MessageWithoutDocument(m)     == m.has \cap {"document", "photo"} = {}
MessageWithFilename(m)        == "name" \in m.has
MessageWithSticker(m)         == "sticker" \in m.has
MessageWithKruzhochek(m)      == "video note" \in m.has
MessageWithAnimated(m)        == "gif" \in m.has
MessageWithAudio(m)           == m.has \cap {"audio", "voice"} # {}
MessageWithVoice(m)           == "voice" \in m.has
MessageWithMusic(m)           == "audio" \in m.has
MessageWithText(m)            == "text" \in m.has

MessageWithCompressedPhoto(m) == "photo" \in m.has /\ ~MessageWithSticker(m)

MessageDownloadable(m) == MessageWithDocument(m) \/ MessageWithCompressedPhoto(m)

MessageWithDocumentImage(m) ==
  MessageWithDocument(m) /\ "image size" \in m.has /\ ~MessageWithSticker(m)

MessageWithZip(m) ==
  MessageWithDocument(m) /\ MessageWithFilename(m) /\ m.ext = ".zip"

MessageWithVideoDocument(m) ==
  MessageWithDocument(m) /\ "video mime" \in m.has /\ "video" \notin m.has

MessageWithVideo(m) ==
  m.has \cap {"video", "gif"} # {} \/ MessageWithVideoDocument(m)

MessageWithVideoFile(m) ==
  MessageWithVideo(m) /\ ~MessageWithKruzhochek(m) /\ ~MessageWithAnimated(m)

MessageWithOtherDocument(m) ==
  /\ MessageWithFilename(m)
  /\ ~ \/ MessageWithDocumentImage(m) \/ MessageWithCompressedPhoto(m)
       \/ MessageWithVideo(m) \/ MessageWithAudio(m)
       \/ MessageWithSticker(m) \/ MessageWithAnimated(m)
       \/ MessageWithVideoDocument(m)

-----------------------------------------------------------------------------
(* ClassifierDefault: the classes by their names *)

Guard(m) ==
  [TelegramMessage            |-> TRUE,
   MessageDownloadable        |-> MessageDownloadable(m),
   MessageForwarded           |-> MessageForwarded(m),
   MessageWithAnimated        |-> MessageWithAnimated(m),
   MessageWithVoice           |-> MessageWithVoice(m),
   MessageWithAudio           |-> MessageWithAudio(m),
   MessageWithCompressedPhoto |-> MessageWithCompressedPhoto(m),
   MessageWithDocument        |-> MessageWithDocument(m),
   MessageWithDocumentImage   |-> MessageWithDocumentImage(m),
   MessageWithFilename        |-> MessageWithFilename(m),
   MessageWithKruzhochek      |-> MessageWithKruzhochek(m),
   MessageWithMusic           |-> MessageWithMusic(m),
   MessageWithOtherDocument   |-> MessageWithOtherDocument(m),
   MessageWithZip             |-> MessageWithZip(m),
   MessageWithVideoFile       |-> MessageWithVideoFile(m),
   MessageWithVideo           |-> MessageWithVideo(m),
   MessageWithSticker         |-> MessageWithSticker(m),
   MessageWithText            |-> MessageWithText(m),
   MessageWithReactions       |-> MessageWithReactions(m),
   MessageWithoutDocument     |-> MessageWithoutDocument(m)]

\* classify: the names of the classes a message suits.
Classify(m) == {name \in DOMAIN Guard(m) : Guard(m)[name]}

-----------------------------------------------------------------------------
(* The file factories *)

\* FileFactoryDefault, in the order of registration.
FileFactoryDefault ==
  <<"MessageWithCompressedPhoto", "MessageWithMusic", "MessageWithVoice",
    "MessageWithSticker", "MessageWithAnimated", "MessageWithKruzhochek",
    "MessageWithDocumentImage", "MessageWithVideoFile", "MessageWithVideo",
    "MessageWithOtherDocument", "MessageWithFilename", "MessageDownloadable">>

MyFileFactoryDefault == Append(FileFactoryDefault, "MessageWithText")

Unsupported == "unsupported"

\* try_get_cls: the classes of treat_as that are registered go first.
TryGetCls(supported, treat_as, classes) ==
  LET known(c) == Contains(supported, c)
      suits(c) == c \in classes
      all      == SelectSeq(treat_as, known) \o supported
      k        == SelectInSeq(all, suits)
  IN  IF k = 0 THEN Unsupported ELSE all[k]

\* file: the name and the content depend on the class, and a message of no
\* registered class raises.
FileLike(m, class) == [id |-> m.id, content |-> <<class, m>>]
=============================================================================
