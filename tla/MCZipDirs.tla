----------------------------- MODULE MCZipDirs -----------------------------
(***************************************************************************)
(* ZipDirs with archives of every kind: one folder at the root beside what *)
(* macOS adds, files at the root, nothing at the root, and a file that     *)
(* only ends with .zip.  Messages can carry one archive twice.             *)
(***************************************************************************)
EXTENDS ZipDirs

File(path) == Entry(path, FALSE, FALSE)
Folder(path) == Entry(path, TRUE, FALSE)
Absolute(path) == Entry(path, FALSE, TRUE)

Album  == {Folder(<<"music">>), File(<<"music", "one">>), File(<<"music", "cd", "two">>),
           File(<<"__MACOSX", "one">>)}
Loose  == {File(<<"music", "one">>), File(<<"cover">>), Absolute(<<"etc">>)}
Hollow == {Folder(<<"music">>), File(<<"__MACOSX", "one">>)}

MCArchives ==
  [d \in {"album", "loose", "hollow"} |->
     CASE d = "album" -> Album [] d = "loose" -> Loose [] d = "hollow" -> Hollow]

Body(name, doc, label) == [name |-> name, doc |-> doc, label |-> label]

Zips == {Body("a.zip", d, 1) : d \in DOMAIN MCArchives \cup {"broken"}}
Liked == {Body("a.zip", d, 2) : d \in {"album", "loose"}}
Other == {Body("b.pdf", "pdf", 1)}

MCBodies == Zips \cup Liked \cup Other

\* What is labelled otherwise does not pass.
MCWanted == {b \in MCBodies : b # Body("a.zip", "loose", 2)}

AlbumBody == Body("a.zip", "album", 1)

\* Captions change, and an album or a document becomes anything else and back.
MCEdits ==
  {e \in MCBodies \X MCBodies :
     e[1] # e[2] /\ ({e[1], e[2]} \cap (Other \cup {AlbumBody}) # {} \/ e[1].doc = e[2].doc)}

\* Only captions change.
LikedOnly == {<<AlbumBody, Body("a.zip", "album", 2)>>}
=============================================================================
