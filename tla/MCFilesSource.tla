--------------------------- MODULE MCFilesSource ---------------------------
(***************************************************************************)
(* FilesSource with one document of nine bytes, requests of four and an    *)
(* alignment of two.  The ranges lie in one request, cross into another,   *)
(* start off the alignment and go past the end of the file.                *)
(***************************************************************************)
EXTENDS FilesSource

CONSTANT doc

MCSize == [d \in {doc} |-> 9]

MCRanges == {<<0, 2>>, <<3, 3>>, <<4, 8>>}
=============================================================================
