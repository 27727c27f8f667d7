---------------------------- MODULE MCFileSystem ----------------------------
(***************************************************************************)
(* FileSystem with a root and one directory in it that comes and goes, and *)
(* files that come, go and are edited in both: one message, with a name or *)
(* with two that an edit changes one into the other.                       *)
(***************************************************************************)
EXTENDS FileSystem, TLC

CONSTANTS a, b, message

OneName == {a}

TwoNames == {a, b}

OneMessage == [n \in OneName |-> message]

TwoOfOne == [n \in TwoNames |-> message]

Symmetry == Permutations(Versions)
=============================================================================
