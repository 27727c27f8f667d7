---------------------------- MODULE MCBlockCache ----------------------------
(***************************************************************************)
(* BlockCache on two documents and two tasks, blocks of two bytes.  One    *)
(* document ends inside a block, the other at the end of one; the ranges   *)
(* start on and off a block boundary, end on one and go past the end of    *)
(* file.  The capacity is two blocks and a byte.                           *)
(***************************************************************************)
EXTENDS BlockCache

CONSTANTS d1, d2

MCDocs == {d1, d2}

MCSize == [d \in MCDocs |-> IF d = d1 THEN 5 ELSE 2]

MCRanges == {<<0, 2>>, <<1, 4>>}

\* Ranges that do not touch the end of a file.
InnerRanges == {<<0, 1>>, <<1, 2>>}
=============================================================================
