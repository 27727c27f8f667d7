------------------------------ MODULE MCGrouper ------------------------------
(***************************************************************************)
(* Grouper with two groups, each with a directory of music and one of the  *)
(* rest.  A message may belong to both groups (as with reactions), to one  *)
(* or to none.                                                             *)
(***************************************************************************)
EXTENDS Grouper

CONSTANTS A, B, dirA, dirB, music, rest

Content(keys, kind, version) == [keys |-> keys, kind |-> kind, version |-> version]

InA == Content({A}, "music", 1)
InARest == Content({A}, "text", 1)
InB == Content({B}, "music", 1)
InBoth == Content({A, B}, "music", 1)
InNone == Content({}, "music", 1)
Beside == Content({}, "music", 2)

MCContents == {InA, InARest, InB, InBoth, InNone, Beside}

MCKeysOf == [c \in MCContents |-> c.keys]

MCDirOf == [k \in {A, B} |-> IF k = A THEN dirA ELSE dirB]

MCInRoot == {Beside}

MCParts == <<<<music>>, <<rest>>>>

OfKind(kind) == {c \in MCContents : c.kind = kind}

MCWanted == [p \in {<<music>>, <<rest>>} |->
               IF p = <<music>> THEN OfKind("music") ELSE OfKind("text")]

Pairs(cs, ds) == {e \in cs \X ds : e[1] # e[2]}

\* Music moves between the groups and out of them.
Moves == Pairs({InA, InB, InBoth, InNone}, {InA, InB, InBoth, InNone})

\* A message of group A changes its kind and stays in the group.
Changes == Pairs({InA, InBoth, InARest}, {InA, InBoth, InARest})

MCEdits == Moves \cup Changes

(* The hypotheses of the theorems about Grouper hold here. *)

ASSUME MCNamesApart == NamesApart

ASSUME MCGroupsPass == GroupsPass

ASSUME MCEditsStayBelow == EditsStayBelow

ASSUME MCReturnsAlike == ReturnsAlike
=============================================================================
