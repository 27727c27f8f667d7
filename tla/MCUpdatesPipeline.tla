-------------------------- MODULE MCUpdatesPipeline --------------------------
(***************************************************************************)
(* UpdatesPipeline on one or two entities.  A message is a text, whose     *)
(* file waits for its sender, a document, or bare: no file can be made     *)
(* of it.  One directory takes every message of the first source, another *)
(* one its texts, so that edits move messages into that one and out of it. *)
(***************************************************************************)
EXTENDS UpdatesPipeline

CONSTANTS e1, e2, s1, s2, all, texts, other

OneSource == <<s1>>
TwoSources == <<s1, s2>>

FirstEntity == [s \in {s1} |-> e1]
TwoEntities == [s \in {s1, s2} |-> IF s = s1 THEN e1 ELSE e2]

DirsOfFirst == [d \in {all, texts} |-> s1]
DirsOfBoth == [d \in {all, other} |-> IF d = all THEN s1 ELSE s2]
DirsOfThree == [d \in {all, texts, other} |-> IF d = other THEN s2 ELSE s1]

Files == {c \in Contents : c.body \in {"text", "document"}}

TextFiles == {c \in Contents : c.body = "text"}

WantedOfFirst == [d \in {all, texts} |-> IF d = all THEN Contents ELSE TextFiles]
WantedOfBoth == [d \in {all, other} |-> Contents]
WantedOfThree ==
  [d \in {all, texts, other} |-> IF d = texts THEN TextFiles ELSE Contents]

\* Edits after which a file can still be made.
KeepingEdits == {<<"text", "document">>, <<"document", "text">>}

ASSUME KeepingAssumption == EditsKeepSupport
=============================================================================
