----------------------------- MODULE StorageIOMC ----------------------------
(***************************************************************************)
(* Small instances of StorageIO for TLC.                                   *)
(***************************************************************************)
EXTENDS StorageIO

Names == <<"d", "e", "s", "x">>

\* A folder in a folder with a document, and another folder the inner one, or
\* either file, can be moved to and from.
DeepPath == {<<>>, <<"d">>, <<"d", "s">>, <<"d", "s", "x">>, <<"e">>, <<"e", "s">>}

\* Of "a" nothing may be written, and nothing is left of "" to be written.
MCPartial == [c \in Content |-> IF c = "" THEN {} ELSE {""}]
=============================================================================
