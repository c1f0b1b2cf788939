------------------------------ MODULE StorageMC -----------------------------
(***************************************************************************)
(* Small instances of Storage for TLC.                                     *)
(***************************************************************************)
EXTENDS Storage

Names == <<"x", "d", "f", "y">>

\* A folder with one document, beside a document of the root.
SmallPath == {<<>>, <<"d">>, <<"d", "x">>, <<"f">>}

\* A mime type just short enough to be read back, a charset just too long.
MCMime == {"plain"}
MCCharset == {"UTF-8", "big"}
MCMimeSize == [m \in MCMime |-> 127]
MCCharsetSize == [c \in MCCharset |-> IF c = "big" THEN 64 ELSE 5]
OneType == {[mime |-> "plain", charset |-> Nil]}
TwoTypes == {[mime |-> "plain", charset |-> Nil], [mime |-> "plain", charset |-> "big"]}
MCMagic == [c \in Content |-> [mime |-> "plain", charset |-> "big"]]
MCOctetStream == [mime |-> "plain", charset |-> "UTF-8"]

\* The reply is an output that no action reads: states that differ in it
\* only have the same future.
WithoutReply == <<fs, xattr>>
=============================================================================
