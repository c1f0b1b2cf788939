---------------------------- MODULE AuthServerMC ----------------------------
(***************************************************************************)
(* Small instances of AuthServer for TLC.                                  *)
(***************************************************************************)
EXTENDS AuthServer

TwoUsers == {<<"a">>, <<"b">>}
OneToken == {<<"c">>}
Characters == {"a", "b", "c", "|"}
ScopeNames == {<<>>, <<"x">>}

\* ?scope=root:r x:rw
OneApp == {[n \in {<<"root">>, <<"x">>} |-> IF n = <<"x">> THEN "rw" ELSE "r"]}
=============================================================================
