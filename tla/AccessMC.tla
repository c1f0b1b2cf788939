------------------------------ MODULE AccessMC ------------------------------
(***************************************************************************)
(* Small instances of Access for TLC.                                      *)
(***************************************************************************)
EXTENDS Access

\* "a" with "bc" and "ab" with "c" would share a key but for the bar; and a
\* token with a bar in it.
TwoUsers == {<<"a">>, <<"a", "b">>}
TwoTokens == {<<"b", "c">>, <<"c">>}
BarToken == {<<"b", "|", "c">>}
OneUser == {<<"a">>}
Characters == {"a", "b", "c", "|"}

Names == {"/", ".", "x", "y", "public"}
ScopeNames == {<<>>, <<"x">>, <<"x", "/", "y">>}
OnePath == {<<"/", "x", "/", "y">>}

\* Above, in and beside the folders x and x/y; the last two are both served
\* as /xy.
Paths == {<<"/">>, <<"/", "x">>, <<"/", "x", "/">>, <<"/", "x", "y", "/", "y">>,
          <<"/", "x", "/", "y">>, <<"/", "x", "/", "y", "/", "y">>,
          <<"/", "public", "/", "x">>, <<"/", "public", "/">>,
          <<"/", "x", "/", "/", "y">>, <<"/", "x", "/", ".", ".", "y">>}

\* rs-add-token root:rw
OneGrant == {{[name |-> <<>>, write |-> TRUE]}}

\* rs-add-token root:rw and x:r
TwoGrants == {{[name |-> <<>>, write |-> TRUE]}, {[name |-> <<"x">>, write |-> FALSE]}}

\* root:r, x:rw, and root:r together with x/y:rw
ThreeGrants == {{[name |-> <<>>, write |-> FALSE]}, {[name |-> <<"x">>, write |-> TRUE]},
                {[name |-> <<>>, write |-> FALSE], [name |-> <<"x", "/", "y">>, write |-> TRUE]}}
=============================================================================
