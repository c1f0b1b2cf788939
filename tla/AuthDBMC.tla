------------------------------ MODULE AuthDBMC ------------------------------
(***************************************************************************)
(* A small instance of AuthDB for TLC.  Characters are their ASCII codes.  *)
(***************************************************************************)
EXTENDS AuthDB

Characters == {97, 98, 99, 120, 124}   \* a b c x |

\* "a" with "bc" and "ab" with "c" would share a key but for the bar.
Users == {<<97>>, <<97, 98>>}
Tokens == {<<98, 99>>, <<99>>}
ScopeNames == {<<>>, <<120>>}

ACall(op, u, t, s) == [op |-> op, username |-> u, token |-> t, scopes |-> s]

\* A grant of two scopes, one of another user's, and what undoes and shows them.
Calls ==
    {ACall("add", <<97>>, <<98, 99>>, {[name |-> <<>>, write |-> FALSE], [name |-> <<120>>, write |-> TRUE]}),
     ACall("add", <<97, 98>>, <<99>>, {[name |-> <<120>>, write |-> FALSE]}),
     ACall("remove", <<97>>, <<98, 99>>, {}), ACall("lookup", <<97>>, <<98, 99>>, {}),
     ACall("list", <<97>>, <<99>>, {}), ACall("list", Nil, <<99>>, {})}
=============================================================================
