----------------------------- MODULE AuthStore ------------------------------
(***************************************************************************)
(* src/common/auth.c: the authorizations, a Berkeley DB hash that the      *)
(* server, the auth server and the command line tools open side by side.   *)
(*                                                                         *)
(* Each operation is one step here.  AuthDB, in which processes take the   *)
(* lock of the environment, walk with cursors and die, shows that callers  *)
(* see no more than that.  Names are sequences of characters because the   *)
(* key is made by joining them.                                            *)
(***************************************************************************)
EXTENDS Naturals, Sequences

CONSTANTS
    Char,       \* the characters of names
    Bar,        \* the character "|"
    User,       \* user names
    Token,      \* bearer tokens
    Name,       \* the pieces of text that paths and the names of scopes consist of
    ScopeName,  \* the folders of scopes; <<>> is "root"
    Nil         \* no authorization, no token, no response

Scope == [name : ScopeName, write : BOOLEAN]
Authorization == [username : User, token : Token, scopes : SUBSET Scope]

ASSUME AuthStoreAssumption ==
    /\ Bar \in Char
    /\ User \subseteq Seq(Char)
    /\ Token \subseteq Seq(Char)
    /\ ScopeName \subseteq Seq(Name)
    /\ Nil \notin Authorization \cup Token

\* No user name has a "|" in it (a token may): the server looks up only users
\* of the system, which allows none, but rs-add-token takes any name.
ASSUME BarAssumption == \A u \in User : \A i \in 1..Len(u) : u[i] # Bar

\* Bug: nothing stands between the names.
Key_joined(username, token) == username \o token

\* sprintf(key, "%s|%s", username, token)
Key(username, token) == username \o <<Bar>> \o token

Keys == {Key(u, t) : u \in User, t \in Token}
Store == [Keys -> Authorization \cup {Nil}]

NoAuthorizations == [k \in Keys |-> Nil]

\* Bug: the scopes are added to those of an authorization that exists.
add_authorization_merging(store, auth) ==
    LET old == store[Key(auth.username, auth.token)] IN
    [store EXCEPT ![Key(auth.username, auth.token)] =
        IF old = Nil THEN auth ELSE [auth EXCEPT !.scopes = @ \cup old.scopes]]

add_authorization(store, auth) == [store EXCEPT ![Key(auth.username, auth.token)] = auth]

\* DB_NOTFOUND leaves the store as it is, too.
remove_authorization(store, username, token) == [store EXCEPT ![Key(username, token)] = Nil]

lookup_authorization(store, username, token) == store[Key(username, token)]

\* The cursor visits every record and keeps those of the user.
list_authorizations(store, username) ==
    {store[k] : k \in {l \in Keys : store[l] # Nil /\ store[l].username = username}}
=============================================================================
