------------------------------ MODULE AuthSpec ------------------------------
(***************************************************************************)
(* What the authorization store promises to its callers: each call takes   *)
(* effect at one moment between its begin and its end, or, if the caller   *)
(* dies, perhaps not at all.                                               *)
(***************************************************************************)
EXTENDS AuthStore

CONSTANTS
    Client,   \* the processes that call
    Call,     \* the calls they make: [op, username, token, scopes]
    MayFail   \* a put may fail, about which nobody is told, or a removal

VARIABLES
    db,       \* the store
    call,     \* the call each client is in, Nil between calls
    result    \* what it will return, Nil before the moment it takes effect

absVars == <<db, call, result>>

Effect(store, c) ==
    CASE c.op = "add" -> add_authorization(store, [username |-> c.username, token |-> c.token, scopes |-> c.scopes])
      [] c.op = "remove" -> remove_authorization(store, c.username, c.token)
      [] OTHER -> store

\* A removal answers what it removed, or else that it removed nothing.
Answer(store, c) ==
    CASE c.op \in {"lookup", "remove"} -> {lookup_authorization(store, c.username, c.token)} \ {Nil}
      [] c.op = "list" /\ c.username = Nil -> UNION {list_authorizations(store, u) : u \in User}
      [] c.op = "list" /\ c.username # Nil -> list_authorizations(store, c.username)
      [] OTHER -> {}

AbsInit ==
    /\ db = NoAuthorizations
    /\ call = [c \in Client |-> Nil] /\ result = [c \in Client |-> Nil]

Begin(c) ==
    /\ call[c] = Nil /\ \E new \in Call : call' = [call EXCEPT ![c] = new]
    /\ UNCHANGED <<db, result>>

TakeEffect(c) ==
    /\ call[c] # Nil /\ result[c] = Nil
    /\ \/ db' = Effect(db, call[c]) /\ result' = [result EXCEPT ![c] = Answer(db, call[c])]
       \/ /\ MayFail /\ call[c].op \in {"add", "remove"}
          /\ db' = db /\ result' = [result EXCEPT ![c] = {}]
    /\ UNCHANGED call

\* It returns, or it dies.
End(c) ==
    /\ call[c] # Nil
    /\ call' = [call EXCEPT ![c] = Nil] /\ result' = [result EXCEPT ![c] = Nil]
    /\ UNCHANGED db

AbsNext == \E c \in Client : Begin(c) \/ TakeEffect(c) \/ End(c)

AbsSpec == AbsInit /\ [][AbsNext]_absVars
=============================================================================
