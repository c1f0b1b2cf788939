------------------------------- MODULE AuthDB -------------------------------
(***************************************************************************)
(* src/common/auth.c as several processes use it at once: the server (a    *)
(* lookup per request), the auth server (an add per grant) and the tools.  *)
(* The environment is opened with DB_INIT_CDB: one lock for the database,  *)
(* taken for a put, del or get, and by a cursor from its creation until    *)
(* close_authorizations(), as nobody closes the cursor itself.  It is      *)
(* opened without recovery, so the lock of a process that dies stays.      *)
(***************************************************************************)
EXTENDS AuthStore, AuthRecord, FiniteSets

CONSTANTS
    Client,   \* the processes that call
    Call,     \* the calls they make: [op, username, token, scopes]
    MayFail,  \* a put, a del, a get or a cursor's get may fail
    Pager,    \* the clients whose output may never be read to its end
    Dead,     \* who holds or waits for a lock after his death
    MaxDead   \* bound: how many of those there may be

Op == {"add", "remove", "lookup", "list"}

ASSUME AuthDBAssumption ==
    /\ \A c \in Call :
          /\ c \in [op : Op, username : User \cup {Nil}, token : Token, scopes : SUBSET Scope]
          /\ c.username = Nil => c.op = "list"     \* rs-list-tokens without a user
    /\ Pager \subseteq Client /\ Dead \notin Client /\ Nil \notin Call
    /\ MayFail \in BOOLEAN /\ MaxDead \in Nat

VARIABLES
    db,       \* the record of each key, as bytes; Nil: none
    call,     \* the call each client is in, or Nil
    pc,       \* where it is in there
    passed,   \* the keys its cursor has passed
    seen,     \* the authorizations it has been given; what it has removed
    holders,  \* who holds the lock, and how
    queue     \* who waits for it

vars == <<db, call, pc, passed, seen, holders, queue>>

Mode(c) == IF c.op \in {"add", "remove"} THEN "write" ELSE "read"
Entry == [who : Client \cup {Dead}, mode : {"read", "write"}]

\* The record of each grant, and the struct rs_authorization of each record.
Packed == [c \in {new \in Call : new.op = "add"} |->
    pack_authorization([username |-> c.username, token |-> c.token, scopes |-> SetToSeq(c.scopes)])]
Unpacked == [bytes \in Range(Packed) |-> [unpack_authorization(bytes) EXCEPT !.scopes = Range(@)]]

\* Names are C strings, and the records of what is added have a size.
ASSUME RecordAssumption ==
    /\ Char \subseteq 1..255 /\ Name \subseteq 1..255
    /\ \A c \in Call : IsFiniteSet(c.scopes) /\ Cardinality(c.scopes) <= MaxScopes
    /\ Nil \notin Range(Packed)

At(c, step) == pc' = [pc EXCEPT ![c] = step]
Inside(c, op) == pc[c] = "inside" /\ call[c].op = op

\* open_authorizations() and the request for the lock.
Begin(c) ==
    /\ call[c] = Nil
    /\ \E new \in Call :
         /\ call' = [call EXCEPT ![c] = new]
         /\ queue' = Append(queue, [who |-> c, mode |-> Mode(new)])
    /\ At(c, "waiting")
    /\ UNCHANGED <<db, passed, seen, holders>>

\* Readers share the lock; nobody overtakes.
Grant ==
    /\ queue # <<>>
    /\ \A h \in holders : h.mode = "read" /\ Head(queue).mode = "read"
    /\ holders' = holders \cup {Head(queue)} /\ queue' = Tail(queue)
    /\ pc' = [c \in Client |-> IF c = Head(queue).who THEN "inside" ELSE pc[c]]
    /\ UNCHANGED <<db, call, passed, seen>>

\* What put() returns is printed only.
add(c) ==
    /\ Inside(c, "add") /\ At(c, "done")
    /\ \/ db' = [db EXCEPT ![Key(call[c].username, call[c].token)] = Packed[call[c]]]
       \/ MayFail /\ db' = db
    /\ UNCHANGED <<call, passed, seen, holders, queue>>

\* What del() returns is what the tool reports and exits with: 0 if there was
\* a record, DB_NOTFOUND, or that it failed.
remove(c) ==
    LET key == Key(call[c].username, call[c].token) IN
    /\ Inside(c, "remove") /\ At(c, "done")
    /\ \/ /\ db' = [db EXCEPT ![key] = Nil]
          /\ seen' = [seen EXCEPT ![c] = IF db[key] = Nil THEN {} ELSE {Unpacked[db[key]]}]
       \/ MayFail /\ db' = db /\ seen' = seen
    /\ UNCHANGED <<call, passed, holders, queue>>

lookup(c) ==
    /\ Inside(c, "lookup") /\ At(c, "done")
    /\ LET bytes == db[Key(call[c].username, call[c].token)] IN
       seen' = [seen EXCEPT ![c] = IF bytes = Nil THEN {} ELSE {Unpacked[bytes]}]
    /\ UNCHANGED <<db, call, passed, holders, queue>>

\* The next record of the cursor, in some order.
Advance(c) ==
    LET ahead == {k \in Keys \ passed[c] : db[k] # Nil} IN
    /\ Inside(c, "list") \/ pc[c] = "walking"
    /\ \/ ahead = {} /\ At(c, "done") /\ UNCHANGED <<passed, seen>>
       \/ \E k \in ahead :
            LET auth == Unpacked[db[k]] IN
            /\ passed' = [passed EXCEPT ![c] = @ \cup {k}]
            /\ seen' = [seen EXCEPT ![c] = @ \cup
                           IF call[c].username \in {Nil, auth.username} THEN {auth} ELSE {}]
            /\ At(c, "walking")
    /\ UNCHANGED <<db, call, queue>>

\* Bug: the lock is not held from one record to the next.
walk_unlocked(c) == Advance(c) /\ holders' = {h \in holders : h.who # c}

walk(c) == Advance(c) /\ UNCHANGED holders

\* Every result of the cursor but DB_NOTFOUND continues the loop.
spin(c) ==
    /\ MayFail /\ pc[c] = "walking" /\ At(c, "spinning")
    /\ UNCHANGED <<db, call, passed, seen, holders, queue>>

Leave(c) ==
    /\ call' = [call EXCEPT ![c] = Nil] /\ At(c, "idle")
    /\ passed' = [passed EXCEPT ![c] = {}] /\ seen' = [seen EXCEPT ![c] = {}]
    /\ UNCHANGED db

\* Bug: the environment keeps the lock of a cursor nobody closed.
return_keeping(c) ==
    /\ pc[c] = "done" /\ Leave(c)
    /\ holders' = IF call[c].op = "list" THEN holders ELSE {h \in holders : h.who # c}
    /\ UNCHANGED queue

\* The call returns and, after a listing, the database is closed, which
\* closes its cursors.
return(c) ==
    /\ pc[c] = "done" /\ Leave(c)
    /\ holders' = {h \in holders : h.who # c}
    /\ UNCHANGED queue

\* A get that fails has released the lock; abort().
abort(c) ==
    /\ MayFail /\ Inside(c, "lookup") /\ Leave(c)
    /\ holders' = {h \in holders : h.who # c}
    /\ UNCHANGED queue

\* A signal (SIGPIPE from the pager, ^C, SIGKILL), or abort() after the first
\* get of a cursor.
Buried(c, e) == IF e.who = c THEN [e EXCEPT !.who = Dead] ELSE e
Die(c) ==
    /\ call[c] # Nil /\ Leave(c)
    /\ holders' = {Buried(c, h) : h \in holders}
    /\ queue' = [i \in DOMAIN queue |-> Buried(c, queue[i])]
    /\ Cardinality({h \in holders' : h.who = Dead})
         + Cardinality({i \in DOMAIN queue' : queue'[i].who = Dead}) <= MaxDead

-----------------------------------------------------------------------------
Init ==
    /\ db = NoAuthorizations
    /\ call = [c \in Client |-> Nil] /\ pc = [c \in Client |-> "idle"]
    /\ passed = [c \in Client |-> {}] /\ seen = [c \in Client |-> {}]
    /\ holders = {} /\ queue = <<>>

Operate(c) == add(c) \/ remove(c) \/ lookup(c) \/ walk(c) \/ return(c)

Next == Grant \/ \E c \in Client : Begin(c) \/ Operate(c) \/ spin(c) \/ abort(c) \/ Die(c)

Spec == Init /\ [][Next]_vars

\* A listing goes on only as far as somebody reads it.
FairSpec ==
    /\ Spec /\ WF_vars(Grant)
    /\ \A c \in Client : WF_vars(Operate(c) /\ (c \in Pager => call[c].op # "list"))

-----------------------------------------------------------------------------
(***************************************************************************)
(* Properties                                                              *)
(***************************************************************************)
TypeOK ==
    /\ db \in [Keys -> Range(Packed) \cup {Nil}]
    /\ \A k \in Keys : db[k] # Nil => Unpacked[db[k]] \in Authorization
    /\ call \in [Client -> Call \cup {Nil}]
    /\ pc \in [Client -> {"idle", "waiting", "inside", "walking", "spinning", "done"}]
    /\ \A c \in Client : passed[c] \subseteq Keys /\ seen[c] \subseteq Authorization
    /\ holders \subseteq Entry /\ queue \in Seq(Entry)

\* What callers are promised (AuthSpec): with records as bytes, listings that
\* take many steps, failing puts and deaths at any point, each call is as if it
\* happened at one moment.
Promise == INSTANCE AuthSpec WITH
    db <- [k \in Keys |-> IF db[k] = Nil THEN Nil ELSE Unpacked[db[k]]],
    result <- [c \in Client |-> IF pc[c] = "done" THEN seen[c] ELSE Nil]
ImplementsAuthSpec == Promise!AbsSpec

\* A walk is of one store: what it has passed is still there, unchanged, and
\* what it has seen are the records of its user among that.
WalksAreCurrent ==
    \A c \in Client : pc[c] \in {"walking", "spinning"} =>
        /\ \A k \in passed[c] : db[k] # Nil
        /\ seen[c] = {Unpacked[db[k]] : k \in
               {l \in passed[c] : call[c].username \in {Nil, Unpacked[db[l]].username}}}

\* What keeps everyone waiting: a lock nobody is left to release, the loop a
\* failing cursor ends in, a listing whose output nobody reads.
Blocked ==
    \E h \in holders :
        \/ h.who = Dead
        \/ h.who \in Client /\ pc[h.who] = "spinning"
        \/ h.who \in Pager /\ call[h.who] # Nil /\ call[h.who].op = "list"

\* Unless one of those lasts, every call gets its turn: no call returns with
\* the lock, and none is passed over.
CallsGetTheirTurn ==
    []<>~Blocked => \A c \in Client : pc[c] = "waiting" ~> pc[c] # "waiting"
=============================================================================
