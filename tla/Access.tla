------------------------------- MODULE Access -------------------------------
(***************************************************************************)
(* src/handler/dispatch.c, src/handler/auth.c and src/common/user.c: who   *)
(* may do what.  A request goes through verify_user(), authorize_request() *)
(* and the storage handler; the first two and storage_handle_put() each    *)
(* ask the passwd database or the authorization store anew, and both may   *)
(* change in between: tools add and remove tokens, the administrator adds  *)
(* and removes users.  A path is its text as it came, with the slash it    *)
(* begins with.                                                            *)
(***************************************************************************)
EXTENDS AuthStore, Integers

LOCAL INSTANCE SequencesExt

CONSTANTS
    Path,       \* the paths requested
    Slash, Dot, \* the texts "/" and "."
    Public,     \* the name of the folder anyone may read documents in
    Method,     \* the methods of requests
    Grant,      \* the sets of scopes tools add tokens for
    MayFail     \* getpwnam_r() and the store's get may fail

ASSUME AccessAssumption ==
    /\ {Slash, Dot, Public} \subseteq Name /\ Public # Slash
    \* what the expression "^/storage/([^/]+)/.*$" leaves of an URI
    /\ \A p \in Path : p \in Seq(Name) /\ p # <<>> /\ p[1] = Slash
    \* POST stands for every method dispatch_storage() has no case for.
    /\ Method \subseteq {"OPTIONS", "GET", "HEAD", "PUT", "DELETE", "POST"}
    /\ Grant \subseteq SUBSET Scope
    /\ MayFail \in BOOLEAN
    /\ Nil \notin {"system", "regular"}
    /\ \A r \in [method : Method, user : User, path : Path, token : Token \cup {Nil}] : r # Nil

VARIABLES
    users,   \* the passwd entry of each user name: its kind of uid
    db,      \* the authorization store
    pc,      \* the next step of dispatch_storage(); "idle"; "down"
    req,     \* the current request, or Nil
    out,     \* the last status, and the path of what was served with it
    locked,  \* others have the database's lock, or are before the server
    was      \* what has been true of users and db since req arrived

vars == <<users, db, pc, req, out, locked, was>>

\* Below, at or above RS_MIN_UID; Nil if there is no entry.
Uid == {"system", "regular", Nil}

Request == [method : Method, user : User, path : Path, token : Token \cup {Nil}]

\* uri->path->file == NULL
folder(r) == r.path[Len(r.path)] = Slash

IsRead(r) == r.method \in {"GET", "HEAD"}

Status == {200, 204, 400, 401, 404, 405, 412, 500}
Send(status, path) == pc' = "idle" /\ req' = Nil /\ out' = [status |-> status, path |-> path]
Reply(status) == Send(status, Nil)
Goto(step) == pc' = step /\ UNCHANGED <<req, out>>

-----------------------------------------------------------------------------
(***************************************************************************)
(* handler/storage.c: make_disk_path() rewrites the path.  It treats what  *)
(* it removes as garbage and resolves nothing.                             *)
(***************************************************************************)
Occurs(text, path) == text \in SubSeqs(path)

\* while((pos = strstr(path, text)) != NULL): what is left is joined and
\* looked at anew.
Removed(text, path) ==
    LET left[p \in Seq(Name)] ==
            IF Occurs(text, p) THEN left[ReplaceFirstSubSeq(<<>>, text, p)] ELSE p
    IN IF Occurs(text, path) THEN left[path] ELSE path

make_disk_path(path) == Removed(<<Slash, Slash>>, Removed(<<Slash, Dot, Dot>>, path))

\* The storage handler takes over: 200 stands for whatever it answers.
Served == 200
Serves(path) == Send(Served, make_disk_path(path))

-----------------------------------------------------------------------------
(***************************************************************************)
(* handler/auth.c                                                          *)
(***************************************************************************)

\* Bug: no slash has to follow.
match_scope_no_slash(scope, r) ==
    /\ \/ scope.name = <<>>
       \/ /\ Len(scope.name) + 1 <= Len(r.path)
          /\ SubSeq(r.path, 2, Len(scope.name) + 1) = scope.name
    /\ scope.write \/ IsRead(r)

\* The path, as it came, goes on with the scope's name and a slash.
match_scope(scope, r) ==
    /\ \/ scope.name = <<>>
       \/ /\ Len(scope.name) + 2 <= Len(r.path)
          /\ SubSeq(r.path, 2, Len(scope.name) + 1) = scope.name
          /\ r.path[Len(scope.name) + 2] = Slash
    /\ scope.write \/ IsRead(r)

\* "/public/" and more: a document is read.
public_read(r) ==
    /\ Len(r.path) >= 3 /\ SubSeq(r.path, 1, 3) = <<Slash, Public, Slash>>
    /\ IsRead(r) /\ ~folder(r)

token_matches(store, r) ==
    /\ r.token # Nil
    /\ LET auth == lookup_authorization(store, r.user, r.token) IN
       auth # Nil /\ \E scope \in auth.scopes : match_scope(scope, r)

-----------------------------------------------------------------------------
(***************************************************************************)
(* handler/dispatch.c.  The steps are those that look at users or db.      *)
(***************************************************************************)
Take(r) ==
    /\ pc = "idle"
    /\ req' = r /\ out' = Nil /\ pc' = "verify"
    /\ UNCHANGED <<users, db, locked>>

\* Bug: the uid is not looked at.
verify_user_any_uid ==
    /\ pc = "verify"
    /\ IF users[req.user] = Nil THEN Reply(404) ELSE Goto("authorize")
    /\ UNCHANGED <<users, db, locked>>

verify_user ==
    /\ pc = "verify"
    /\ \/ users[req.user] # "regular" /\ Reply(404)
       \/ users[req.user] = "regular" /\ req.method = "OPTIONS" /\ Goto("dispatch")
       \/ users[req.user] = "regular" /\ req.method # "OPTIONS" /\ Goto("authorize")
       \/ MayFail /\ Reply(500)
    /\ UNCHANGED <<users, db, locked>>

\* Bug: the result of authorize_request() is sent as the status.
authorize_request_raw ==
    /\ pc = "authorize"
    /\ IF token_matches(db, req) \/ public_read(req) THEN Goto("dispatch") ELSE Reply(-1)
    /\ UNCHANGED <<users, db, locked>>

\* The lookup waits for its turn.  A get that fails aborts the process.
authorize_request ==
    /\ pc = "authorize" /\ (req.token = Nil \/ ~locked)
    /\ \/ token_matches(db, req) /\ Goto("dispatch")
       \/ public_read(req) /\ Goto("dispatch")
       \/ ~token_matches(db, req) /\ ~public_read(req) /\ Reply(401)
       \/ MayFail /\ req.token # Nil /\ Goto("down")
    /\ UNCHANGED <<users, db, locked>>

\* Bug: a method without a case leaves the status 0, and nothing is sent.
dispatch_no_default ==
    /\ pc = "dispatch"
    /\ \/ req.method = "OPTIONS" /\ Reply(204)
       \/ req.method \in {"GET", "HEAD", "DELETE", "PUT"} /\ Serves(req.path)
       \/ req.method = "POST" /\ UNCHANGED <<pc, req, out>>
    /\ UNCHANGED <<users, db, locked>>

\* A PUT looks its user up again, unless it is refused before that.  The
\* pointer USER_NOT_FOUND is -1 and passes for an entry.  A GET whose read()
\* goes on failing never ends.
dispatch ==
    /\ pc = "dispatch"
    /\ \/ req.method = "OPTIONS" /\ Reply(204)
       \/ req.method \in {"GET", "HEAD", "DELETE"} /\ Serves(req.path)
       \/ MayFail /\ req.method = "GET" /\ ~folder(req) /\ Goto("spin")
       \/ req.method = "POST" /\ Reply(405)
       \/ req.method = "PUT" /\ folder(req) /\ Reply(400)
       \/ /\ req.method = "PUT" /\ ~folder(req)
          /\ \/ Reply(412)
             \/ users[req.user] # Nil /\ Serves(req.path)
             \/ users[req.user] = Nil /\ Goto("down")
             \/ MayFail /\ Reply(500)
    /\ UNCHANGED <<users, db, locked>>

-----------------------------------------------------------------------------
(***************************************************************************)
(* The tools src/tools/*.c, the administrator, and who restarts the server *)
(***************************************************************************)
AddToken(u, t, scopes) ==
    /\ db' = add_authorization(db, [username |-> u, token |-> t, scopes |-> scopes])
    /\ UNCHANGED <<users, pc, req, out, locked>>

RemoveToken(u, t) ==
    /\ db' = remove_authorization(db, u, t)
    /\ UNCHANGED <<users, pc, req, out, locked>>

ChangeUser(u, uid) ==
    /\ users' = [users EXCEPT ![u] = uid]
    /\ UNCHANGED <<db, pc, req, out, locked>>

\* Who is before the server in the queue for the database's lock (AuthDB): a
\* tool that writes, one whose listing nobody reads, one that died with it.
Lock == pc # "authorize" /\ locked' = TRUE /\ UNCHANGED <<users, db, pc, req, out>>
Unlock == locked' = FALSE /\ UNCHANGED <<users, db, pc, req, out>>

\* A process that spins is killed.
Restart ==
    /\ pc \in {"down", "spin"} /\ pc' = "idle" /\ req' = Nil
    /\ UNCHANGED <<users, db, out, locked>>

-----------------------------------------------------------------------------
\* What a request should be allowed for: a scope of its token whose folder,
\* at whatever depth, holds the path, and the mode.
Folders(path) == {SubSeq(path, 2, i - 1) : i \in {j \in 1..Len(path) : path[j] = Slash}}
Allows(scope, r) == scope.name \in Folders(r.path) /\ (scope.write \/ IsRead(r))
Granted(r, store) ==
    \/ /\ r.token # Nil
       /\ LET auth == lookup_authorization(store, r.user, r.token) IN
          auth # Nil /\ \E scope \in auth.scopes : Allows(scope, r)
    \/ <<Public>> \in Folders(r.path) /\ ~folder(r) /\ IsRead(r)

\* A path make_disk_path() finds nothing in.
Plain(path) == ~Occurs(<<Slash, Dot, Dot>>, path) /\ ~Occurs(<<Slash, Slash>>, path)

Observation == {"user", "no user", "granted", "not granted"}

\* What is true of a request now.
Facts(r, us, store) ==
    IF r = Nil THEN {} ELSE
    {IF us[r.user] = "regular" THEN "user" ELSE "no user",
     IF Granted(r, store) THEN "granted" ELSE "not granted"}

\* An observer's note of what was true since the request arrived.
Observe == was' = (IF pc = "idle" THEN {} ELSE was) \cup Facts(req', users', db')

Init ==
    /\ users = [u \in User |-> "regular"]
    /\ db = NoAuthorizations
    /\ pc = "idle" /\ req = Nil /\ out = Nil /\ locked = FALSE /\ was = {}

Serve == verify_user \/ authorize_request \/ dispatch

Environment ==
    \/ \E r \in Request : Take(r)
    \/ \E u \in User, t \in Token :
         RemoveToken(u, t) \/ \E scopes \in Grant : AddToken(u, t, scopes)
    \/ \E u \in User, uid \in Uid : ChangeUser(u, uid)
    \/ Lock \/ Unlock \/ Restart

Next == (Serve \/ Environment) /\ Observe

Spec == Init /\ [][Next]_vars

\* dispatch_storage() goes on while it can.  Nothing says that a lock is ever
\* given back.
FairSpec == Spec /\ WF_vars(Serve /\ Observe)

-----------------------------------------------------------------------------
(***************************************************************************)
(* Properties                                                              *)
(***************************************************************************)
TypeOK ==
    /\ users \in [User -> Uid]
    /\ db \in Store
    /\ pc \in {"idle", "verify", "authorize", "dispatch", "spin", "down"}
    /\ req \in Request \cup {Nil}
    /\ pc # "idle" => req # Nil
    /\ out # Nil => out.status \in Status
    /\ locked \in BOOLEAN
    /\ was \subseteq Observation

\* What is stored under a user's name and a token was granted to that user
\* with that token (no two pairs share a key), and what is listed of a user
\* is what requests of the user are looked up in.
AuthorizationsAreOwn ==
    \A u \in User :
        /\ \A t \in Token :
             LET auth == lookup_authorization(db, u, t) IN
             auth # Nil => auth.username = u /\ auth.token = t
        /\ list_authorizations(db, u) = {lookup_authorization(db, u, t) : t \in Token} \ {Nil}

Answered == pc # "idle" /\ pc' = "idle" /\ out' # Nil

\* However tools and administrator interleave with it, an answer has its
\* reason in what was true at some time since the request arrived.  So a
\* request that arrives after its token was removed is not served, and one
\* that arrives after it was added is not refused.  Granted is the path as it
\* came; it is the one that is served if make_disk_path() leaves it alone.
AnswersAreJustified ==
    [][Answered =>
         /\ out'.status \in {Served, 204} => "user" \in was
         /\ out'.status = Served => "granted" \in was /\ (Plain(req.path) => out'.path = req.path)
         /\ out'.status = 404 => "no user" \in was
         /\ out'.status = 401 => "not granted" \in was]_vars

\* The last grant counts: the scopes of an authorization are always those of
\* one grant.
GrantsAreNotMerged == \A k \in Keys : db[k] # Nil => db[k].scopes \in Grant

\* Every request is answered, unless the process dies or reads without end, or
\* waits for its turn in the database; and it is answered when that comes.
Busy == pc \in {"verify", "authorize", "dispatch"}
Waits == pc = "authorize" /\ req.token # Nil /\ locked
EveryRequestAnswered == Busy /\ ~Waits ~> ~Busy \/ Waits

\* handler/storage.c:100-103: for a user that cannot be looked up, a PUT is
\* answered with an error; it does not end the server.
PutSurvivesUserRemoval == [][pc = "dispatch" => pc' # "down"]_vars
=============================================================================
