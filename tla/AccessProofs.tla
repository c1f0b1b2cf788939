---------------------------- MODULE AccessProofs ----------------------------
(***************************************************************************)
(* What Access and Endpoints promise, for all users, tokens, scopes and    *)
(* paths.                                                                  *)
(***************************************************************************)
EXTENDS Endpoints, AuthStoreProofs

-----------------------------------------------------------------------------
(***************************************************************************)
(* The code's reading of scopes and paths is the intended one.             *)
(***************************************************************************)
LEMMA PathText == ASSUME NEW r \in Request PROVE r.path \in Seq(Name) /\ r.path # <<>> /\ r.path[1] = Slash
BY AccessAssumption DEF Request

\* A path is in a folder if it goes on with the folder's name and a slash.
LEMMA InFolders ==
    ASSUME NEW n \in Seq(Name), NEW p \in Seq(Name), p # <<>>, p[1] = Slash
    PROVE  n \in Folders(p) <=>
             \/ n = <<>>
             \/ Len(n) + 2 <= Len(p) /\ SubSeq(p, 2, Len(n) + 1) = n /\ p[Len(n) + 2] = Slash
<1>1. Len(n) \in Nat /\ Len(p) \in Nat /\ Len(p) > 0
    BY EmptySeq
<1>2. \A i \in 1..Len(p) : SubSeq(p, 2, i - 1) \in Seq(Name)
                           /\ Len(SubSeq(p, 2, i - 1)) = IF i = 1 THEN 0 ELSE i - 2
    <2> TAKE i \in 1..Len(p)
    <2>1. \A j \in 2..(i - 1) : p[j] \in Name
        BY <1>1, ElementOfSeq
    <2>2. SubSeq(p, 2, i - 1) \in Seq(Name) /\ Len(SubSeq(p, 2, i - 1)) = IF 2 <= i - 1 THEN i - 1 - 2 + 1 ELSE 0
        BY <2>1, SubSeqProperties
    <2> QED BY <1>1, <2>2
<1>3. SubSeq(p, 2, 0) = <<>>
    BY <1>1, <1>2, EmptySeq
<1>4. ASSUME n \in Folders(p), n # <<>>
      PROVE  Len(n) + 2 <= Len(p) /\ SubSeq(p, 2, Len(n) + 1) = n /\ p[Len(n) + 2] = Slash
    <2>1. PICK i \in 1..Len(p) : p[i] = Slash /\ n = SubSeq(p, 2, i - 1)
        BY <1>4 DEF Folders
    <2>2. Len(n) # 0
        BY <1>4, EmptySeq
    <2>3. i = Len(n) + 2
        BY <1>1, <1>2, <2>1, <2>2
    <2> QED BY <1>1, <2>1, <2>3
<1>5. ASSUME n = <<>> PROVE n \in Folders(p)
    BY <1>1, <1>3, <1>5 DEF Folders
<1>6. ASSUME Len(n) + 2 <= Len(p), SubSeq(p, 2, Len(n) + 1) = n, p[Len(n) + 2] = Slash
      PROVE  n \in Folders(p)
    <2>1. PICK i \in 1..Len(p) : i = Len(n) + 2
        BY <1>1, <1>6
    <2>2. i - 1 = Len(n) + 1
        BY <1>1, <2>1
    <2>3. p[i] = Slash /\ n = SubSeq(p, 2, i - 1)
        BY <1>6, <2>1, <2>2
    <2> QED BY <2>3 DEF Folders
<1> QED BY <1>4, <1>5, <1>6

LEMMA MatchScopeAllows ==
    ASSUME NEW scope \in Scope, NEW r \in Request
    PROVE  match_scope(scope, r) <=> Allows(scope, r)
<1>1. scope.name \in Seq(Name)
    BY AuthStoreAssumption DEF Scope
<1> QED BY <1>1, PathText, InFolders DEF match_scope, Allows

LEMMA PublicReadIsPublic ==
    ASSUME NEW r \in Request
    PROVE  public_read(r) <=> <<Public>> \in Folders(r.path) /\ ~folder(r) /\ IsRead(r)
<1> DEFINE p == r.path
<1>1. p \in Seq(Name) /\ p # <<>> /\ p[1] = Slash /\ Public \in Name
    BY PathText, AccessAssumption
<1>2. <<Public>> \in Seq(Name) /\ <<Public>> # <<>> /\ Len(<<Public>>) = 1 /\ <<Public>>[1] = Public
    BY <1>1
<1> HIDE DEF p
<1>3. <<Public>> \in Folders(p) <=> 3 <= Len(p) /\ SubSeq(p, 2, 2) = <<Public>> /\ p[3] = Slash
    <2> DEFINE n == <<Public>>
    <2>1. n \in Seq(Name) /\ n # <<>> /\ Len(n) = 1
        BY <1>2
    <2> HIDE DEF n
    <2>2. n \in Folders(p) <=> Len(n) + 2 <= Len(p) /\ SubSeq(p, 2, Len(n) + 1) = n /\ p[Len(n) + 2] = Slash
        BY <1>1, <2>1, InFolders
    <2>3. Len(n) + 2 = 3 /\ Len(n) + 1 = 2
        BY <2>1
    <2> QED BY <2>2, <2>3 DEF n
<1>4. ASSUME 3 <= Len(p)
      PROVE  /\ (SubSeq(p, 2, 2) = <<Public>>) <=> (p[2] = Public)
             /\ (SubSeq(p, 1, 3) = <<Slash, Public, Slash>>) <=> (p[2] = Public /\ p[3] = Slash)
    <2>1. Len(SubSeq(p, 2, 2)) = 1 /\ SubSeq(p, 2, 2)[1] = p[2] /\ SubSeq(p, 2, 2) \in Seq(Name)
        BY <1>1, <1>4
    <2>2. /\ SubSeq(p, 1, 3) \in Seq(Name) /\ Len(SubSeq(p, 1, 3)) = 3
          /\ SubSeq(p, 1, 3)[1] = p[1] /\ SubSeq(p, 1, 3)[2] = p[2] /\ SubSeq(p, 1, 3)[3] = p[3]
        BY <1>1, <1>4
    <2>3. <<Slash, Public, Slash>> \in Seq(Name) /\ Len(<<Slash, Public, Slash>>) = 3
        BY AccessAssumption
    <2>4. p[2] = Public => SubSeq(p, 2, 2) = <<Public>>
        <3> SUFFICES ASSUME p[2] = Public PROVE \A i \in 1..1 : SubSeq(p, 2, 2)[i] = <<Public>>[i]
            BY <1>2, <2>1, SeqEqual
        <3> QED BY <2>1
    <2>5. p[2] = Public /\ p[3] = Slash => SubSeq(p, 1, 3) = <<Slash, Public, Slash>>
        <3> SUFFICES ASSUME p[2] = Public, p[3] = Slash
                     PROVE \A i \in 1..3 : SubSeq(p, 1, 3)[i] = <<Slash, Public, Slash>>[i]
            BY <2>2, <2>3, SeqEqual
        <3> QED BY <1>1, <2>2
    <2>6. SubSeq(p, 2, 2) = <<Public>> => p[2] = Public
        BY <1>2, <2>1
    <2>7. SubSeq(p, 1, 3) = <<Slash, Public, Slash>> => p[2] = Public /\ p[3] = Slash
        <3>1. <<Slash, Public, Slash>>[2] = Public /\ <<Slash, Public, Slash>>[3] = Slash
            OBVIOUS
        <3> QED BY <2>2, <3>1
    <2> QED BY <2>4, <2>5, <2>6, <2>7
<1>5. Len(p) \in Nat
    BY <1>1
<1>6. <<Public>> \in Folders(p) <=> Len(p) >= 3 /\ SubSeq(p, 1, 3) = <<Slash, Public, Slash>>
    BY <1>3, <1>4, <1>5
<1> QED BY <1>6 DEF public_read, p

\* make_disk_path() is the identity where it finds nothing.
LEMMA PlainPathsStay == ASSUME NEW path, Plain(path) PROVE make_disk_path(path) = path
BY DEF Plain, make_disk_path, Removed

LEMMA GrantedIsAuthorized ==
    ASSUME NEW r \in Request, NEW store \in Store
    PROVE  Granted(r, store) <=> token_matches(store, r) \/ public_read(r)
<1>1. ASSUME r.token # Nil, lookup_authorization(store, r.user, r.token) # Nil
      PROVE  lookup_authorization(store, r.user, r.token).scopes \subseteq Scope
    <2>1. r.user \in User /\ r.token \in Token
        BY <1>1 DEF Request
    <2>2. Key(r.user, r.token) \in Keys
        BY <2>1 DEF Keys
    <2> QED BY <1>1, <2>2 DEF lookup_authorization, Store, Authorization
<1> QED BY <1>1, MatchScopeAllows, PublicReadIsPublic DEF Granted, token_matches

-----------------------------------------------------------------------------
(***************************************************************************)
(* The inductive invariant.  An answer is justified because the steps it   *)
(* passed left their reason in was, and what is true now is in was too.    *)
(***************************************************************************)
Noted ==
    /\ pc # "idle" => out = Nil
    /\ Busy => Facts(req, users, db) \subseteq was
    /\ pc \in {"authorize", "dispatch"} => "user" \in was
    /\ pc = "dispatch" /\ req.method # "OPTIONS" => "granted" \in was

IInv == TypeOK /\ Sound(db) /\ Noted

LEMMA InitIInv == Init => IInv
BY EmptySound DEF Init, IInv, TypeOK, Noted, Busy, Uid

\* Whatever a step does to the rest, the observer notes what is true after it.
LEMMA ObserveNotes ==
    ASSUME TypeOK, Observe
    PROVE  /\ Facts(req', users', db') \subseteq was'
           /\ pc # "idle" => was \subseteq was'
           /\ was' \subseteq Observation
BY DEF Observe, Observation, Facts, TypeOK

LEMMA NextIInv == IInv /\ [Next]_vars => IInv'
<1> SUFFICES ASSUME TypeOK, Sound(db), Noted, [Next]_vars PROVE TypeOK' /\ Sound(db') /\ Noted'
    BY DEF IInv
<1>1. CASE UNCHANGED vars
    <2>1. TypeOK'
        BY <1>1 DEF vars, TypeOK
    <2>2. Sound(db')
        BY <1>1 DEF vars
    <2>3. Noted'
        BY <1>1 DEF vars, Noted, Busy
    <2> QED BY <2>1, <2>2, <2>3
<1>2. CASE Next
    <2>1. /\ Facts(req', users', db') \subseteq was'
          /\ pc # "idle" => was \subseteq was'
          /\ was' \subseteq Observation
        BY <1>2, ObserveNotes DEF Next
    <2>2. ASSUME NEW r \in Request, Take(r) PROVE TypeOK' /\ Sound(db') /\ Noted'
        <3>1. r # Nil
            BY AccessAssumption DEF Request
        <3> QED BY <2>1, <2>2, <3>1 DEF Take, TypeOK, Noted, Busy
    <2>3. CASE verify_user
        <3>1. users[req.user] = "regular" => "user" \in was
            BY <2>3 DEF verify_user, Facts, TypeOK, Noted, Busy
        <3>2. TypeOK' /\ Sound(db')
            BY <2>1, <2>3 DEF verify_user, Reply, Send, Goto, Status, TypeOK
        <3>3. Noted'
            BY <2>1, <2>3, <3>1 DEF verify_user, Reply, Send, Goto, Status, TypeOK, Noted, Busy
        <3> QED BY <3>2, <3>3
    <2>4. CASE authorize_request
        <3>1. pc = "authorize" /\ req \in Request /\ req # Nil /\ db \in Store
            BY <2>4 DEF authorize_request, TypeOK
        <3>2. Granted(req, db) => "granted" \in was
            BY <3>1 DEF Facts, Noted, Busy
        <3>3. token_matches(db, req) \/ public_read(req) => "granted" \in was
            BY <3>1, <3>2, GrantedIsAuthorized
        <3>4. TypeOK' /\ Sound(db')
            BY <2>1, <2>4 DEF authorize_request, Reply, Send, Goto, Status, TypeOK
        <3>5. Noted'
            BY <2>1, <2>4, <3>3 DEF authorize_request, Reply, Send, Goto, Status, TypeOK, Noted, Busy
        <3> QED BY <3>4, <3>5
    <2>5. CASE dispatch
        BY <2>1, <2>5 DEF dispatch, Reply, Send, Goto, Serves, Served, Status, TypeOK, Noted, Busy
    <2>6. ASSUME NEW u \in User, NEW t \in Token, RemoveToken(u, t)
          PROVE  TypeOK' /\ Sound(db') /\ Noted'
        <3>1. db' \in Store /\ Sound(db')
            BY <2>6, RemoveSound DEF RemoveToken, TypeOK
        <3> QED BY <2>1, <2>6, <3>1 DEF RemoveToken, TypeOK, Noted, Busy
    <2>7. ASSUME NEW u \in User, NEW t \in Token, NEW scopes \in Grant, AddToken(u, t, scopes)
          PROVE  TypeOK' /\ Sound(db') /\ Noted'
        <3>1. scopes \in SUBSET Scope
            BY AccessAssumption
        <3>2. [username |-> u, token |-> t, scopes |-> scopes] \in Authorization
            BY <3>1 DEF Authorization
        <3>3. db' \in Store /\ Sound(db')
            BY <2>7, <3>2, AddSound DEF AddToken, TypeOK
        <3> QED BY <2>1, <2>7, <3>3 DEF AddToken, TypeOK, Noted, Busy
    <2>8. ASSUME NEW u \in User, NEW uid \in Uid, ChangeUser(u, uid)
          PROVE  TypeOK' /\ Sound(db') /\ Noted'
        BY <2>1, <2>8 DEF ChangeUser, TypeOK, Noted, Busy
    <2>9. CASE Restart
        BY <2>1, <2>9 DEF Restart, TypeOK, Noted, Busy
    <2>10. CASE Lock \/ Unlock
        BY <2>1, <2>10 DEF Lock, Unlock, TypeOK, Noted, Busy
    <2> QED BY <1>2, <2>2, <2>3, <2>4, <2>5, <2>6, <2>7, <2>8, <2>9, <2>10 DEF Next, Serve, Environment
<1> QED BY <1>1, <1>2

LEMMA Inductive == Spec => []IInv
BY InitIInv, NextIInv, PTL DEF Spec

-----------------------------------------------------------------------------
\* Type correctness of dispatch_storage() and of the store it looks into.
THEOREM AccessTypeCorrect == Spec => []TypeOK
BY Inductive, PTL DEF IInv

\* No user is granted what the tools granted to another, or for another
\* token, whatever the names are, as long as user names have no bar.
THEOREM EveryAuthorizationIsOwn == Spec => []AuthorizationsAreOwn
<1>1. IInv => AuthorizationsAreOwn
    BY LookupSound DEF IInv, TypeOK, AuthorizationsAreOwn
<1> QED BY <1>1, Inductive, PTL

\* Whatever tools and administrator do in the middle of a request, 200 and
\* 204 are answered only to a user that was there and, except to OPTIONS, for
\* a path that was granted or public as it came, and what is served is that
\* path unless make_disk_path() finds something to remove in it; 404 and 401
\* are answered only if at some time that was not so.
THEOREM EveryAnswerIsJustified == Spec => AnswersAreJustified
<1> DEFINE Justified ==
        /\ out'.status \in {Served, 204} => "user" \in was
        /\ out'.status = Served => "granted" \in was /\ (Plain(req.path) => out'.path = req.path)
        /\ out'.status = 404 => "no user" \in was
        /\ out'.status = 401 => "not granted" \in was
<1>1. ASSUME IInv, Next, Answered PROVE Justified
    <2>0. TypeOK /\ Noted
        BY <1>1 DEF IInv
    <2>1. CASE verify_user
        <3>1. users[req.user] # "regular" => "no user" \in was
            BY <2>0, <2>1 DEF verify_user, TypeOK, Noted, Busy, Facts
        <3>2. (out'.status = 404 /\ users[req.user] # "regular") \/ out'.status = 500
            BY <1>1, <2>1 DEF verify_user, Reply, Send, Goto, Answered
        <3>3. /\ out'.status \notin {Served, 204} /\ out'.status # Served /\ out'.status # 401
              /\ out'.status = 404 => users[req.user] # "regular"
            BY <3>2 DEF Served
        <3> QED BY <3>1, <3>3, Zenon
    <2>2. CASE authorize_request
        <3>1. req \in Request /\ req # Nil /\ pc = "authorize" /\ db \in Store
            BY <2>0, <2>2 DEF authorize_request, TypeOK
        <3>2. ~(token_matches(db, req) \/ public_read(req)) => "not granted" \in was
            BY <2>0, <3>1, GrantedIsAuthorized DEF Facts, Noted, Busy
        <3>3. out'.status = 401 /\ ~(token_matches(db, req) \/ public_read(req))
            BY <1>1, <2>2 DEF authorize_request, Reply, Send, Goto, Answered
        <3>4. out'.status \notin {Served, 204} /\ out'.status # Served /\ out'.status # 404
            BY <3>3 DEF Served
        <3> QED BY <3>2, <3>3, <3>4, Zenon
    <2>3. CASE dispatch
        <3>1. "user" \in was /\ (req.method # "OPTIONS" => "granted" \in was)
            BY <2>0, <2>3 DEF dispatch, Noted
        <3>2. \/ out'.status = 204
              \/ out'.status = Served /\ req.method # "OPTIONS" /\ out'.path = make_disk_path(req.path)
              \/ out'.status \in {400, 405, 412, 500}
            BY <1>1, <2>3 DEF dispatch, Reply, Serves, Send, Goto, Answered
        <3>3. CASE out'.status = Served
            <4>1. req.method # "OPTIONS" /\ out'.path = make_disk_path(req.path)
                BY <3>2, <3>3 DEF Served
            <4>2. Plain(req.path) => out'.path = req.path
                BY <4>1, PlainPathsStay
            <4>3. out'.status # 404 /\ out'.status # 401
                BY <3>3 DEF Served
            <4> QED BY <3>1, <4>1, <4>2, <4>3, Zenon
        <3>4. CASE out'.status \in {204, 400, 405, 412, 500}
            <4>1. out'.status # Served /\ out'.status # 404 /\ out'.status # 401
                BY <3>4 DEF Served
            <4> QED BY <3>1, <4>1, Zenon
        <3>5. out'.status = Served \/ out'.status \in {204, 400, 405, 412, 500}
            BY <3>2, Zenon
        <3> QED BY <3>3, <3>4, <3>5
    <2>4. ~Environment
        BY <1>1, <2>0 DEF Environment, Answered, Noted, Take, RemoveToken, AddToken, ChangeUser, Lock,
                          Unlock, Restart
    <2> QED BY <1>1, <2>1, <2>2, <2>3, <2>4 DEF Next, Serve
<1>2. IInv /\ [Next]_vars => [Answered => Justified]_vars
    BY <1>1
<1> QED BY <1>2, Inductive, PTL DEF Spec, AnswersAreJustified
-----------------------------------------------------------------------------
\* What changes the store changes one record, to nothing or to one grant.
LEMMA StoreSteps ==
    ASSUME TypeOK, [Next]_vars, ~UNCHANGED db
    PROVE  \E k \in Keys : \/ db' = [db EXCEPT ![k] = Nil]
                          \/ \E auth : db' = [db EXCEPT ![k] = auth] /\ auth.scopes \in Grant
<1>1. ASSUME NEW u \in User, NEW t \in Token, RemoveToken(u, t)
      PROVE  Key(u, t) \in Keys /\ db' = [db EXCEPT ![Key(u, t)] = Nil]
    BY <1>1 DEF RemoveToken, remove_authorization, Keys
<1>2. ASSUME NEW u \in User, NEW t \in Token, NEW scopes \in Grant, AddToken(u, t, scopes)
      PROVE  \E k \in Keys : \E auth : db' = [db EXCEPT ![k] = auth] /\ auth.scopes \in Grant
    <2> DEFINE auth == [username |-> u, token |-> t, scopes |-> scopes]
    <2>1. auth.username = u /\ auth.token = t /\ auth.scopes \in Grant
        OBVIOUS
    <2>2. db' = add_authorization(db, auth)
        BY <1>2 DEF AddToken
    <2> HIDE DEF auth
    <2>3. Key(u, t) \in Keys /\ db' = [db EXCEPT ![Key(u, t)] = auth]
        BY <2>1, <2>2 DEF add_authorization, Keys
    <2> QED BY <2>1, <2>3
<1>3. CASE UNCHANGED vars
    BY <1>3 DEF vars
<1>4. ASSUME Next
      PROVE  \/ \E u \in User, t \in Token : RemoveToken(u, t)
             \/ \E u \in User, t \in Token : \E scopes \in Grant : AddToken(u, t, scopes)
    BY <1>4 DEF Next, Serve, Environment, Take, Lock, Unlock, Restart, ChangeUser, verify_user, authorize_request, dispatch
<1> QED BY <1>1, <1>2, <1>3, <1>4

\* A token is worth what its last grant said, never the union of several.
THEOREM NoGrantIsMerged == Spec => []GrantsAreNotMerged
<1>1. Init => GrantsAreNotMerged
    BY DEF Init, NoAuthorizations, GrantsAreNotMerged
<1>2. TypeOK /\ GrantsAreNotMerged /\ [Next]_vars => GrantsAreNotMerged'
    <2> SUFFICES ASSUME TypeOK, GrantsAreNotMerged, [Next]_vars, ~UNCHANGED db PROVE GrantsAreNotMerged'
        BY DEF GrantsAreNotMerged
    <2>1. PICK k \in Keys : \/ db' = [db EXCEPT ![k] = Nil]
                           \/ \E auth : db' = [db EXCEPT ![k] = auth] /\ auth.scopes \in Grant
        BY StoreSteps
    <2>2. db'[k] # Nil => db'[k].scopes \in Grant
        BY <2>1 DEF TypeOK, Store
    <2>3. \A l \in Keys \ {k} : db'[l] = db[l]
        BY <2>1 DEF TypeOK, Store
    <2> QED BY <2>2, <2>3 DEF GrantsAreNotMerged
<1> QED BY <1>1, <1>2, AccessTypeCorrect, PTL DEF Spec

-----------------------------------------------------------------------------
(***************************************************************************)
(* The storage with webfinger beside it.                                   *)
(***************************************************************************)
LEMMA EndpointsStep == [EndpointsNext]_endpointVars => [Next]_vars
BY DEF EndpointsNext, Find, endpointVars, vars

\* A lookup changes nothing: with webfinger on its event loop the storage does what Access
\* says, and all that is proved of Access is true of it.
THEOREM EndpointsImplementAccess == EndpointsSpec => Spec
<1>1. EndpointsInit => Init
    BY DEF EndpointsInit
<1> QED BY <1>1, EndpointsStep, PTL DEF EndpointsSpec, Spec

\* What process_resource() makes of a resource, whether or not the passwd database answers.
LEMMA ResourceIsFound ==
    ASSUME NEW resource \in Resource, NEW failing \in {FALSE, MayFail}
    PROVE  /\ resource.wrong = Nil /\ users[resource.user] = "regular" =>
                process_resource(users, resource, failing)
           /\ process_resource(users, resource, failing) => resource.wrong = Nil
           /\ process_resource(users, resource, failing) /\ users[resource.user] = "system" => failing
<1>1. None = Nil /\ Nil \notin {"system", "regular"} /\ MayFail \in BOOLEAN
    BY AccessAssumption, EndpointsAssumption
<1>2. CASE failing
    BY <1>1, <1>2 DEF process_resource, user_get_uid, UID_ALLOWED
<1>3. CASE ~failing
    BY <1>1, <1>3 DEF process_resource, user_get_uid, UID_ALLOWED
<1> QED BY <1>1, <1>2, <1>3

\* Who has a storage is found, in every state the administrator can bring the
\* users to; no account with something wrong with it ever is, and a user who may
\* not have a storage is only by a lookup the passwd database did not answer.
THEOREM EveryUserIsFound == EndpointsSpec => UsersAreFound
<1> DEFINE RightlyFound ==
        LET r == found'.answer.resource IN
        /\ r.wrong = Nil /\ users[r.user] = "regular" => found'.answer.status = 200
        /\ found'.answer.status = 200 => r.wrong = Nil
        /\ found'.answer.status = 200 /\ users[r.user] = "system" => found'.failed
<1>1. ASSUME EndpointsNext, Resolves PROVE RightlyFound
    <2>1. None = Nil
        BY EndpointsAssumption
    <2>2. PICK method \in {"GET", "OPTIONS", "POST"}, resource \in Resource \cup {Nil} :
              (method # "GET" => resource = Nil) /\ Find(method, resource)
        BY <1>1 DEF EndpointsNext, Resolves, Finds
    <2>3. PICK failing \in {FALSE, MayFail}, garbage \in Garbage :
              found' = [answer |-> handle_webfinger(users, method, resource, failing, garbage), failed |-> failing]
        BY <1>1, <2>2 DEF Find, Resolves
    <2>4. found'.answer = handle_webfinger(users, method, resource, failing, garbage) /\ found'.failed = failing
        BY <2>3
    <2>5. method = "GET" /\ resource \in Resource
        BY <1>1, <2>1, <2>2, <2>4 DEF handle_webfinger, Answer, Resolves
    <2>6. resource # Nil
        BY <1>1, <2>1, <2>4, <2>5 DEF handle_webfinger, Answer, Resolves
    <2>7. /\ found'.answer.resource = resource
          /\ found'.answer.status = IF process_resource(users, resource, failing) THEN 200 ELSE 404
        BY <2>1, <2>4, <2>5, <2>6 DEF handle_webfinger, Answer
    <2>8. found'.answer.status = 200 <=> process_resource(users, resource, failing)
        BY <2>7
    <2>9. /\ resource.wrong = Nil /\ users[resource.user] = "regular" => found'.answer.status = 200
          /\ found'.answer.status = 200 => resource.wrong = Nil
          /\ found'.answer.status = 200 /\ users[resource.user] = "system" => found'.failed
        BY <2>3, <2>4, <2>5, <2>8, ResourceIsFound
    <2> QED BY <2>7, <2>9
<1> QED BY <1>1, PTL DEF EndpointsSpec, UsersAreFound
=============================================================================
