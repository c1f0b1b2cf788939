----------------------------- MODULE AuthServer -----------------------------
(***************************************************************************)
(* auth/: the authorization server.  Its backend (a node process: one      *)
(* callback at a time, with asynchronous calls of PAM and of the random    *)
(* generator) keeps sessions in memory and puts authorizations into the    *)
(* store of AuthStore.  Its frontend runs in the tabs of a browser, which  *)
(* share their localStorage, and talks to the backend by XMLHttpRequests   *)
(* that are answered in any order, fail, or outlive their page.            *)
(***************************************************************************)
EXTENDS AuthStore

CONSTANTS
    Tab,            \* the tabs of a browser
    Xhr,            \* as many requests as may be under way at a time
    SessionToken,   \* tokens of sessions
    Asked           \* the scope parameters apps send users here with

ASSUME AuthServerAssumption ==
    /\ Nil \notin Tab \cup SessionToken
    /\ \A a \in Asked : a # Nil /\ DOMAIN a \subseteq Seq(Name)
                            /\ \A n \in DOMAIN a :
                                 /\ a[n] \in {"r", "rw"}
                                 /\ (IF n = <<"root">> THEN <<>> ELSE n) \in ScopeName

VARIABLES
    sessions,   \* STATE.sessions: the user of each session token
    db,         \* the authorization store
    saved,      \* localStorage['rs-serve-auth-session']
    tab,        \* each tab's page and Session
    xhr         \* the requests under way

vars == <<sessions, db, saved, tab, xhr>>

\* A page: what is in its content container ("new" before the first event,
\* "left" once the browser goes back to the app), whether its header with the
\* logout link is shown, session.sessionToken, and oauthstate.scope.
Blank == [content |-> "left", header |-> FALSE, token |-> Nil, scope |-> Nil]

\* A request: the tab that waits for it, if any, what is asked with which
\* session token, the user of it as far as known, and how far it is.
Request(t, op, session, user, scope) ==
    [tab |-> t, op |-> op, session |-> session, user |-> user, scope |-> scope,
     stage |-> "sent", ok |-> FALSE, token |-> Nil]

\* The requests when t's page is gone: they go on, but nobody waits.
Abandoned(t) ==
    [i \in Xhr |-> CASE xhr[i] = Nil -> Nil
                     [] xhr[i] # Nil /\ xhr[i].tab # t -> xhr[i]
                     [] OTHER -> IF xhr[i].stage = "answered" THEN Nil
                                 ELSE [xhr[i] EXCEPT !.tab = Nil]]

Send(i, request) == xhr[i] = Nil /\ xhr' = [xhr EXCEPT ![i] = request]

-----------------------------------------------------------------------------
(***************************************************************************)
(* frontend/session.js and frontend/ui.js                                  *)
(***************************************************************************)
showLoginForm(page) == [page EXCEPT !.content = "login", !.header = FALSE]

\* Without an app's request the user's authorizations are listed, by a
\* request that takes the place of request i.
loggedIn(t, i, page) ==
    /\ tab' = [tab EXCEPT ![t] = [page EXCEPT !.header = TRUE,
                 !.content = IF page.scope # Nil THEN "request" ELSE "none"]]
    /\ xhr' = [xhr EXCEPT ![i] = IF page.scope # Nil THEN Nil
                                 ELSE Request(t, "list", page.token, Nil, Nil)]

\* app.js: the page is loaded, and the saved session with it.
Load(t, scope) ==
    /\ tab' = [tab EXCEPT ![t] = [content |-> "new", header |-> FALSE, scope |-> scope,
                                  token |-> IF saved = Nil THEN Nil ELSE saved.token]]
    /\ xhr' = Abandoned(t)
    /\ UNCHANGED <<sessions, db, saved>>

\* The timeout that Session sets.
Start(t) ==
    /\ tab[t].content = "new"
    /\ \/ tab[t].token = Nil /\ tab' = [tab EXCEPT ![t] = showLoginForm(@)] /\ UNCHANGED xhr
       \/ tab[t].token # Nil /\ \E i \in Xhr : xhr[i] = Nil /\ loggedIn(t, i, tab[t])
    /\ UNCHANGED <<sessions, db, saved>>

\* The login form, with its button disabled until it is shown again.
doLogin(t, i, user) ==
    /\ tab[t].content = "login"
    /\ Send(i, Request(t, "login", Nil, user, Nil))
    /\ tab' = [tab EXCEPT ![t].content = "waiting"]
    /\ UNCHANGED <<sessions, db, saved>>

confirmAuth(t, i) ==
    /\ tab[t].content = "request"
    /\ Send(i, Request(t, "grant", tab[t].token, Nil, tab[t].scope))
    /\ UNCHANGED <<sessions, db, saved, tab>>

logout(t, i) ==
    /\ tab[t].header /\ tab[t].content # "left"
    /\ Send(i, Request(t, "logout", tab[t].token, Nil, Nil))
    /\ UNCHANGED <<sessions, db, saved, tab>>

\* A login that fails shows the form again, if it is still there; all else
\* that fails is logged.
on_error(t, op) ==
    /\ tab' = IF op = "login" /\ ~tab[t].header
              THEN [tab EXCEPT ![t] = showLoginForm(@)] ELSE tab
    /\ UNCHANGED saved

\* Bug: the name typed last (this.username) is saved, not the one sent.
savedData_last_name(i) ==
    LET later == {j \in Xhr \ {i} : xhr[j] # Nil /\ xhr[j].tab = xhr[i].tab /\ xhr[j].op = "login"}
    IN  [username |-> xhr[IF later = {} THEN i ELSE CHOOSE j \in later : TRUE].user,
         token |-> xhr[i].token]

savedData(i) == [username |-> xhr[i].user, token |-> xhr[i].token]

\* Bug: nobody is told of the logout.
loggedOut_silently(page) == [page EXCEPT !.token = Nil]

loggedOut(page) == showLoginForm([page EXCEPT !.token = Nil])

on_success(t, i) ==
    LET x == xhr[i] IN
    \/ /\ x.op = "login"
       /\ saved' = savedData(i)
       /\ loggedIn(t, i, [tab[t] EXCEPT !.token = x.token])
    \/ /\ x.op = "list"
       /\ tab' = [tab EXCEPT ![t].content = "list"]
       /\ xhr' = [xhr EXCEPT ![i] = Nil]
       /\ UNCHANGED saved
    \/ /\ x.op = "grant"
       /\ tab' = [tab EXCEPT ![t].content = "left"]
       /\ xhr' = [Abandoned(t) EXCEPT ![i] = Nil]
       /\ UNCHANGED saved
    \/ /\ x.op = "logout"
       /\ saved' = Nil
       /\ tab' = [tab EXCEPT ![t] = loggedOut(@)]
       /\ xhr' = [xhr EXCEPT ![i] = Nil]

Waited(i) == xhr[i] # Nil /\ xhr[i].tab # Nil

\* xhr.onload
Receive(i) ==
    /\ Waited(i) /\ xhr[i].stage = "answered"
    /\ \/ xhr[i].ok /\ on_success(xhr[i].tab, i)
       \/ ~xhr[i].ok /\ on_error(xhr[i].tab, xhr[i].op) /\ xhr' = [xhr EXCEPT ![i] = Nil]
    /\ UNCHANGED <<sessions, db>>

\* xhr.onerror: the backend is not reached, or goes on without noticing that
\* nobody waits for its answer any more.
Disconnect(i) ==
    /\ Waited(i) /\ xhr[i].stage # "answered"
    /\ on_error(xhr[i].tab, xhr[i].op)
    /\ \/ xhr[i].stage = "sent" /\ xhr' = [xhr EXCEPT ![i] = Nil]
       \/ xhr' = [xhr EXCEPT ![i].tab = Nil]
    /\ UNCHANGED <<sessions, db>>

-----------------------------------------------------------------------------
(***************************************************************************)
(* backend/app.js and bindings/auth.cc                                     *)
(***************************************************************************)
At(i, op, stage) == xhr[i] # Nil /\ xhr[i].op = op /\ xhr[i].stage = stage

Proceed(i, stage, user) == xhr' = [xhr EXCEPT ![i].stage = stage, ![i].user = user]

Answer(i, ok, token) ==
    xhr' = [xhr EXCEPT ![i] = IF @.tab = Nil THEN Nil
                              ELSE [@ EXCEPT !.stage = "answered", !.ok = ok, !.token = token]]

\* node's one thread is in a call of the binding that waits for the lock of the
\* database, or stays in the loop of its cursor (AuthDB).
Hangs == \E i \in Xhr : xhr[i] # Nil /\ xhr[i].stage = "blocked"

\* It is free, or comes out of the call made for request i.
Runs(i) == \A j \in Xhr : xhr[j] # Nil /\ xhr[j].stage = "blocked" => j = i

\* A request in which the binding is called, and that has come to the call.
Calls(i, op, stage) == At(i, op, stage) \/ At(i, op, "blocked")

\* crypto.randomBytes() failed: no callback is called.
NeverAnswer(i) == Proceed(i, "stuck", xhr[i].user)

\* Random bytes that are not in use anywhere.
FreshSession(s) ==
    /\ sessions[s] = Nil
    /\ saved # Nil => saved.token # s
    /\ \A t \in Tab : tab[t].token # s
    /\ \A i \in Xhr : xhr[i] # Nil => s \notin {xhr[i].session, xhr[i].token}
FreshToken(t) ==
    /\ \A u \in User : lookup_authorization(db, u, t) = Nil
    /\ \A i \in Xhr : xhr[i] # Nil => xhr[i].token # t

\* POST /authenticate
authenticate(i) ==
    /\ At(i, "login", "sent")
    /\ Proceed(i, "pam", xhr[i].user)
    /\ UNCHANGED <<sessions, db, saved, tab>>

pamauth(i) ==
    /\ At(i, "login", "pam")
    /\ Proceed(i, "random", xhr[i].user) \/ Answer(i, FALSE, Nil)
    /\ UNCHANGED <<sessions, db, saved, tab>>

generateSessionToken(i) ==
    /\ At(i, "login", "random")
    /\ \/ \E s \in SessionToken :
            /\ FreshSession(s)
            /\ sessions' = [sessions EXCEPT ![s] = xhr[i].user]
            /\ Answer(i, TRUE, s)
       \/ NeverAnswer(i) /\ UNCHANGED sessions
    /\ UNCHANGED <<db, saved, tab>>

\* Bug: a session is required.
unauthenticate_verified(i) ==
    /\ At(i, "logout", "sent")
    /\ sessions' = [sessions EXCEPT ![xhr[i].session] = Nil]
    /\ Answer(i, sessions[xhr[i].session] # Nil, Nil)
    /\ UNCHANGED <<db, saved, tab>>

\* Bug: a request without a session is not passed on.
unauthenticate_no_next(i) ==
    /\ At(i, "logout", "sent")
    /\ sessions[xhr[i].session] # Nil
    /\ sessions' = [sessions EXCEPT ![xhr[i].session] = Nil]
    /\ Answer(i, TRUE, Nil)
    /\ UNCHANGED <<db, saved, tab>>

\* DELETE /authenticate, with or without a session
unauthenticate(i) ==
    /\ At(i, "logout", "sent")
    /\ sessions' = [sessions EXCEPT ![xhr[i].session] = Nil]
    /\ Answer(i, TRUE, Nil)
    /\ UNCHANGED <<db, saved, tab>>

\* GET /authorizations.  What the list holds is list_authorizations().
listAuthorizations(i) ==
    /\ Calls(i, "list", "sent")
    /\ Answer(i, sessions[xhr[i].session] # Nil, Nil)
    /\ UNCHANGED <<sessions, db, saved, tab>>

\* POST /authorizations: the session is verified, then the token generated.
verifySessionToken(i) ==
    /\ At(i, "grant", "sent")
    /\ \/ sessions[xhr[i].session] # Nil /\ Proceed(i, "random", sessions[xhr[i].session])
       \/ sessions[xhr[i].session] = Nil /\ Answer(i, FALSE, Nil)
    /\ UNCHANGED <<sessions, db, saved, tab>>

\* Bug: whatever may be read may be written.
Add_all_rw(scope) ==
    {[name |-> IF n = <<"root">> THEN <<>> ELSE n, write |-> TRUE] : n \in DOMAIN scope}

\* The binding's Add(): "root" is the name of the root folder.
Add(scope) ==
    {[name |-> IF n = <<"root">> THEN <<>> ELSE n, write |-> scope[n] = "rw"] : n \in DOMAIN scope}

createAuthorization(i) ==
    /\ Calls(i, "grant", "random")
    /\ \/ \E t \in Token :
            /\ FreshToken(t)
            /\ db' = add_authorization(db, [username |-> xhr[i].user, token |-> t,
                                            scopes |-> Add(xhr[i].scope)])
            /\ Answer(i, TRUE, t)
       \/ At(i, "grant", "random") /\ NeverAnswer(i) /\ UNCHANGED db
    /\ UNCHANGED <<sessions, saved, tab>>

\* List() and Add() open the database and call it.
Block(i) ==
    /\ ~Hangs
    /\ \/ At(i, "list", "sent") /\ sessions[xhr[i].session] # Nil
       \/ At(i, "grant", "random")
    /\ Proceed(i, "blocked", xhr[i].user)
    /\ UNCHANGED <<sessions, db, saved, tab>>

\* The backend is started again: its sessions and pending calls are gone.
Restart ==
    /\ sessions' = [s \in SessionToken |-> Nil]
    /\ xhr' = [i \in Xhr |-> CASE xhr[i] = Nil -> Nil
                  [] xhr[i] # Nil /\ xhr[i].stage \in {"sent", "answered"} -> xhr[i]
                  [] OTHER -> IF xhr[i].tab = Nil THEN Nil
                              ELSE [xhr[i] EXCEPT !.stage = "answered", !.ok = FALSE]]
    /\ UNCHANGED <<db, saved, tab>>

\* rs-remove-token
RemoveToken(u, t) ==
    /\ db' = remove_authorization(db, u, t)
    /\ UNCHANGED <<sessions, saved, tab, xhr>>

-----------------------------------------------------------------------------
Init ==
    /\ sessions = [s \in SessionToken |-> Nil]
    /\ db = NoAuthorizations
    /\ saved = Nil
    /\ tab = [t \in Tab |-> Blank]
    /\ xhr = [i \in Xhr |-> Nil]

Backend(i) ==
    /\ Runs(i)
    /\ \/ authenticate(i) \/ pamauth(i) \/ generateSessionToken(i) \/ unauthenticate(i)
       \/ listAuthorizations(i) \/ verifySessionToken(i) \/ createAuthorization(i)

Next ==
    \/ \E t \in Tab :
         \/ \E scope \in Asked \cup {Nil} : Load(t, scope)
         \/ Start(t)
         \/ \E i \in Xhr : \/ \E user \in User : doLogin(t, i, user)
                           \/ confirmAuth(t, i) \/ logout(t, i)
    \/ \E i \in Xhr : Receive(i) \/ Disconnect(i) \/ Backend(i) \/ Block(i)
    \/ Restart
    \/ \E u \in User, t \in Token : RemoveToken(u, t)

Spec == Init /\ [][Next]_vars

\* Both event loops turn: what is ready is done in its turn, whenever the
\* thread is free.  Nothing says that a call of the binding returns.
FairSpec == Spec /\ \A i \in Xhr : SF_vars(~Hangs /\ Backend(i)) /\ WF_vars(Receive(i))

-----------------------------------------------------------------------------
(***************************************************************************)
(* Properties                                                              *)
(***************************************************************************)

\* A page with the logout link has a token to send.
TypeOK ==
    /\ sessions \in [SessionToken -> User \cup {Nil}]
    /\ db \in Store
    /\ saved \in [username : User, token : SessionToken] \cup {Nil}
    /\ tab \in [Tab -> [content : {"new", "none", "login", "waiting", "request", "list", "left"},
                        header : BOOLEAN, token : SessionToken \cup {Nil},
                        scope : Asked \cup {Nil}]]
    /\ \A t \in Tab : tab[t].header => tab[t].token # Nil
    /\ \A i \in Xhr : xhr[i] # Nil =>
         /\ xhr[i].tab \in Tab \cup {Nil} /\ xhr[i].user \in User \cup {Nil}
         /\ xhr[i].op \in {"list", "logout", "grant"} => xhr[i].session \in SessionToken
         /\ xhr[i].stage \in {"sent", "pam", "random", "blocked", "answered", "stuck"}

\* The session the browser has saved, and the one a pending grant was begun
\* in, are of the user they are taken to be of (session.js:157-163,
\* app.js:99-101), whatever other tabs, logins and logouts did meanwhile.
SessionsAreOwn ==
    /\ saved # Nil => sessions[saved.token] \in {Nil, saved.username}
    /\ \A i \in Xhr : Calls(i, "grant", "random") => sessions[xhr[i].session] \in {Nil, xhr[i].user}

\* A logout that is answered ends the session on both sides, for good, even
\* if the backend did not know it any more (verifySessionTokenOptional).
LogoutEndsSession ==
    [][\A i \in Xhr : At(i, "logout", "answered") /\ xhr'[i] = Nil /\ xhr[i].tab # Nil =>
         LET t == xhr[i].tab IN
         \/ tab'[t].content \in {"new", "left"}
         \/ tab'[t].token = Nil /\ saved' = Nil /\ sessions'[xhr[i].session] = Nil]_vars

\* The token an app gets stands for what the user has confirmed, on the page
\* that is still open, and for nothing else.
GrantIsWhatWasConfirmed ==
    [][\A i \in Xhr : Calls(i, "grant", "random") /\ At(i, "grant", "answered")' /\ xhr'[i].ok =>
         LET auth == lookup_authorization(db', xhr[i].user, xhr'[i].token)
             asked == tab[xhr[i].tab].scope
             stands(s, n) == /\ s.name = (IF n = <<"root">> THEN <<>> ELSE n)
                             /\ s.write <=> asked[n] = "rw"
         IN  /\ auth # Nil
             /\ \A n \in DOMAIN asked : \E s \in auth.scopes : stands(s, n)
             /\ \A s \in auth.scopes : \E n \in DOMAIN asked : stands(s, n)]_vars

\* A request ends, unless there was no randomness to be had, or the thread hangs
\* in the database, in whosever request, for good.
EveryRequestEnds ==
    []<>~Hangs => \A i \in Xhr : xhr[i] # Nil ~> xhr[i] = Nil \/ xhr[i].stage = "stuck"
=============================================================================
