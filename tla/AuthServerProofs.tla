-------------------------- MODULE AuthServerProofs --------------------------
(***************************************************************************)
(* Whose a session is, for any number of tabs, requests and users.         *)
(***************************************************************************)
EXTENDS AuthServer, AuthStoreProofs

Page == [content : {"new", "none", "login", "waiting", "request", "list", "left"},
         header : BOOLEAN, token : SessionToken \cup {Nil}, scope : Asked \cup {Nil}]

Stages == {"sent", "pam", "random", "blocked", "answered", "stuck"}

AnyRequest == [tab : Tab \cup {Nil}, op : {"login", "list", "grant", "logout"},
               session : SessionToken \cup {Nil}, user : User \cup {Nil},
               scope : Asked \cup {Nil},
               stage : Stages, ok : BOOLEAN,
               token : SessionToken \cup Token \cup {Nil}]

-----------------------------------------------------------------------------
(***************************************************************************)
(* The inductive invariant.                                                *)
(***************************************************************************)
\* A page shows a request to confirm, or the logout link, to who is logged in only.
PageOK(page) ==
    /\ page \in Page
    /\ page.header => page.token # Nil
    /\ page.content = "request" => page.header /\ page.scope # Nil

\* What each kind of request carries at each stage.
RequestOK(x) ==
    /\ x \in AnyRequest
    /\ x.op = "login" => x.user \in User
    /\ x.op \in {"list", "logout", "grant"} => x.session \in SessionToken
    /\ x.op = "grant" => x.scope \in Asked
    /\ x.op = "grant" /\ x.stage \in {"random", "blocked"} => x.user \in User
    /\ x.op = "login" /\ x.stage = "answered" /\ x.ok => x.token \in SessionToken
    /\ x.op = "logout" => x.stage = "sent" \/ (x.stage = "answered" /\ x.ok)

\* Whose the sessions s are that a request was answered with or goes on in.
Owned(x, s) ==
    /\ x.op = "login" /\ x.stage = "answered" /\ x.ok => s[x.token] \in {Nil, x.user}
    /\ x.op = "grant" /\ x.stage \in {"random", "blocked"} => s[x.session] \in {Nil, x.user}
    /\ x.op = "logout" /\ x.stage = "answered" => s[x.session] = Nil

StateOK ==
    /\ sessions \in [SessionToken -> User \cup {Nil}]
    /\ db \in Store /\ Sound(db)
    /\ saved \in [username : User, token : SessionToken] \cup {Nil}
    /\ saved # Nil => sessions[saved.token] \in {Nil, saved.username}
    /\ tab = [t \in Tab |-> tab[t]] /\ \A t \in Tab : PageOK(tab[t])

RequestsOK ==
    /\ xhr = [i \in Xhr |-> xhr[i]]
    /\ \A i \in Xhr : xhr[i] # Nil => RequestOK(xhr[i]) /\ Owned(xhr[i], sessions)

AuthInv == StateOK /\ RequestsOK

LEMMA AuthInvImplies == AuthInv => TypeOK /\ SessionsAreOwn
<1> SUFFICES ASSUME AuthInv PROVE TypeOK /\ SessionsAreOwn
  OBVIOUS
<1>1. tab \in [Tab -> Page]
  BY DEF AuthInv, StateOK, PageOK
<1>2. \A i \in Xhr : xhr[i] # Nil =>
         /\ xhr[i].tab \in Tab \cup {Nil} /\ xhr[i].user \in User \cup {Nil}
         /\ xhr[i].op \in {"list", "logout", "grant"} => xhr[i].session \in SessionToken
         /\ xhr[i].stage \in {"sent", "pam", "random", "blocked", "answered", "stuck"}
  BY DEF AuthInv, RequestsOK, RequestOK, AnyRequest, Stages
<1>3. TypeOK
  BY <1>1, <1>2 DEF AuthInv, StateOK, PageOK, Page, TypeOK
<1>4. SessionsAreOwn
  BY DEF AuthInv, StateOK, RequestsOK, Owned, SessionsAreOwn, At, Calls
<1> QED
  BY <1>3, <1>4

-----------------------------------------------------------------------------
(***************************************************************************)
(* Requests that change in a step, or do not.                              *)
(***************************************************************************)
\* A request whose page is gone is what it was, or no more.
LEMMA AbandonedOK ==
    ASSUME RequestsOK, NEW t \in Tab, NEW i \in Xhr, Abandoned(t)[i] # Nil
    PROVE  /\ RequestOK(Abandoned(t)[i]) /\ Owned(Abandoned(t)[i], sessions)
<1> DEFINE x == xhr[i]
<1>1. x # Nil /\ (Abandoned(t)[i] = x \/ Abandoned(t)[i] = [x EXCEPT !.tab = Nil])
  BY DEF Abandoned
<1>2. RequestOK(x) /\ Owned(x, sessions)
  BY <1>1 DEF RequestsOK
<1>3. x \in AnyRequest
  BY <1>2 DEF RequestOK
<1> HIDE DEF x
<1> DEFINE y == [x EXCEPT !.tab = Nil]
<1>4. /\ y \in AnyRequest /\ y.op = x.op /\ y.session = x.session /\ y.user = x.user
      /\ y.scope = x.scope /\ y.stage = x.stage /\ y.ok = x.ok /\ y.token = x.token
  BY <1>3 DEF AnyRequest
<1> HIDE DEF y
<1>5. RequestOK(y) /\ Owned(y, sessions)
  BY <1>2, <1>4 DEF RequestOK, Owned
<1> QED
  BY <1>1, <1>2, <1>5 DEF y

\* A new request is as it should be.
LEMMA NewRequestOK ==
    ASSUME NEW t \in Tab, NEW op \in {"login", "list", "grant", "logout"},
           NEW session \in SessionToken \cup {Nil}, NEW user \in User \cup {Nil},
           NEW scope \in Asked \cup {Nil},
           op = "login" => user \in User,
           op # "login" => session \in SessionToken,
           op = "grant" => scope \in Asked
    PROVE  LET x == Request(t, op, session, user, scope)
           IN  RequestOK(x) /\ \A s : Owned(x, s)
<1> DEFINE x == Request(t, op, session, user, scope)
<1>1. /\ x \in AnyRequest /\ x.op = op /\ x.session = session /\ x.user = user
      /\ x.scope = scope /\ x.stage = "sent" /\ ~x.ok
  BY DEF Request, AnyRequest, Stages
<1> HIDE DEF x
<1>2. RequestOK(x) /\ \A s : Owned(x, s)
  BY <1>1 DEF RequestOK, Owned
<1> QED
  BY <1>2 DEF x

\* One request goes on or ends, the sessions of the others are untouched.
LEMMA OneRequest ==
    ASSUME RequestsOK, NEW i \in Xhr, NEW x, xhr' = [xhr EXCEPT ![i] = x],
           x # Nil => RequestOK(x) /\ Owned(x, sessions'),
           \A j \in Xhr \ {i} : xhr[j] # Nil => Owned(xhr[j], sessions')
    PROVE  RequestsOK'
  BY DEF RequestsOK

LEMMA SameRequests ==
    ASSUME RequestsOK, UNCHANGED <<xhr, sessions>>
    PROVE  RequestsOK'
  BY DEF RequestsOK

-----------------------------------------------------------------------------
(***************************************************************************)
(* The frontend.                                                           *)
(***************************************************************************)
\* The page of one tab changes, the store and the sessions do not.
LEMMA OnePage ==
    ASSUME StateOK, NEW t \in Tab, NEW page, PageOK(page), tab' = [tab EXCEPT ![t] = page],
           UNCHANGED <<sessions, db, saved>>
    PROVE  StateOK'
<1>1. (tab = [u \in Tab |-> tab[u]] /\ \A u \in Tab : PageOK(tab[u]))'
  BY DEF StateOK
<1> QED
  BY <1>1 DEF StateOK

LEMMA LoginFormOK ==
    ASSUME NEW page \in Page
    PROVE  PageOK(showLoginForm(page)) /\ showLoginForm(page).token = page.token
  BY DEF Page, PageOK, showLoginForm

\* The page of a user who is logged in, and the request it may send.
LEMMA LoggedInOK ==
    ASSUME RequestsOK, NEW t \in Tab, NEW i \in Xhr, NEW page \in Page, page.token # Nil,
           loggedIn(t, i, page), UNCHANGED sessions
    PROVE  /\ RequestsOK'
           /\ \E q : PageOK(q) /\ tab' = [tab EXCEPT ![t] = q]
<1> DEFINE q == [page EXCEPT !.header = TRUE,
                    !.content = IF page.scope # Nil THEN "request" ELSE "none"]
<1>1. q \in Page /\ q.token = page.token /\ q.scope = page.scope /\ q.header
      /\ (q.content = "request" => page.scope # Nil)
  BY DEF Page
<1>2. tab' = [tab EXCEPT ![t] = q]
  BY DEF loggedIn
<1> HIDE DEF q
<1>3. PageOK(q)
  BY <1>1 DEF PageOK
<1> DEFINE x == IF page.scope # Nil THEN Nil ELSE Request(t, "list", page.token, Nil, Nil)
<1>4. xhr' = [xhr EXCEPT ![i] = x]
  BY DEF loggedIn
<1>5. x # Nil => RequestOK(x) /\ Owned(x, sessions')
  BY NewRequestOK DEF Page
<1>6. \A j \in Xhr \ {i} : xhr[j] # Nil => Owned(xhr[j], sessions')
  BY DEF RequestsOK
<1> HIDE DEF x
<1>7. RequestsOK'
  BY <1>4, <1>5, <1>6, OneRequest
<1> QED
  BY <1>2, <1>3, <1>7

LEMMA LoadStep ==
    ASSUME AuthInv, NEW t \in Tab, NEW scope \in Asked \cup {Nil}, Load(t, scope)
    PROVE  AuthInv'
<1> DEFINE page == [content |-> "new", header |-> FALSE, scope |-> scope,
                    token |-> IF saved = Nil THEN Nil ELSE saved.token]
<1>1. page.token \in SessionToken \cup {Nil}
  BY DEF AuthInv, StateOK
<1>2. PageOK(page)
  BY <1>1 DEF PageOK, Page
<1>3. tab' = [tab EXCEPT ![t] = page] /\ UNCHANGED <<sessions, db, saved>>
  BY DEF Load
<1>4. StateOK'
  BY <1>2, <1>3, OnePage DEF AuthInv
<1>5. xhr' = Abandoned(t)
  BY DEF Load
<1>6. xhr' = [i \in Xhr |-> xhr'[i]]
  BY <1>5 DEF Abandoned
<1>7. \A i \in Xhr : xhr'[i] # Nil => RequestOK(xhr'[i]) /\ Owned(xhr'[i], sessions')
  BY <1>3, <1>5, AbandonedOK DEF AuthInv
<1> QED
  BY <1>4, <1>6, <1>7 DEF AuthInv, RequestsOK

LEMMA StartStep ==
    ASSUME AuthInv, NEW t \in Tab, Start(t)
    PROVE  AuthInv'
<1>1. tab[t] \in Page /\ UNCHANGED <<sessions, db, saved>>
  BY DEF AuthInv, StateOK, PageOK, Start
<1>2. CASE tab' = [tab EXCEPT ![t] = showLoginForm(tab[t])] /\ UNCHANGED xhr
  BY <1>1, <1>2, LoginFormOK, OnePage, SameRequests DEF AuthInv
<1>3. CASE tab[t].token # Nil /\ \E i \in Xhr : xhr[i] = Nil /\ loggedIn(t, i, tab[t])
  BY <1>1, <1>3, LoggedInOK, OnePage DEF AuthInv
<1> QED
  BY <1>2, <1>3 DEF Start

\* The three buttons: each sends a request.
LEMMA SendStep ==
    ASSUME AuthInv, NEW t \in Tab, NEW i \in Xhr,
           \/ \E user \in User : doLogin(t, i, user)
           \/ confirmAuth(t, i) \/ logout(t, i)
    PROVE  AuthInv'
<1>1. tab[t] \in Page /\ PageOK(tab[t]) /\ UNCHANGED <<sessions, db, saved>>
  BY DEF AuthInv, StateOK, PageOK, doLogin, confirmAuth, logout
<1>2. \A j \in Xhr \ {i} : xhr[j] # Nil => Owned(xhr[j], sessions')
  BY <1>1 DEF AuthInv, RequestsOK
<1>3. CASE \E user \in User : doLogin(t, i, user)
  <2>1. PICK user \in User : doLogin(t, i, user)
    BY <1>3
  <2>2. RequestsOK'
    BY <1>2, <2>1, OneRequest, NewRequestOK DEF AuthInv, doLogin, Send
  <2> DEFINE page == [tab[t] EXCEPT !.content = "waiting"]
  <2>3. tab' = [tab EXCEPT ![t] = page]
    BY <2>1 DEF doLogin
  <2>4. PageOK(page)
    BY <1>1 DEF PageOK, Page
  <2> HIDE DEF page
  <2> QED
    BY <1>1, <2>2, <2>3, <2>4, OnePage DEF AuthInv
<1>4. CASE confirmAuth(t, i)
  <2>1. tab[t].token \in SessionToken /\ tab[t].scope \in Asked
    BY <1>1, <1>4 DEF confirmAuth, PageOK, Page
  <2>2. RequestsOK'
    BY <1>2, <1>4, <2>1, OneRequest, NewRequestOK DEF AuthInv, confirmAuth, Send
  <2> QED
    BY <1>4, <2>2 DEF AuthInv, StateOK, confirmAuth
<1>5. CASE logout(t, i)
  <2>1. tab[t].token \in SessionToken
    BY <1>1, <1>5 DEF logout, PageOK, Page
  <2>2. RequestsOK'
    BY <1>2, <1>5, <2>1, OneRequest, NewRequestOK DEF AuthInv, logout, Send
  <2> QED
    BY <1>5, <2>2 DEF AuthInv, StateOK, logout
<1> QED
  BY <1>3, <1>4, <1>5

\* What an error shows: the login form, or nothing new.
LEMMA ErrorPage ==
    ASSUME AuthInv, NEW t \in Tab, NEW op, on_error(t, op), UNCHANGED <<sessions, db>>
    PROVE  StateOK'
<1>1. tab[t] \in Page /\ UNCHANGED <<sessions, db, saved>>
  BY DEF AuthInv, StateOK, PageOK, on_error
<1>2. CASE tab' = [tab EXCEPT ![t] = showLoginForm(tab[t])]
  BY <1>1, <1>2, LoginFormOK, OnePage DEF AuthInv
<1>3. CASE tab' = tab
  BY <1>1, <1>3 DEF AuthInv, StateOK
<1> QED
  BY <1>2, <1>3 DEF on_error

\* An answer that somebody waits for arrives.
LEMMA ReceiveStep ==
    ASSUME AuthInv, NEW i \in Xhr, Receive(i)
    PROVE  AuthInv'
<1> DEFINE x == xhr[i]
           t == x.tab
<1>1. x # Nil /\ t # Nil /\ x.stage = "answered" /\ UNCHANGED <<sessions, db>>
  BY DEF Receive, Waited
<1>2. RequestOK(x) /\ Owned(x, sessions) /\ x \in AnyRequest
  BY <1>1 DEF AuthInv, RequestsOK, RequestOK
<1>3. t \in Tab
  BY <1>1, <1>2 DEF AnyRequest
<1>4. PageOK(tab[t]) /\ tab[t] \in Page
  BY <1>3 DEF AuthInv, StateOK, PageOK
<1>5. \A j \in Xhr \ {i} : xhr[j] # Nil => Owned(xhr[j], sessions')
  BY <1>1 DEF AuthInv, RequestsOK
<1>6. xhr' = [xhr EXCEPT ![i] = Nil] => RequestsOK'
  BY <1>5, OneRequest DEF AuthInv
<1>7. CASE ~x.ok /\ on_error(t, x.op) /\ xhr' = [xhr EXCEPT ![i] = Nil]
  BY <1>1, <1>3, <1>6, <1>7, ErrorPage DEF AuthInv
<1>8. CASE x.op = "login" /\ x.ok /\ saved' = savedData(i)
           /\ loggedIn(t, i, [tab[t] EXCEPT !.token = x.token])
  <2>1. x.token \in SessionToken /\ x.user \in User /\ sessions[x.token] \in {Nil, x.user}
    BY <1>1, <1>2, <1>8 DEF RequestOK, Owned
  <2> DEFINE page == [tab[t] EXCEPT !.token = x.token]
  <2>2. page \in Page /\ page.token = x.token
    BY <1>4, <2>1 DEF Page
  <2>3. page.token # Nil
    BY <2>1, <2>2, AuthServerAssumption
  <2> HIDE DEF page
  <2>4. loggedIn(t, i, page)
    BY <1>8 DEF page
  <2>5. RequestsOK' /\ \E q : PageOK(q) /\ tab' = [tab EXCEPT ![t] = q]
    BY <1>1, <1>3, <2>2, <2>3, <2>4, LoggedInOK DEF AuthInv
  <2>6. (tab = [u \in Tab |-> tab[u]] /\ \A u \in Tab : PageOK(tab[u]))'
    BY <1>3, <2>5 DEF AuthInv, StateOK
  <2>7. saved' \in [username : User, token : SessionToken] /\ sessions'[saved'.token] \in {Nil, saved'.username}
    BY <1>1, <1>8, <2>1 DEF savedData
  <2> QED
    BY <1>1, <2>5, <2>6, <2>7 DEF AuthInv, StateOK
<1>9. CASE x.op = "list" /\ tab' = [tab EXCEPT ![t].content = "list"]
           /\ xhr' = [xhr EXCEPT ![i] = Nil] /\ UNCHANGED saved
  <2> DEFINE page == [tab[t] EXCEPT !.content = "list"]
  <2>1. PageOK(page)
    BY <1>4 DEF PageOK, Page
  <2>2. tab' = [tab EXCEPT ![t] = page]
    BY <1>9
  <2> HIDE DEF page
  <2> QED
    BY <1>1, <1>3, <1>6, <1>9, <2>1, <2>2, OnePage DEF AuthInv
<1>10. CASE x.op = "grant" /\ tab' = [tab EXCEPT ![t].content = "left"]
            /\ xhr' = [Abandoned(t) EXCEPT ![i] = Nil] /\ UNCHANGED saved
  <2> DEFINE page == [tab[t] EXCEPT !.content = "left"]
  <2>1. PageOK(page)
    BY <1>4 DEF PageOK, Page
  <2>2. tab' = [tab EXCEPT ![t] = page]
    BY <1>10
  <2> HIDE DEF page
  <2>3. xhr' = [j \in Xhr |-> IF j = i THEN Nil ELSE Abandoned(t)[j]]
    BY <1>10 DEF Abandoned
  <2>4. RequestsOK'
    BY <1>1, <1>3, <2>3, AbandonedOK DEF AuthInv, RequestsOK
  <2> QED
    BY <1>1, <1>3, <1>10, <2>1, <2>2, <2>4, OnePage DEF AuthInv
<1>11. CASE x.op = "logout" /\ saved' = Nil /\ tab' = [tab EXCEPT ![t] = loggedOut(tab[t])]
            /\ xhr' = [xhr EXCEPT ![i] = Nil]
  <2>1. PageOK(loggedOut(tab[t]))
    <3> DEFINE page == [tab[t] EXCEPT !.token = Nil]
    <3>1. page \in Page
      BY <1>4 DEF Page
    <3> HIDE DEF page
    <3>2. PageOK(showLoginForm(page))
      BY <3>1, LoginFormOK
    <3> QED
      BY <3>2 DEF page, loggedOut
  <2>2. (tab = [u \in Tab |-> tab[u]] /\ \A u \in Tab : PageOK(tab[u]))'
    BY <1>3, <1>11, <2>1 DEF AuthInv, StateOK
  <2> QED
    BY <1>1, <1>6, <1>11, <2>2 DEF AuthInv, StateOK
<1> QED
  BY <1>1, <1>7, <1>8, <1>9, <1>10, <1>11 DEF Receive, on_success

\* Nobody waits for request i any more.
LEMMA DisconnectStep ==
    ASSUME AuthInv, NEW i \in Xhr, Disconnect(i)
    PROVE  AuthInv'
<1> DEFINE x == xhr[i]
           t == x.tab
           y == [x EXCEPT !.tab = Nil]
<1>1. x # Nil /\ t # Nil /\ UNCHANGED <<sessions, db>> /\ on_error(t, x.op)
  BY DEF Disconnect, Waited
<1>2. RequestOK(x) /\ Owned(x, sessions) /\ x \in AnyRequest
  BY <1>1 DEF AuthInv, RequestsOK, RequestOK
<1>3. t \in Tab
  BY <1>1, <1>2 DEF AnyRequest
<1>4. StateOK'
  BY <1>1, <1>3, ErrorPage
<1>5. \A j \in Xhr \ {i} : xhr[j] # Nil => Owned(xhr[j], sessions')
  BY <1>1 DEF AuthInv, RequestsOK
<1>6. xhr' = [xhr EXCEPT ![i] = Nil] \/ xhr' = [xhr EXCEPT ![i] = y]
  BY DEF Disconnect
<1>7. /\ y \in AnyRequest /\ y.op = x.op /\ y.session = x.session /\ y.user = x.user
      /\ y.scope = x.scope /\ y.stage = x.stage /\ y.ok = x.ok /\ y.token = x.token
  BY <1>2 DEF AnyRequest
<1> HIDE DEF y
<1>8. RequestOK(y) /\ Owned(y, sessions')
  BY <1>1, <1>2, <1>7 DEF RequestOK, Owned
<1>9. RequestsOK'
  BY <1>5, <1>6, <1>8, OneRequest DEF AuthInv
<1> QED
  BY <1>4, <1>9 DEF AuthInv

-----------------------------------------------------------------------------
(***************************************************************************)
(* The backend.                                                            *)
(***************************************************************************)
\* What the callbacks make of a request.
Staged(x, stage, user) == [x EXCEPT !.stage = stage, !.user = user]
Replied(x, ok, token) == [x EXCEPT !.stage = "answered", !.ok = ok, !.token = token]

\* A request with a new stage and user.
LEMMA StageOf ==
    ASSUME NEW x \in AnyRequest, NEW stage \in Stages,
           NEW user \in User \cup {Nil}
    PROVE  LET y == Staged(x, stage, user)
           IN  /\ y \in AnyRequest /\ y.op = x.op /\ y.session = x.session
               /\ y.scope = x.scope /\ y.user = user /\ y.stage = stage
               /\ y.tab = x.tab
<1> DEFINE z == [x EXCEPT !.stage = stage]
           y == [z EXCEPT !.user = user]
<1>1. z \in AnyRequest /\ z.op = x.op /\ z.session = x.session /\ z.scope = x.scope
      /\ z.stage = stage /\ z.tab = x.tab
  BY DEF AnyRequest
<1>2. y = Staged(x, stage, user)
  BY DEF Staged
<1> HIDE DEF z
<1>3. y \in AnyRequest /\ y.op = z.op /\ y.session = z.session /\ y.scope = z.scope
      /\ y.stage = z.stage /\ y.user = user /\ y.tab = z.tab
  BY <1>1 DEF AnyRequest
<1> HIDE DEF y
<1> QED
  BY <1>1, <1>2, <1>3

\* A request with its answer.
LEMMA AnswerOf ==
    ASSUME NEW x \in AnyRequest, NEW ok \in BOOLEAN,
           NEW token \in SessionToken \cup Token \cup {Nil}
    PROVE  LET y == Replied(x, ok, token)
           IN  /\ y \in AnyRequest /\ y.op = x.op /\ y.session = x.session
               /\ y.scope = x.scope /\ y.user = x.user /\ y.stage = "answered"
               /\ y.ok = ok /\ y.token = token
               /\ y.tab = x.tab
<1> DEFINE v == [x EXCEPT !.stage = "answered"]
           z == [v EXCEPT !.ok = ok]
           y == [z EXCEPT !.token = token]
<1>1. v \in AnyRequest /\ v.op = x.op /\ v.session = x.session /\ v.scope = x.scope
      /\ v.user = x.user /\ v.stage = "answered" /\ v.tab = x.tab
  BY DEF AnyRequest, Stages
<1>2. y = Replied(x, ok, token)
  BY DEF Replied
<1> HIDE DEF v
<1>3. z \in AnyRequest /\ z.op = v.op /\ z.session = v.session /\ z.scope = v.scope
      /\ z.user = v.user /\ z.stage = v.stage /\ z.ok = ok /\ z.tab = v.tab
  BY <1>1 DEF AnyRequest
<1> HIDE DEF z
<1>4. y \in AnyRequest /\ y.op = z.op /\ y.session = z.session /\ y.scope = z.scope
      /\ y.user = z.user /\ y.stage = z.stage /\ y.ok = z.ok /\ y.token = token
      /\ y.tab = z.tab
  BY <1>3 DEF AnyRequest
<1> HIDE DEF y
<1> QED
  BY <1>1, <1>2, <1>3, <1>4

\* Going on with a request that is not answered yet.
LEMMA ProceedStep ==
    ASSUME AuthInv, NEW i \in Xhr, xhr[i] # Nil, xhr[i].op \in {"login", "list", "grant"},
           NEW stage \in {"pam", "random", "blocked", "stuck"}, NEW user \in User \cup {Nil},
           Proceed(i, stage, user), UNCHANGED sessions,
           xhr[i].op = "login" => user \in User,
           xhr[i].op = "grant" /\ stage \in {"random", "blocked"} =>
               user \in User /\ sessions[xhr[i].session] \in {Nil, user}
    PROVE  RequestsOK'
<1> DEFINE x == xhr[i]
           y == Staged(x, stage, user)
<1>1. RequestOK(x) /\ x \in AnyRequest
  BY DEF AuthInv, RequestsOK, RequestOK
<1>2. xhr' = [xhr EXCEPT ![i] = y]
  BY DEF Proceed, AuthInv, RequestsOK, Staged
<1>3. /\ y \in AnyRequest /\ y.op = x.op /\ y.session = x.session
      /\ y.scope = x.scope /\ y.user = user /\ y.stage = stage
  <2>1. stage \in Stages
    BY DEF Stages
  <2> QED
    BY <1>1, <2>1, StageOf
<1> HIDE DEF y
<1>4. RequestOK(y) /\ Owned(y, sessions')
  BY <1>1, <1>3 DEF RequestOK, Owned
<1>5. \A j \in Xhr \ {i} : xhr[j] # Nil => Owned(xhr[j], sessions')
  BY DEF AuthInv, RequestsOK
<1> QED
  BY <1>2, <1>4, <1>5, OneRequest DEF AuthInv

\* Answering a request, after the sessions may have changed.
LEMMA AnswerStep ==
    ASSUME AuthInv, NEW i \in Xhr, xhr[i] # Nil, NEW ok \in BOOLEAN,
           NEW token \in SessionToken \cup Token \cup {Nil}, Answer(i, ok, token),
           xhr[i].op = "login" /\ ok =>
               token \in SessionToken /\ sessions'[token] = xhr[i].user,
           xhr[i].op = "logout" => ok /\ sessions'[xhr[i].session] = Nil,
           \A j \in Xhr \ {i} : xhr[j] # Nil => Owned(xhr[j], sessions')
    PROVE  RequestsOK'
<1> DEFINE x == xhr[i]
           y == Replied(x, ok, token)
<1>1. RequestOK(x) /\ x \in AnyRequest
  BY DEF AuthInv, RequestsOK, RequestOK
<1>2. xhr' = [xhr EXCEPT ![i] = Nil] \/ xhr' = [xhr EXCEPT ![i] = y]
  BY DEF Answer, Replied
<1>3. /\ y \in AnyRequest /\ y.op = x.op /\ y.session = x.session
      /\ y.scope = x.scope /\ y.user = x.user /\ y.stage = "answered"
      /\ y.ok = ok /\ y.token = token
  BY <1>1, AnswerOf
<1> HIDE DEF y
<1>4. RequestOK(y) /\ Owned(y, sessions')
  BY <1>1, <1>3 DEF RequestOK, Owned
<1> QED
  BY <1>2, <1>4, OneRequest DEF AuthInv

\* The login, whose session's token is nobody else's.
LEMMA LoginStep ==
    ASSUME AuthInv, NEW i \in Xhr,
           authenticate(i) \/ pamauth(i) \/ generateSessionToken(i)
    PROVE  AuthInv'
<1> DEFINE x == xhr[i]
<1>1. x # Nil /\ x.op = "login" /\ UNCHANGED <<db, saved, tab>>
  BY DEF authenticate, pamauth, generateSessionToken, At
<1>2. RequestOK(x) /\ x.user \in User
  BY <1>1 DEF AuthInv, RequestsOK, RequestOK
<1>3. UNCHANGED sessions => \A j \in Xhr \ {i} : xhr[j] # Nil => Owned(xhr[j], sessions')
  BY DEF AuthInv, RequestsOK
<1>4. ASSUME UNCHANGED sessions PROVE StateOK'
  BY <1>1, <1>4 DEF AuthInv, StateOK
<1>5. CASE authenticate(i)
  <2>1. Proceed(i, "pam", x.user) /\ UNCHANGED sessions
    BY <1>5 DEF authenticate
  <2> QED
    BY <1>1, <1>2, <1>4, <2>1, ProceedStep DEF AuthInv
<1>6. CASE pamauth(i)
  <2>1. UNCHANGED sessions /\ (Proceed(i, "random", x.user) \/ Answer(i, FALSE, Nil))
    BY <1>6 DEF pamauth
  <2>2. CASE Proceed(i, "random", x.user)
    BY <1>1, <1>2, <1>4, <2>1, <2>2, ProceedStep DEF AuthInv
  <2>3. CASE Answer(i, FALSE, Nil)
    BY <1>1, <1>3, <1>4, <2>1, <2>3, AnswerStep DEF AuthInv
  <2> QED
    BY <2>1, <2>2, <2>3
<1>7. CASE generateSessionToken(i)
  <2>1. CASE NeverAnswer(i) /\ UNCHANGED sessions
    <3>1. Proceed(i, "stuck", x.user)
      BY <2>1 DEF NeverAnswer
    <3> QED
      BY <1>1, <1>2, <1>4, <2>1, <3>1, ProceedStep DEF AuthInv
  <2>2. CASE \E s \in SessionToken : /\ FreshSession(s)
                                     /\ sessions' = [sessions EXCEPT ![s] = x.user]
                                     /\ Answer(i, TRUE, s)
    <3>1. PICK s \in SessionToken : /\ FreshSession(s)
                                    /\ sessions' = [sessions EXCEPT ![s] = x.user]
                                    /\ Answer(i, TRUE, s)
      BY <2>2
    <3>2. /\ sessions \in [SessionToken -> User \cup {Nil}]
          /\ sessions' \in [SessionToken -> User \cup {Nil}]
          /\ sessions'[s] = x.user
          /\ \A r : r \in SessionToken /\ r # s => sessions'[r] = sessions[r]
      BY <1>2, <3>1 DEF AuthInv, StateOK
    <3>3. StateOK'
      <4>1. saved # Nil => saved.token \in SessionToken /\ saved.token # s
        BY <3>1 DEF FreshSession, AuthInv, StateOK
      <4> QED
        BY <1>1, <3>2, <4>1 DEF AuthInv, StateOK
    <3>4. ASSUME NEW j \in Xhr, xhr[j] # Nil PROVE Owned(xhr[j], sessions')
      <4>1. s # xhr[j].session /\ s # xhr[j].token
        BY <3>1, <3>4 DEF FreshSession
      <4>2. RequestOK(xhr[j]) /\ Owned(xhr[j], sessions)
        BY <3>4 DEF AuthInv, RequestsOK
      <4> QED
        BY <3>2, <4>1, <4>2 DEF RequestOK, Owned
    <3>5. RequestsOK'
      BY <1>1, <3>1, <3>2, <3>4, AnswerStep
    <3> QED
      BY <3>3, <3>5 DEF AuthInv
  <2> QED
    BY <1>7, <2>1, <2>2 DEF generateSessionToken
<1> QED
  BY <1>5, <1>6, <1>7

LEMMA LogoutStep ==
    ASSUME AuthInv, NEW i \in Xhr, unauthenticate(i)
    PROVE  AuthInv'
<1> DEFINE x == xhr[i]
<1>1. /\ x # Nil /\ x.op = "logout" /\ UNCHANGED <<db, saved, tab>>
      /\ sessions' = [sessions EXCEPT ![x.session] = Nil] /\ Answer(i, TRUE, Nil)
  BY DEF unauthenticate, At
<1>2. x.session \in SessionToken
  BY <1>1 DEF AuthInv, RequestsOK, RequestOK
<1>3. /\ sessions \in [SessionToken -> User \cup {Nil}]
      /\ sessions' \in [SessionToken -> User \cup {Nil}]
      /\ sessions'[x.session] = Nil
      /\ \A r \in SessionToken : sessions'[r] \in {Nil, sessions[r]}
  BY <1>1, <1>2 DEF AuthInv, StateOK
<1>4. StateOK'
  BY <1>1, <1>3 DEF AuthInv, StateOK
<1>5. ASSUME NEW j \in Xhr, xhr[j] # Nil PROVE Owned(xhr[j], sessions')
  <2>1. RequestOK(xhr[j]) /\ Owned(xhr[j], sessions)
    BY <1>5 DEF AuthInv, RequestsOK
  <2> QED
    BY <1>3, <2>1 DEF RequestOK, Owned
<1>6. RequestsOK'
  BY <1>1, <1>3, <1>5, AnswerStep
<1> QED
  BY <1>4, <1>6 DEF AuthInv

\* Listing and granting, in the session of the request.
LEMMA GrantStep ==
    ASSUME AuthInv, NEW i \in Xhr,
           listAuthorizations(i) \/ verifySessionToken(i) \/ createAuthorization(i) \/ Block(i)
    PROVE  AuthInv'
<1> DEFINE x == xhr[i]
<1>1. x # Nil /\ x.op \in {"list", "grant"} /\ UNCHANGED <<sessions, saved, tab>>
  BY DEF listAuthorizations, verifySessionToken, createAuthorization, Block, At, Calls
<1>2. /\ RequestOK(x) /\ x \in AnyRequest /\ x.session \in SessionToken
      /\ x.user \in User \cup {Nil}
  BY <1>1 DEF AuthInv, RequestsOK, RequestOK, AnyRequest
<1>3. \A j \in Xhr \ {i} : xhr[j] # Nil => Owned(xhr[j], sessions')
  BY <1>1 DEF AuthInv, RequestsOK
<1>4. ASSUME UNCHANGED db PROVE StateOK'
  BY <1>1, <1>4 DEF AuthInv, StateOK
<1>5. ASSUME NEW ok \in BOOLEAN, NEW token \in Token \cup {Nil}, Answer(i, ok, token)
      PROVE  RequestsOK'
  BY <1>1, <1>3, <1>5, AnswerStep
<1>6. CASE listAuthorizations(i)
  <2>1. UNCHANGED db /\ Answer(i, sessions[x.session] # Nil, Nil)
    BY <1>6 DEF listAuthorizations
  <2>2. RequestsOK'
    <3> DEFINE ok == sessions[x.session] # Nil
    <3>1. ok \in BOOLEAN /\ Answer(i, ok, Nil)
      BY <2>1
    <3> HIDE DEF ok
    <3> QED
      BY <1>5, <3>1
  <2> QED
    BY <1>4, <2>1, <2>2 DEF AuthInv
<1>7. CASE verifySessionToken(i)
  <2>1. UNCHANGED db
    BY <1>7 DEF verifySessionToken
  <2>2. CASE sessions[x.session] # Nil /\ Proceed(i, "random", sessions[x.session])
    <3>1. sessions[x.session] \in User /\ x.op = "grant"
      BY <1>2, <1>7, <2>2 DEF AuthInv, StateOK, verifySessionToken, At
    <3>2. RequestsOK'
      BY <1>1, <2>2, <3>1, ProceedStep
    <3> QED
      BY <1>4, <2>1, <3>2 DEF AuthInv
  <2>3. CASE Answer(i, FALSE, Nil)
    BY <1>4, <1>5, <2>1, <2>3 DEF AuthInv
  <2> QED
    BY <1>7, <2>2, <2>3 DEF verifySessionToken
<1>8. CASE createAuthorization(i)
  <2>1. /\ x.op = "grant" /\ x.stage \in {"random", "blocked"}
        /\ x.user \in User /\ x.scope \in Asked
    BY <1>2, <1>8 DEF createAuthorization, At, Calls, RequestOK
  <2>2. CASE NeverAnswer(i) /\ UNCHANGED db
    <3>1. Proceed(i, "stuck", x.user)
      BY <2>2 DEF NeverAnswer
    <3>2. RequestsOK'
      BY <1>1, <2>1, <3>1, ProceedStep
    <3> QED
      BY <1>4, <2>2, <3>2 DEF AuthInv
  <2>3. CASE \E t \in Token : /\ db' = add_authorization(db, [username |-> x.user, token |-> t,
                                                              scopes |-> Add(x.scope)])
                              /\ Answer(i, TRUE, t)
    <3>1. PICK t \in Token : /\ db' = add_authorization(db, [username |-> x.user, token |-> t,
                                                            scopes |-> Add(x.scope)])
                             /\ Answer(i, TRUE, t)
      BY <2>3
    <3>2. Add(x.scope) \in SUBSET Scope
      <4>1. ASSUME NEW n \in DOMAIN x.scope
            PROVE  (IF n = <<"root">> THEN <<>> ELSE n) \in ScopeName
        BY <2>1, AuthServerAssumption
      <4>2. ASSUME NEW n \in DOMAIN x.scope
            PROVE  [name |-> IF n = <<"root">> THEN <<>> ELSE n,
                    write |-> x.scope[n] = "rw"] \in Scope
        BY <4>1 DEF Scope
      <4> QED
        BY <4>2 DEF Add
    <3> DEFINE auth == [username |-> x.user, token |-> t, scopes |-> Add(x.scope)]
    <3>3. auth \in Authorization
      BY <2>1, <3>2 DEF Authorization
    <3> HIDE DEF auth
    <3>4. db' = add_authorization(db, auth)
      BY <3>1 DEF auth
    <3>5. db' \in Store /\ Sound(db')
      BY <3>3, <3>4, AddSound DEF AuthInv, StateOK
    <3>6. StateOK'
      BY <1>1, <3>5 DEF AuthInv, StateOK
    <3>7. RequestsOK'
      BY <1>5, <3>1
    <3> QED
      BY <3>6, <3>7 DEF AuthInv
  <2> QED
    BY <1>8, <2>2, <2>3 DEF createAuthorization
<1>9. CASE Block(i)
  <2>1. Proceed(i, "blocked", x.user) /\ UNCHANGED db
    BY <1>9 DEF Block
  <2>2. x.op = "grant" => x.user \in User /\ sessions[x.session] \in {Nil, x.user}
    BY <1>1, <1>9 DEF Block, At, AuthInv, RequestsOK, RequestOK, Owned
  <2>3. RequestsOK'
    BY <1>1, <1>2, <2>1, <2>2, ProceedStep
  <2> QED
    BY <1>4, <2>1, <2>3 DEF AuthInv
<1> QED
  BY <1>6, <1>7, <1>8, <1>9

-----------------------------------------------------------------------------
\* The backend forgets its sessions and its pending calls.
LEMMA RestartStep ==
    ASSUME AuthInv, Restart
    PROVE  AuthInv'
<1>1. UNCHANGED <<db, saved, tab>> /\ sessions' = [s \in SessionToken |-> Nil]
  BY DEF Restart
<1>2. StateOK'
  BY <1>1 DEF AuthInv, StateOK
<1>3. xhr' = [i \in Xhr |-> xhr'[i]]
  BY DEF Restart
<1>4. ASSUME NEW i \in Xhr, xhr'[i] # Nil
      PROVE  RequestOK(xhr'[i]) /\ Owned(xhr'[i], sessions')
  <2> DEFINE x == xhr[i]
             y == [x EXCEPT !.stage = "answered", !.ok = FALSE]
  <2>1. /\ x # Nil
        /\ xhr'[i] = x \/ (x.stage \notin {"sent", "answered"} /\ xhr'[i] = y)
    BY <1>4 DEF Restart
  <2>2. RequestOK(x) /\ x \in AnyRequest
    BY <2>1 DEF AuthInv, RequestsOK, RequestOK
  <2> HIDE DEF x
  <2>3. Owned(x, sessions')
    BY <1>1, <2>2 DEF RequestOK, Owned
  <2>4. CASE x.stage \notin {"sent", "answered"}
    <3> DEFINE z == [x EXCEPT !.stage = "answered"]
    <3>1. /\ z \in AnyRequest /\ z.op = x.op /\ z.session = x.session
          /\ z.scope = x.scope /\ z.user = x.user /\ z.stage = "answered"
      BY <2>2 DEF AnyRequest, Stages
    <3>2. y = [z EXCEPT !.ok = FALSE]
      OBVIOUS
    <3> HIDE DEF z
    <3>3. /\ y \in AnyRequest /\ y.op = x.op /\ y.session = x.session
          /\ y.scope = x.scope /\ y.user = x.user /\ y.stage = "answered" /\ ~y.ok
      BY <3>1, <3>2 DEF AnyRequest
    <3> HIDE DEF y
    <3>4. RequestOK(y) /\ Owned(y, sessions')
      BY <2>2, <2>4, <3>3 DEF RequestOK, Owned
    <3> QED
      BY <2>1, <2>2, <2>3, <3>4
  <2> QED
    BY <2>1, <2>2, <2>3, <2>4
<1> QED
  BY <1>2, <1>3, <1>4 DEF AuthInv, RequestsOK

LEMMA RemoveTokenStep ==
    ASSUME AuthInv, NEW u \in User, NEW t \in Token, RemoveToken(u, t)
    PROVE  AuthInv'
<1>1. UNCHANGED <<sessions, saved, tab, xhr>> /\ db' = remove_authorization(db, u, t)
  BY DEF RemoveToken
<1>2. db' \in Store /\ Sound(db')
  BY <1>1, RemoveSound DEF AuthInv, StateOK
<1> QED
  BY <1>1, <1>2, SameRequests DEF AuthInv, StateOK

LEMMA AuthInit == Init => AuthInv
<1> SUFFICES ASSUME Init PROVE AuthInv
  OBVIOUS
<1>1. PageOK(Blank)
  BY DEF Blank, PageOK, Page
<1>2. StateOK
  BY <1>1, EmptySound DEF Init, StateOK
<1>3. RequestsOK
  BY DEF Init, RequestsOK
<1> QED
  BY <1>2, <1>3 DEF AuthInv

LEMMA AuthSteps == AuthInv /\ [Next]_vars => AuthInv'
<1> SUFFICES ASSUME AuthInv, [Next]_vars PROVE AuthInv'
  OBVIOUS
<1>1. ASSUME NEW t \in Tab, NEW scope \in Asked \cup {Nil}, Load(t, scope) PROVE AuthInv'
  BY <1>1, LoadStep
<1>2. ASSUME NEW t \in Tab, Start(t) PROVE AuthInv'
  BY <1>2, StartStep
<1>3. ASSUME NEW t \in Tab, NEW i \in Xhr,
             \/ \E user \in User : doLogin(t, i, user)
             \/ confirmAuth(t, i) \/ logout(t, i)
      PROVE  AuthInv'
  BY <1>3, SendStep
<1>4. ASSUME NEW i \in Xhr, Receive(i) \/ Disconnect(i) \/ Backend(i) \/ Block(i) PROVE AuthInv'
  BY <1>4, ReceiveStep, DisconnectStep, LoginStep, LogoutStep, GrantStep DEF Backend
<1>5. CASE Restart
  BY <1>5, RestartStep
<1>6. ASSUME NEW u \in User, NEW t \in Token, RemoveToken(u, t) PROVE AuthInv'
  BY <1>6, RemoveTokenStep
<1>7. CASE UNCHANGED vars
  BY <1>7, SameRequests DEF AuthInv, StateOK, vars
<1> QED
  BY <1>1, <1>2, <1>3, <1>4, <1>5, <1>6, <1>7 DEF Next

\* The invariant holds in every state.
THEOREM AuthInvHolds == Spec => []AuthInv
<1>1. Init => AuthInv
  BY AuthInit
<1>2. AuthInv /\ [Next]_vars => AuthInv'
  BY AuthSteps
<1> QED
  BY <1>1, <1>2, PTL DEF Spec

\* Pages, sessions and requests are what they should be in every state.
THEOREM AuthTypeCorrect == Spec => []TypeOK
<1>1. AuthInv => TypeOK
  BY AuthInvImplies
<1> QED
  BY <1>1, AuthInvHolds, PTL

\* Whatever tabs, logins, logouts and restarts are interleaved: the session saved in
\* the browser, and the one a grant is being made in, are their user's own.
THEOREM EverySessionIsOwn == Spec => []SessionsAreOwn
<1>1. AuthInv => SessionsAreOwn
  BY AuthInvImplies
<1> QED
  BY <1>1, AuthInvHolds, PTL

-----------------------------------------------------------------------------
\* A request that is answered already ends with its page, or when its answer arrives.
LEMMA AnsweredEnds ==
    ASSUME AuthInv, Next, NEW i \in Xhr, At(i, "logout", "answered"), xhr'[i] = Nil,
           xhr[i].tab # Nil
    PROVE  Receive(i) \/ tab'[xhr[i].tab].content \in {"new", "left"}
<1> DEFINE x == xhr[i]
<1>1. x # Nil /\ x.op = "logout" /\ x.stage = "answered" /\ x.tab \in Tab
  BY DEF At, AuthInv, RequestsOK, RequestOK, AnyRequest
<1>2. xhr = [k \in Xhr |-> xhr[k]] /\ tab = [t \in Tab |-> tab[t]]
  BY DEF AuthInv, RequestsOK, StateOK
<1>3. ASSUME NEW j \in Xhr, NEW new, j # i, xhr' = [xhr EXCEPT ![j] = new] PROVE FALSE
  BY <1>1, <1>2, <1>3
<1>4. ASSUME NEW t \in Tab, NEW j \in Xhr, NEW page, xhr[j] = Nil, loggedIn(t, j, page) PROVE FALSE
  BY <1>1, <1>3, <1>4 DEF loggedIn
<1>5. ASSUME NEW t \in Tab, Abandoned(t)[i] = Nil PROVE t = x.tab
  BY <1>1, <1>5 DEF Abandoned
<1>6. ASSUME NEW t \in Tab, NEW scope \in Asked \cup {Nil}, Load(t, scope)
      PROVE  tab'[x.tab].content = "new"
  BY <1>1, <1>2, <1>5, <1>6 DEF Load
<1>7. ASSUME NEW t \in Tab, Start(t) PROVE FALSE
  BY <1>1, <1>4, <1>7 DEF Start
<1>8. ASSUME NEW t \in Tab, NEW j \in Xhr,
             \/ \E user \in User : doLogin(t, j, user)
             \/ confirmAuth(t, j) \/ logout(t, j)
      PROVE  FALSE
  <2>1. PICK request : Send(j, request)
    BY <1>8 DEF doLogin, confirmAuth, logout
  <2> QED
    BY <1>1, <1>3, <2>1 DEF Send
<1>9. ASSUME NEW j \in Xhr, Receive(j), j # i PROVE tab'[x.tab].content = "left"
  <2>1. xhr[j] # Nil /\ xhr[j].tab \in Tab
    BY <1>9 DEF Receive, Waited, AuthInv, RequestsOK, RequestOK, AnyRequest
  <2>2. ASSUME NEW page, loggedIn(xhr[j].tab, j, page) PROVE FALSE
    BY <1>3, <1>9, <2>1, <2>2 DEF loggedIn
  <2>3. \/ xhr' = [xhr EXCEPT ![j] = Nil]
        \/ /\ tab' = [tab EXCEPT ![xhr[j].tab].content = "left"]
           /\ xhr' = [Abandoned(xhr[j].tab) EXCEPT ![j] = Nil]
    BY <1>9, <2>2 DEF Receive, on_success
  <2>4. /\ tab' = [tab EXCEPT ![xhr[j].tab].content = "left"]
        /\ xhr' = [Abandoned(xhr[j].tab) EXCEPT ![j] = Nil]
    BY <1>3, <1>9, <2>3
  <2>5. Abandoned(xhr[j].tab)[i] = Nil
    BY <1>9, <2>4 DEF Abandoned
  <2>6. x.tab = xhr[j].tab
    BY <1>5, <2>1, <2>5
  <2>7. tab[x.tab] \in Page
    BY <1>1 DEF AuthInv, StateOK, PageOK
  <2> QED
    BY <1>1, <1>2, <2>4, <2>6, <2>7 DEF Page
<1>10. ASSUME NEW j \in Xhr, Disconnect(j) PROVE FALSE
  <2>1. j # i /\ \E new : xhr' = [xhr EXCEPT ![j] = new]
    BY <1>1, <1>10 DEF Disconnect
  <2> QED
    BY <1>3, <2>1
<1>11. ASSUME NEW j \in Xhr, Backend(j) \/ Block(j) PROVE FALSE
  <2>1. j # i
    BY <1>1, <1>11 DEF Backend, authenticate, pamauth, generateSessionToken, unauthenticate,
                       listAuthorizations, verifySessionToken, createAuthorization, Block, At, Calls
  <2>2. \E new : xhr' = [xhr EXCEPT ![j] = new]
    BY <1>11 DEF Backend, authenticate, pamauth, generateSessionToken, unauthenticate,
                 listAuthorizations, verifySessionToken, createAuthorization, Block,
                 Proceed, Answer, NeverAnswer
  <2> QED
    BY <1>3, <2>1, <2>2
<1>12. ASSUME Restart PROVE FALSE
  BY <1>1, <1>12 DEF Restart
<1>13. ASSUME NEW u \in User, NEW t \in Token, RemoveToken(u, t) PROVE FALSE
  BY <1>1, <1>13 DEF RemoveToken
<1> QED
  BY <1>6, <1>7, <1>8, <1>9, <1>10, <1>11, <1>12, <1>13 DEF Next

\* A logout that is answered on an open page has ended the session in the browser and in the
\* backend, whatever else was answered, restarted or begun in the meantime.
THEOREM LogoutsEndSessions == Spec => LogoutEndsSession
<1>1. AuthInv /\ [Next]_vars =>
        [\A i \in Xhr : At(i, "logout", "answered") /\ xhr'[i] = Nil /\ xhr[i].tab # Nil =>
         LET t == xhr[i].tab IN
         \/ tab'[t].content \in {"new", "left"}
         \/ tab'[t].token = Nil /\ saved' = Nil /\ sessions'[xhr[i].session] = Nil]_vars
  <2> SUFFICES ASSUME AuthInv, Next, NEW i \in Xhr, At(i, "logout", "answered"),
                      xhr'[i] = Nil, xhr[i].tab # Nil,
                      tab'[xhr[i].tab].content \notin {"new", "left"}
               PROVE  /\ tab'[xhr[i].tab].token = Nil /\ saved' = Nil
                      /\ sessions'[xhr[i].session] = Nil
    OBVIOUS
  <2> DEFINE x == xhr[i]
  <2>1. Receive(i)
    BY AnsweredEnds
  <2>2. /\ x # Nil /\ x.op = "logout" /\ x.tab \in Tab
        /\ x.ok /\ sessions[x.session] = Nil
    BY DEF At, AuthInv, RequestsOK, RequestOK, AnyRequest, Owned
  <2>3. /\ saved' = Nil /\ tab' = [tab EXCEPT ![x.tab] = loggedOut(@)]
        /\ UNCHANGED sessions
    BY <2>1, <2>2 DEF Receive, on_success
  <2>4. loggedOut(tab[x.tab]).token = Nil
    <3>1. tab[x.tab] \in Page
      BY <2>2 DEF AuthInv, StateOK, PageOK
    <3> QED
      BY <3>1 DEF Page, loggedOut, showLoginForm
  <2> QED
    BY <2>2, <2>3, <2>4 DEF AuthInv, StateOK
<1> QED
  BY <1>1, AuthInvHolds, PTL DEF Spec, LogoutEndsSession

-----------------------------------------------------------------------------
(***************************************************************************)
(* What an app is granted.                                                 *)
(***************************************************************************)
\* What is asked in a pending grant is what its page, if it is still open, says.
Confirms(x, pages) == x.op = "grant" /\ x.tab # Nil => x.scope = pages[x.tab].scope

Confirmed == \A i \in Xhr : xhr[i] # Nil => Confirms(xhr[i], tab)

\* What a request is after a step: new, or what it was, with or without its page.
Continues(x, y) ==
    x # Nil /\ y.op = x.op /\ y.scope = x.scope /\ y.tab \in {Nil, x.tab}

GoesOn(i) == xhr'[i] # Nil => Continues(xhr[i], xhr'[i]) \/ Confirms(xhr'[i], tab)

\* Pages that stay show the app's request they were loaded with.
ScopesStay == \A t \in Tab : tab'[t].scope = tab[t].scope

LEMMA ConfirmedStays ==
    ASSUME AuthInv, AuthInv', Confirmed, ScopesStay, \A i \in Xhr : GoesOn(i)
    PROVE  Confirmed'
<1> SUFFICES ASSUME NEW i \in Xhr, xhr'[i] # Nil, xhr'[i].op = "grant", xhr'[i].tab # Nil
             PROVE  xhr'[i].scope = tab'[xhr'[i].tab].scope
  BY DEF Confirmed, Confirms
<1>1. xhr'[i].tab \in Tab
  BY DEF AuthInv, RequestsOK, RequestOK, AnyRequest
<1>2. tab'[xhr'[i].tab].scope = tab[xhr'[i].tab].scope
  BY <1>1 DEF ScopesStay
<1>3. CASE Continues(xhr[i], xhr'[i])
  BY <1>2, <1>3 DEF Continues, Confirmed, Confirms
<1>4. CASE Confirms(xhr'[i], tab)
  BY <1>2, <1>4 DEF Confirms
<1> QED
  BY <1>3, <1>4 DEF GoesOn

\* One request changes: the others are as they were.
LEMMA OneGoesOn ==
    ASSUME AuthInv, NEW i \in Xhr, NEW y, xhr' = [xhr EXCEPT ![i] = y], GoesOn(i)
    PROVE  \A j \in Xhr : GoesOn(j)
  BY DEF AuthInv, RequestsOK, GoesOn, Continues

LEMMA OthersGoOn ==
    ASSUME AuthInv, NEW t \in Tab, NEW i \in Xhr, Abandoned(t)[i] # Nil
    PROVE  Continues(xhr[i], Abandoned(t)[i])
<1> DEFINE x == xhr[i]
           y == [x EXCEPT !.tab = Nil]
<1>1. x # Nil /\ (Abandoned(t)[i] = x \/ Abandoned(t)[i] = y)
  BY DEF Abandoned
<1>2. x \in AnyRequest
  BY <1>1 DEF AuthInv, RequestsOK, RequestOK
<1> HIDE DEF x
<1>3. y.op = x.op /\ y.scope = x.scope /\ y.tab = Nil
  BY <1>2 DEF AnyRequest
<1> HIDE DEF y
<1> QED
  BY <1>1, <1>3 DEF x, Continues

\* One page changes, and not in what the app asked for.
LEMMA OnePageStays ==
    ASSUME AuthInv, NEW t \in Tab, NEW page, page.scope = tab[t].scope,
           tab' = [tab EXCEPT ![t] = page]
    PROVE  ScopesStay
  BY DEF AuthInv, StateOK, ScopesStay

LEMMA LoggedInStays ==
    ASSUME AuthInv, NEW t \in Tab, NEW i \in Xhr, NEW page \in Page,
           page.scope = tab[t].scope, loggedIn(t, i, page)
    PROVE  ScopesStay /\ \A j \in Xhr : GoesOn(j)
<1> DEFINE q == [page EXCEPT !.header = TRUE,
                    !.content = IF page.scope # Nil THEN "request" ELSE "none"]
           y == IF page.scope # Nil THEN Nil ELSE Request(t, "list", page.token, Nil, Nil)
<1>1. q.scope = tab[t].scope
  BY DEF Page
<1>2. y # Nil => y.op = "list"
  BY DEF Request
<1>3. tab' = [tab EXCEPT ![t] = q] /\ xhr' = [xhr EXCEPT ![i] = y]
  BY DEF loggedIn
<1> HIDE DEF q, y
<1>4. ScopesStay
  BY <1>1, <1>3, OnePageStays
<1>5. GoesOn(i)
  BY <1>2, <1>3 DEF AuthInv, RequestsOK, GoesOn, Confirms
<1> QED
  BY <1>3, <1>4, <1>5, OneGoesOn

\* The buttons: only the confirmation asks for something, and for what the page says.
LEMMA SendGoesOn ==
    ASSUME AuthInv, NEW t \in Tab, NEW i \in Xhr,
           \/ \E user \in User : doLogin(t, i, user)
           \/ confirmAuth(t, i) \/ logout(t, i)
    PROVE  ScopesStay /\ \A j \in Xhr : GoesOn(j)
<1>1. tab[t] \in Page /\ xhr = [j \in Xhr |-> xhr[j]]
  BY DEF AuthInv, StateOK, PageOK, RequestsOK
<1>2. CASE \E user \in User : doLogin(t, i, user)
  <2>1. PICK user \in User : doLogin(t, i, user)
    BY <1>2
  <2> DEFINE page == [tab[t] EXCEPT !.content = "waiting"]
             y == Request(t, "login", Nil, user, Nil)
  <2>2. page.scope = tab[t].scope /\ y.op = "login"
    BY <1>1 DEF Page, Request
  <2>3. tab' = [tab EXCEPT ![t] = page] /\ xhr' = [xhr EXCEPT ![i] = y]
    BY <2>1 DEF doLogin, Send
  <2> HIDE DEF page, y
  <2>4. GoesOn(i)
    BY <1>1, <2>2, <2>3 DEF GoesOn, Confirms
  <2> QED
    BY <2>2, <2>3, <2>4, OnePageStays, OneGoesOn
<1>3. CASE confirmAuth(t, i)
  <2> DEFINE y == Request(t, "grant", tab[t].token, Nil, tab[t].scope)
  <2>1. y.tab = t /\ y.scope = tab[t].scope
    BY DEF Request
  <2>2. UNCHANGED tab /\ xhr' = [xhr EXCEPT ![i] = y]
    BY <1>3 DEF confirmAuth, Send
  <2> HIDE DEF y
  <2>3. GoesOn(i)
    BY <1>1, <2>1, <2>2 DEF GoesOn, Confirms
  <2> QED
    BY <2>2, <2>3, OneGoesOn DEF ScopesStay
<1>4. CASE logout(t, i)
  <2> DEFINE y == Request(t, "logout", tab[t].token, Nil, Nil)
  <2>1. y.op = "logout"
    BY DEF Request
  <2>2. UNCHANGED tab /\ xhr' = [xhr EXCEPT ![i] = y]
    BY <1>4 DEF logout, Send
  <2> HIDE DEF y
  <2>3. GoesOn(i)
    BY <1>1, <2>1, <2>2 DEF GoesOn, Confirms
  <2> QED
    BY <2>2, <2>3, OneGoesOn DEF ScopesStay
<1> QED
  BY <1>2, <1>3, <1>4

LEMMA ErrorStays ==
    ASSUME AuthInv, NEW t \in Tab, NEW op, on_error(t, op)
    PROVE  ScopesStay
<1>1. tab[t] \in Page
  BY DEF AuthInv, StateOK, PageOK
<1> DEFINE page == showLoginForm(tab[t])
<1>2. page.scope = tab[t].scope
  BY <1>1 DEF Page, showLoginForm
<1>3. tab' = [tab EXCEPT ![t] = page] \/ UNCHANGED tab
  BY DEF on_error
<1> HIDE DEF page
<1> QED
  BY <1>2, <1>3, OnePageStays DEF ScopesStay

LEMMA ReceiveGoesOn ==
    ASSUME AuthInv, NEW i \in Xhr, Receive(i)
    PROVE  ScopesStay /\ \A j \in Xhr : GoesOn(j)
<1> DEFINE x == xhr[i]
           t == x.tab
<1>1. x # Nil /\ t \in Tab /\ tab[t] \in Page
  BY DEF Receive, Waited, AuthInv, RequestsOK, RequestOK, AnyRequest, StateOK, PageOK
<1>2. xhr = [j \in Xhr |-> xhr[j]]
  BY DEF AuthInv, RequestsOK
<1>3. xhr' = [xhr EXCEPT ![i] = Nil] => \A j \in Xhr : GoesOn(j)
  BY <1>2, OneGoesOn DEF GoesOn
<1>4. CASE ~x.ok /\ on_error(t, x.op) /\ xhr' = [xhr EXCEPT ![i] = Nil]
  BY <1>1, <1>3, <1>4, ErrorStays
<1>5. CASE x.op = "login" /\ x.ok /\ loggedIn(t, i, [tab[t] EXCEPT !.token = x.token])
  <2> DEFINE page == [tab[t] EXCEPT !.token = x.token]
  <2>1. x.token \in SessionToken
    BY <1>1, <1>5 DEF Receive, AuthInv, RequestsOK, RequestOK
  <2>2. page \in Page /\ page.scope = tab[t].scope
    BY <1>1, <2>1 DEF Page
  <2>3. loggedIn(t, i, page)
    BY <1>5
  <2> HIDE DEF page
  <2> QED
    BY <1>1, <2>2, <2>3, LoggedInStays
<1>6. CASE x.op = "list" /\ tab' = [tab EXCEPT ![t].content = "list"]
           /\ xhr' = [xhr EXCEPT ![i] = Nil]
  <2> DEFINE page == [tab[t] EXCEPT !.content = "list"]
  <2>1. page.scope = tab[t].scope
    BY <1>1 DEF Page
  <2>2. tab' = [tab EXCEPT ![t] = page]
    BY <1>6
  <2> HIDE DEF page
  <2> QED
    BY <1>1, <1>3, <1>6, <2>1, <2>2, OnePageStays
<1>7. CASE x.op = "grant" /\ tab' = [tab EXCEPT ![t].content = "left"]
           /\ xhr' = [Abandoned(t) EXCEPT ![i] = Nil]
  <2> DEFINE page == [tab[t] EXCEPT !.content = "left"]
  <2>1. page.scope = tab[t].scope
    BY <1>1 DEF Page
  <2>2. tab' = [tab EXCEPT ![t] = page]
    BY <1>7
  <2> HIDE DEF page
  <2>3. \A j \in Xhr : xhr'[j] = Nil \/ xhr'[j] = Abandoned(t)[j]
    BY <1>7 DEF Abandoned
  <2>4. \A j \in Xhr : GoesOn(j)
    BY <1>1, <2>3, OthersGoOn DEF GoesOn
  <2> QED
    BY <1>1, <2>1, <2>2, <2>4, OnePageStays
<1>8. CASE x.op = "logout" /\ tab' = [tab EXCEPT ![t] = loggedOut(tab[t])]
           /\ xhr' = [xhr EXCEPT ![i] = Nil]
  <2>1. loggedOut(tab[t]).scope = tab[t].scope
    BY <1>1 DEF Page, loggedOut, showLoginForm
  <2> QED
    BY <1>1, <1>3, <1>8, <2>1, OnePageStays
<1> QED
  BY <1>4, <1>5, <1>6, <1>7, <1>8 DEF Receive, on_success

LEMMA DisconnectGoesOn ==
    ASSUME AuthInv, NEW i \in Xhr, Disconnect(i)
    PROVE  ScopesStay /\ \A j \in Xhr : GoesOn(j)
<1> DEFINE x == xhr[i]
           y == [x EXCEPT !.tab = Nil]
<1>1. x # Nil /\ x.tab \in Tab /\ x \in AnyRequest
  BY DEF Disconnect, Waited, AuthInv, RequestsOK, RequestOK, AnyRequest
<1>2. y.op = x.op /\ y.scope = x.scope /\ y.tab = Nil
  BY <1>1 DEF AnyRequest
<1>3. xhr' = [xhr EXCEPT ![i] = Nil] \/ xhr' = [xhr EXCEPT ![i] = y]
  BY DEF Disconnect
<1> HIDE DEF y
<1>4. GoesOn(i)
  BY <1>1, <1>2, <1>3 DEF AuthInv, RequestsOK, GoesOn, Continues
<1>5. ScopesStay
  BY <1>1, ErrorStays DEF Disconnect
<1> QED
  BY <1>3, <1>4, <1>5, OneGoesOn

\* The backend's callbacks leave what is asked, and by which page, alone.
LEMMA ProceedGoesOn ==
    ASSUME AuthInv, NEW i \in Xhr, xhr[i] # Nil, NEW stage \in Stages,
           NEW user \in User \cup {Nil}, Proceed(i, stage, user)
    PROVE  \A j \in Xhr : GoesOn(j)
<1> DEFINE x == xhr[i]
           y == Staged(x, stage, user)
<1>1. x \in AnyRequest
  BY DEF AuthInv, RequestsOK, RequestOK
<1>2. xhr' = [xhr EXCEPT ![i] = y]
  BY DEF Proceed, AuthInv, RequestsOK, Staged
<1>3. y.op = x.op /\ y.scope = x.scope /\ y.tab = x.tab
  BY <1>1, StageOf
<1> HIDE DEF y
<1>4. GoesOn(i)
  BY <1>2, <1>3 DEF AuthInv, RequestsOK, GoesOn, Continues
<1> QED
  BY <1>2, <1>4, OneGoesOn

LEMMA AnswerGoesOn ==
    ASSUME AuthInv, NEW i \in Xhr, xhr[i] # Nil, NEW ok \in BOOLEAN,
           NEW token \in SessionToken \cup Token \cup {Nil}, Answer(i, ok, token)
    PROVE  \A j \in Xhr : GoesOn(j)
<1> DEFINE x == xhr[i]
           y == Replied(x, ok, token)
<1>1. x \in AnyRequest
  BY DEF AuthInv, RequestsOK, RequestOK
<1>2. xhr' = [xhr EXCEPT ![i] = Nil] \/ xhr' = [xhr EXCEPT ![i] = y]
  BY DEF Answer, AuthInv, RequestsOK, Replied
<1>3. y.op = x.op /\ y.scope = x.scope /\ y.tab = x.tab
  BY <1>1, AnswerOf
<1> HIDE DEF y
<1>4. GoesOn(i)
  BY <1>2, <1>3 DEF AuthInv, RequestsOK, GoesOn, Continues
<1> QED
  BY <1>2, <1>4, OneGoesOn

LEMMA BackendGoesOn ==
    ASSUME AuthInv, NEW i \in Xhr, Backend(i) \/ Block(i)
    PROVE  ScopesStay /\ \A j \in Xhr : GoesOn(j)
<1>1. xhr[i] # Nil /\ xhr[i].user \in User \cup {Nil}
  BY DEF Backend, authenticate, pamauth, generateSessionToken, unauthenticate,
         listAuthorizations, verifySessionToken, createAuthorization, Block, At, Calls,
         AuthInv, RequestsOK, RequestOK, AnyRequest
<1>2. UNCHANGED tab
  BY DEF Backend, authenticate, pamauth, generateSessionToken, unauthenticate,
         listAuthorizations, verifySessionToken, createAuthorization, Block
<1>3. sessions[xhr[i].session] # Nil /\ verifySessionToken(i) => sessions[xhr[i].session] \in User
  BY DEF verifySessionToken, At, AuthInv, StateOK, RequestsOK, RequestOK
<1>4. \/ \E stage \in Stages, user \in User \cup {Nil} : Proceed(i, stage, user)
      \/ \E ok \in BOOLEAN, token \in SessionToken \cup Token \cup {Nil} : Answer(i, ok, token)
  <2> DEFINE known == sessions[xhr[i].session] # Nil
  <2>1. known \in BOOLEAN
    OBVIOUS
  <2>2. authenticate(i) \/ pamauth(i) => Proceed(i, "pam", xhr[i].user)
            \/ Proceed(i, "random", xhr[i].user) \/ Answer(i, FALSE, Nil)
    BY DEF authenticate, pamauth
  <2>3. generateSessionToken(i) => Proceed(i, "stuck", xhr[i].user)
            \/ \E token \in SessionToken : Answer(i, TRUE, token)
    BY DEF generateSessionToken, NeverAnswer
  <2>4. createAuthorization(i) => Proceed(i, "stuck", xhr[i].user)
            \/ \E token \in Token : Answer(i, TRUE, token)
    BY DEF createAuthorization, NeverAnswer
  <2>5. unauthenticate(i) \/ listAuthorizations(i) => Answer(i, TRUE, Nil) \/ Answer(i, known, Nil)
    BY DEF unauthenticate, listAuthorizations
  <2>6. verifySessionToken(i) => Answer(i, FALSE, Nil)
            \/ \E user \in User : Proceed(i, "random", user)
    BY <1>3 DEF verifySessionToken
  <2>7. Block(i) => Proceed(i, "blocked", xhr[i].user)
    BY DEF Block
  <2> HIDE DEF known
  <2> QED
    BY <1>1, <2>1, <2>2, <2>3, <2>4, <2>5, <2>6, <2>7 DEF Backend, Stages
<1> QED
  BY <1>1, <1>2, <1>4, ProceedGoesOn, AnswerGoesOn DEF ScopesStay

LEMMA RestartGoesOn ==
    ASSUME AuthInv, Restart
    PROVE  ScopesStay /\ \A j \in Xhr : GoesOn(j)
<1> SUFFICES ASSUME NEW j \in Xhr, xhr'[j] # Nil PROVE Continues(xhr[j], xhr'[j])
  BY DEF GoesOn, ScopesStay, Restart
<1> DEFINE x == xhr[j]
           y == [x EXCEPT !.stage = "answered", !.ok = FALSE]
<1>1. x # Nil /\ (xhr'[j] = x \/ xhr'[j] = y)
  BY DEF Restart
<1>2. x \in AnyRequest
  BY <1>1 DEF AuthInv, RequestsOK, RequestOK
<1>3. y.op = x.op /\ y.scope = x.scope /\ y.tab = x.tab
  BY <1>2 DEF AnyRequest
<1> HIDE DEF y
<1> QED
  BY <1>1, <1>3 DEF Continues

\* A page that is loaded leaves the requests of the page before it behind.
LEMMA LoadConfirms ==
    ASSUME AuthInv, AuthInv', Confirmed, NEW t \in Tab, NEW scope \in Asked \cup {Nil},
           Load(t, scope)
    PROVE  Confirmed'
<1> SUFFICES ASSUME NEW i \in Xhr, xhr'[i] # Nil, xhr'[i].op = "grant", xhr'[i].tab # Nil
             PROVE  xhr'[i].scope = tab'[xhr'[i].tab].scope
  BY DEF Confirmed, Confirms
<1> DEFINE x == xhr[i]
           u == xhr'[i].tab
<1>1. x # Nil /\ (x.tab = t => xhr'[i] = [x EXCEPT !.tab = Nil]) /\ (x.tab # t => xhr'[i] = x)
  BY DEF Load, Abandoned
<1>2. x \in AnyRequest
  BY <1>1 DEF AuthInv, RequestsOK, RequestOK
<1>3. [x EXCEPT !.tab = Nil].tab = Nil
  BY <1>2 DEF AnyRequest
<1>4. xhr'[i] = x /\ u # t
  BY <1>1, <1>3
<1>5. u \in Tab
  BY <1>2, <1>4 DEF AnyRequest
<1>6. tab'[u] = tab[u]
  BY <1>4, <1>5 DEF Load, AuthInv, StateOK
<1> QED
  BY <1>1, <1>4, <1>6 DEF Confirmed, Confirms

LEMMA ConfirmedSteps == AuthInv /\ AuthInv' /\ Confirmed /\ [Next]_vars => Confirmed'
<1> SUFFICES ASSUME AuthInv, AuthInv', Confirmed, [Next]_vars PROVE Confirmed'
  OBVIOUS
<1>1. ASSUME NEW t \in Tab, NEW scope \in Asked \cup {Nil}, Load(t, scope) PROVE Confirmed'
  BY <1>1, LoadConfirms
<1>2. ASSUME NEW t \in Tab, Start(t) PROVE Confirmed'
  <2>1. tab[t] \in Page
    BY DEF AuthInv, StateOK, PageOK
  <2>2. CASE tab' = [tab EXCEPT ![t] = showLoginForm(tab[t])] /\ UNCHANGED xhr
    <3>1. showLoginForm(tab[t]).scope = tab[t].scope
      BY <2>1 DEF Page, showLoginForm
    <3>2. ScopesStay
      BY <2>2, <3>1, OnePageStays
    <3>3. \A i \in Xhr : GoesOn(i)
      BY <2>2 DEF GoesOn, Continues
    <3> QED
      BY <3>2, <3>3, ConfirmedStays
  <2>3. CASE \E i \in Xhr : xhr[i] = Nil /\ loggedIn(t, i, tab[t])
    BY <2>1, <2>3, LoggedInStays, ConfirmedStays
  <2> QED
    BY <1>2, <2>2, <2>3 DEF Start
<1>3. ASSUME NEW t \in Tab, NEW i \in Xhr,
             \/ \E user \in User : doLogin(t, i, user)
             \/ confirmAuth(t, i) \/ logout(t, i)
      PROVE  Confirmed'
  BY <1>3, SendGoesOn, ConfirmedStays
<1>4. ASSUME NEW i \in Xhr, Receive(i) \/ Disconnect(i) \/ Backend(i) \/ Block(i) PROVE Confirmed'
  BY <1>4, ReceiveGoesOn, DisconnectGoesOn, BackendGoesOn, ConfirmedStays
<1>5. CASE Restart
  BY <1>5, RestartGoesOn, ConfirmedStays
<1>6. ASSUME NEW u \in User, NEW t \in Token, RemoveToken(u, t) PROVE Confirmed'
  BY <1>6 DEF RemoveToken, Confirmed
<1>7. CASE UNCHANGED vars
  BY <1>7 DEF vars, Confirmed
<1> QED
  BY <1>1, <1>2, <1>3, <1>4, <1>5, <1>6, <1>7 DEF Next

\* The page a grant was confirmed on, if it is still open, still says what was asked.
THEOREM PagesSayWhatIsAsked == Spec => [](AuthInv /\ Confirmed)
<1>1. Init => AuthInv /\ Confirmed
  BY AuthInit DEF Init, Confirmed
<1>2. AuthInv /\ Confirmed /\ [Next]_vars => (AuthInv /\ Confirmed)'
  BY AuthSteps, ConfirmedSteps
<1> QED
  BY <1>1, <1>2, PTL DEF Spec

-----------------------------------------------------------------------------
\* Of all the callbacks only the one that has the token grants anything.
LEMMA OnlyTheBindingGrants ==
    ASSUME AuthInv, Next, NEW i \in Xhr, Calls(i, "grant", "random"),
           xhr'[i] # Nil, xhr'[i].stage = "answered", xhr'[i].ok
    PROVE  createAuthorization(i)
<1> DEFINE x == xhr[i]
<1>1. x # Nil /\ x.op = "grant" /\ x.stage \in {"random", "blocked"} /\ x \in AnyRequest
  BY DEF At, Calls, AuthInv, RequestsOK, RequestOK
<1>2. xhr = [k \in Xhr |-> xhr[k]]
  BY DEF AuthInv, RequestsOK
<1>3. ASSUME NEW j \in Xhr, NEW new, j # i, xhr' = [xhr EXCEPT ![j] = new] PROVE FALSE
  BY <1>1, <1>2, <1>3
<1>4. ASSUME NEW t \in Tab, NEW j \in Xhr, NEW page, j # i, loggedIn(t, j, page) PROVE FALSE
  BY <1>3, <1>4 DEF loggedIn
<1>5. [x EXCEPT !.tab = Nil].stage = x.stage
  BY <1>1 DEF AnyRequest
<1>6. ASSUME NEW t \in Tab, xhr'[i] = Abandoned(t)[i] PROVE FALSE
  BY <1>1, <1>5, <1>6 DEF Abandoned
<1>7. ASSUME NEW t \in Tab, NEW scope \in Asked \cup {Nil}, Load(t, scope) PROVE FALSE
  BY <1>6, <1>7 DEF Load
<1>8. ASSUME NEW t \in Tab, Start(t) PROVE FALSE
  BY <1>1, <1>4, <1>8 DEF Start
<1>9. ASSUME NEW t \in Tab, NEW j \in Xhr,
             \/ \E user \in User : doLogin(t, j, user)
             \/ confirmAuth(t, j) \/ logout(t, j)
      PROVE  FALSE
  <2>1. PICK request : Send(j, request)
    BY <1>9 DEF doLogin, confirmAuth, logout
  <2> QED
    BY <1>1, <1>3, <2>1 DEF Send
<1>10. ASSUME NEW j \in Xhr, Receive(j) PROVE FALSE
  <2>1. j # i /\ xhr[j].tab \in Tab
    BY <1>1, <1>10 DEF Receive, Waited, AuthInv, RequestsOK, RequestOK, AnyRequest
  <2>2. ASSUME NEW page, loggedIn(xhr[j].tab, j, page) PROVE FALSE
    BY <1>4, <2>1, <2>2
  <2>3. xhr' = [xhr EXCEPT ![j] = Nil] \/ xhr' = [Abandoned(xhr[j].tab) EXCEPT ![j] = Nil]
    BY <1>10, <2>2 DEF Receive, on_success
  <2>4. xhr'[i] = Abandoned(xhr[j].tab)[i]
    BY <1>3, <2>1, <2>3 DEF Abandoned
  <2> QED
    BY <1>6, <2>1, <2>4
<1>11. ASSUME NEW j \in Xhr, Disconnect(j) PROVE FALSE
  <2>1. xhr' = [xhr EXCEPT ![j] = Nil] \/ xhr' = [xhr EXCEPT ![j] = [@ EXCEPT !.tab = Nil]]
    BY <1>11 DEF Disconnect
  <2>2. j = i
    BY <1>3, <2>1
  <2> QED
    BY <1>1, <1>2, <1>5, <2>1, <2>2
<1>12. ASSUME NEW j \in Xhr, Backend(j) \/ Block(j) PROVE j = i /\ createAuthorization(i)
  <2>1. \E new : xhr' = [xhr EXCEPT ![j] = new]
    BY <1>12 DEF Backend, authenticate, pamauth, generateSessionToken, unauthenticate,
                 listAuthorizations, verifySessionToken, createAuthorization, Block,
                 Proceed, Answer, NeverAnswer
  <2>2. j = i
    BY <1>3, <2>1
  <2>3. ~Block(i)
    <3>1. Staged(x, "blocked", x.user).stage = "blocked"
      BY <1>1, StageOf DEF AnyRequest, Stages
    <3>2. Block(i) => xhr'[i] = Staged(x, "blocked", x.user)
      BY <1>2 DEF Block, Proceed, Staged
    <3> QED
      BY <3>1, <3>2
  <2> QED
    BY <1>1, <1>12, <2>2, <2>3
       DEF Backend, authenticate, pamauth, generateSessionToken, unauthenticate,
           listAuthorizations, verifySessionToken, At, Calls
<1>13. ASSUME Restart PROVE FALSE
  <2> DEFINE y == [x EXCEPT !.stage = "answered", !.ok = FALSE]
  <2>1. xhr'[i] = y
    BY <1>1, <1>13 DEF Restart
  <2>2. ~y.ok
    <3> DEFINE z == [x EXCEPT !.stage = "answered"]
    <3>1. z \in AnyRequest
      BY <1>1 DEF AnyRequest, Stages
    <3>2. y = [z EXCEPT !.ok = FALSE]
      OBVIOUS
    <3> HIDE DEF z, y
    <3> QED
      BY <3>1, <3>2 DEF AnyRequest
  <2> QED
    BY <2>1, <2>2
<1>14. ASSUME NEW u \in User, NEW t \in Token, RemoveToken(u, t) PROVE FALSE
  BY <1>1, <1>14 DEF RemoveToken
<1> QED
  BY <1>7, <1>8, <1>9, <1>10, <1>11, <1>12, <1>13, <1>14 DEF Next

\* What the binding stores is what was asked, no folder more, none less, and none in another mode.
LEMMA AddStandsForAsked ==
    ASSUME NEW asked \in Asked
    PROVE  LET stands(s, n) == /\ s.name = (IF n = <<"root">> THEN <<>> ELSE n)
                               /\ s.write <=> asked[n] = "rw"
           IN  /\ \A n \in DOMAIN asked : \E s \in Add(asked) : stands(s, n)
               /\ \A s \in Add(asked) : \E n \in DOMAIN asked : stands(s, n)
<1> DEFINE scopeOf(n) == [name |-> IF n = <<"root">> THEN <<>> ELSE n, write |-> asked[n] = "rw"]
           stands(s, n) == /\ s.name = (IF n = <<"root">> THEN <<>> ELSE n)
                           /\ s.write <=> asked[n] = "rw"
<1>1. Add(asked) = {scopeOf(n) : n \in DOMAIN asked}
  BY DEF Add
<1>2. \A n \in DOMAIN asked : stands(scopeOf(n), n)
  OBVIOUS
<1> HIDE DEF scopeOf, stands
<1>3. /\ \A n \in DOMAIN asked : \E s \in Add(asked) : stands(s, n)
      /\ \A s \in Add(asked) : \E n \in DOMAIN asked : stands(s, n)
  BY <1>1, <1>2
<1> QED
  BY <1>3 DEF stands

\* The token an app gets stands for what its user has confirmed on the page that is still open,
\* whatever other pages asked, granted or revoked in the meantime.
THEOREM AppsGetWhatWasConfirmed == Spec => GrantIsWhatWasConfirmed
<1>1. AuthInv /\ Confirmed /\ [Next]_vars =>
        [\A i \in Xhr : Calls(i, "grant", "random") /\ At(i, "grant", "answered")' /\ xhr'[i].ok =>
         LET auth == lookup_authorization(db', xhr[i].user, xhr'[i].token)
             asked == tab[xhr[i].tab].scope
             stands(s, n) == /\ s.name = (IF n = <<"root">> THEN <<>> ELSE n)
                             /\ s.write <=> asked[n] = "rw"
         IN  /\ auth # Nil
             /\ \A n \in DOMAIN asked : \E s \in auth.scopes : stands(s, n)
             /\ \A s \in auth.scopes : \E n \in DOMAIN asked : stands(s, n)]_vars
  <2> SUFFICES ASSUME AuthInv, Confirmed, Next, NEW i \in Xhr,
                      Calls(i, "grant", "random"), At(i, "grant", "answered")', xhr'[i].ok
               PROVE  LET auth == lookup_authorization(db', xhr[i].user, xhr'[i].token)
                          asked == tab[xhr[i].tab].scope
                          stands(s, n) == /\ s.name = (IF n = <<"root">> THEN <<>> ELSE n)
                                          /\ s.write <=> asked[n] = "rw"
                      IN  /\ auth # Nil
                          /\ \A n \in DOMAIN asked : \E s \in auth.scopes : stands(s, n)
                          /\ \A s \in auth.scopes : \E n \in DOMAIN asked : stands(s, n)
    OBVIOUS
  <2> DEFINE x == xhr[i]
  <2>1. /\ x # Nil /\ x \in AnyRequest /\ x.op = "grant" /\ x.user \in User /\ x.scope \in Asked
        /\ x.stage \in {"random", "blocked"}
    BY DEF At, Calls, AuthInv, RequestsOK, RequestOK
  <2>2. xhr'[i] # Nil /\ xhr'[i].stage = "answered"
    BY DEF At
  <2>3. createAuthorization(i)
    BY <2>2, OnlyTheBindingGrants
  <2>4. ~NeverAnswer(i)
    <3> DEFINE y == Staged(x, "stuck", x.user)
    <3>1. y.stage = "stuck"
      BY <2>1, StageOf DEF Stages
    <3> HIDE DEF y
    <3>2. NeverAnswer(i) => xhr'[i] = y
      BY DEF NeverAnswer, Proceed, AuthInv, RequestsOK, Staged, y
    <3> QED
      BY <2>2, <3>1, <3>2
  <2>5. PICK t \in Token :
            /\ db' = add_authorization(db, [username |-> x.user, token |-> t,
                                            scopes |-> Add(x.scope)])
            /\ Answer(i, TRUE, t)
    BY <2>3, <2>4 DEF createAuthorization
  <2>6. x.tab # Nil /\ xhr'[i].token = t
    <3> DEFINE y == Replied(x, TRUE, t)
    <3>1. y.token = t
      <4>1. ASSUME NEW ok \in BOOLEAN PROVE Replied(x, ok, t).token = t
        BY <2>1, <2>5, AnswerOf
      <4> QED
        BY <4>1
    <3> HIDE DEF y
    <3>2. xhr'[i] = (IF x.tab = Nil THEN Nil ELSE y)
      BY <2>5 DEF Answer, AuthInv, RequestsOK, Replied, y
    <3> QED
      BY <2>2, <3>1, <3>2
  <2>7. tab[x.tab].scope = x.scope
    BY <2>1, <2>6 DEF Confirmed, Confirms
  <2> DEFINE auth == [username |-> x.user, token |-> t, scopes |-> Add(x.scope)]
  <2>8. lookup_authorization(db', x.user, t) = auth
    BY <2>1, <2>5
       DEF add_authorization, lookup_authorization, AuthInv, StateOK, Store, Keys
  <2>9. auth \in Authorization
    <3>1. ASSUME NEW n \in DOMAIN x.scope
          PROVE  [name |-> IF n = <<"root">> THEN <<>> ELSE n,
                  write |-> x.scope[n] = "rw"] \in Scope
      BY <2>1, AuthServerAssumption DEF Scope
    <3>2. Add(x.scope) \in SUBSET Scope
      BY <3>1 DEF Add
    <3> QED
      BY <2>1, <3>2 DEF Authorization
  <2>10. auth # Nil /\ auth.scopes = Add(x.scope)
    BY <2>9, AuthStoreAssumption
  <2> HIDE DEF auth
  <2> QED
    BY <2>1, <2>6, <2>7, <2>8, <2>10, AddStandsForAsked
<1> QED
  BY <1>1, PagesSayWhatIsAsked, PTL DEF Spec, GrantIsWhatWasConfirmed
=============================================================================
