--------------------------- MODULE AuthStoreProofs --------------------------
(***************************************************************************)
(* What the operations on the authorization store keep true of it.         *)
(***************************************************************************)
EXTENDS AuthStore, SequenceTheorems, TLAPS

\* Where the characters of the two names and the bar are in a key.
LEMMA KeyShape ==
    ASSUME NEW u \in User, NEW t \in Token
    PROVE  /\ Len(u) \in Nat /\ Len(t) \in Nat
           /\ Len(Key(u, t)) = Len(u) + 1 + Len(t)
           /\ Key(u, t)[Len(u) + 1] = Bar
           /\ \A i \in 1..Len(u) : Key(u, t)[i] = u[i]
           /\ \A i \in 1..Len(t) : Key(u, t)[Len(u) + 1 + i] = t[i]
<1>1. u \in Seq(Char) /\ t \in Seq(Char) /\ Bar \in Char
    BY AuthStoreAssumption
<1> QED BY <1>1 DEF Key

\* The pairs of a user's name and a token have different keys: the first bar
\* of a key ends the name.
LEMMA KeyInjective ==
    ASSUME NEW u \in User, NEW v \in User, NEW s \in Token, NEW t \in Token,
           Key(u, s) = Key(v, t)
    PROVE  u = v /\ s = t
<1> DEFINE k == Key(u, s)
<1>1. u \in Seq(Char) /\ v \in Seq(Char) /\ s \in Seq(Char) /\ t \in Seq(Char)
    BY AuthStoreAssumption
<1>2. /\ Len(k) = Len(u) + 1 + Len(s)
      /\ k[Len(u) + 1] = Bar
      /\ \A i \in 1..Len(u) : k[i] = u[i]
      /\ \A i \in 1..Len(s) : k[Len(u) + 1 + i] = s[i]
    BY KeyShape
<1>3. /\ Len(k) = Len(v) + 1 + Len(t)
      /\ k[Len(v) + 1] = Bar
      /\ \A i \in 1..Len(v) : k[i] = v[i]
      /\ \A i \in 1..Len(t) : k[Len(v) + 1 + i] = t[i]
    <2>1. k = Key(v, t)
        OBVIOUS
    <2> HIDE DEF k
    <2> QED BY <2>1, KeyShape
<1> HIDE DEF k
<1>4. Len(u) \in Nat /\ Len(v) \in Nat /\ Len(s) \in Nat /\ Len(t) \in Nat
    BY <1>1
<1>5. Len(u) = Len(v)
    <2>1. ASSUME Len(u) < Len(v) PROVE FALSE
        <3>1. Len(u) + 1 \in 1..Len(v)
            BY <1>4, <2>1
        <3>2. v[Len(u) + 1] = Bar
            BY <1>2, <1>3, <3>1
        <3> QED BY <3>1, <3>2, BarAssumption
    <2>2. ASSUME Len(v) < Len(u) PROVE FALSE
        <3>1. Len(v) + 1 \in 1..Len(u)
            BY <1>4, <2>2
        <3>2. u[Len(v) + 1] = Bar
            BY <1>2, <1>3, <3>1
        <3> QED BY <3>1, <3>2, BarAssumption
    <2> QED BY <2>1, <2>2, <1>4
<1>6. Len(s) = Len(t)
    BY <1>2, <1>3, <1>4, <1>5
<1>7. u = v
    BY <1>1, <1>2, <1>3, <1>5, SeqEqual
<1>8. s = t
    BY <1>1, <1>2, <1>3, <1>4, <1>5, <1>6, SeqEqual
<1> QED BY <1>7, <1>8

\* Every record is stored under the key of its own user and token.
Sound(store) == \A k \in Keys : store[k] # Nil => k = Key(store[k].username, store[k].token)

LEMMA EmptySound == NoAuthorizations \in Store /\ Sound(NoAuthorizations)
BY DEF NoAuthorizations, Store, Sound

LEMMA AddSound ==
    ASSUME NEW store \in Store, NEW auth \in Authorization, Sound(store)
    PROVE  add_authorization(store, auth) \in Store /\ Sound(add_authorization(store, auth))
<1> DEFINE k == Key(auth.username, auth.token)
<1>1. auth.username \in User /\ auth.token \in Token
    BY DEF Authorization
<1>2. k \in Keys
    BY <1>1 DEF Keys
<1> QED BY <1>2 DEF add_authorization, Store, Sound

LEMMA RemoveSound ==
    ASSUME NEW store \in Store, NEW u \in User, NEW t \in Token, Sound(store)
    PROVE  remove_authorization(store, u, t) \in Store /\ Sound(remove_authorization(store, u, t))
<1>1. Key(u, t) \in Keys
    BY DEF Keys
<1> QED BY <1>1 DEF remove_authorization, Store, Sound

\* In a sound store a lookup finds what was stored for that very user and
\* token, and a listing shows what lookups find.
LEMMA LookupSound ==
    ASSUME NEW store \in Store, Sound(store), NEW u \in User
    PROVE  /\ \A t \in Token :
                LET auth == lookup_authorization(store, u, t) IN
                auth # Nil => auth.username = u /\ auth.token = t
           /\ list_authorizations(store, u) = {lookup_authorization(store, u, t) : t \in Token} \ {Nil}
<1>1. ASSUME NEW v \in User, NEW t \in Token, store[Key(v, t)] # Nil
      PROVE  store[Key(v, t)].username = v /\ store[Key(v, t)].token = t
    <2> DEFINE auth == store[Key(v, t)]
    <2>1. Key(v, t) \in Keys
        BY DEF Keys
    <2>2. auth \in Authorization /\ Key(v, t) = Key(auth.username, auth.token)
        BY <1>1, <2>1 DEF Store, Sound
    <2>3. auth.username \in User /\ auth.token \in Token
        BY <2>2 DEF Authorization
    <2> HIDE DEF auth
    <2> QED BY <2>2, <2>3, KeyInjective DEF auth
<1>2. ASSUME NEW a \in list_authorizations(store, u)
      PROVE  a \in {lookup_authorization(store, u, t) : t \in Token} \ {Nil}
    <2>1. PICK k \in Keys : store[k] # Nil /\ store[k].username = u /\ a = store[k]
        BY <1>2 DEF list_authorizations
    <2>2. PICK v \in User, t \in Token : k = Key(v, t)
        BY <2>1 DEF Keys
    <2>3. v = u
        BY <1>1, <2>1, <2>2
    <2> QED BY <2>1, <2>2, <2>3 DEF lookup_authorization
<1>3. ASSUME NEW t \in Token, lookup_authorization(store, u, t) # Nil
      PROVE  lookup_authorization(store, u, t) \in list_authorizations(store, u)
    <2>1. Key(u, t) \in Keys
        BY DEF Keys
    <2>2. store[Key(u, t)].username = u
        BY <1>1, <1>3 DEF lookup_authorization
    <2> QED BY <1>3, <2>1, <2>2 DEF lookup_authorization, list_authorizations
<1>4. list_authorizations(store, u) = {lookup_authorization(store, u, t) : t \in Token} \ {Nil}
    BY <1>2, <1>3
<1> QED BY <1>1, <1>4 DEF lookup_authorization
=============================================================================
