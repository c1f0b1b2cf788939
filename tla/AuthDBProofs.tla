---------------------------- MODULE AuthDBProofs ----------------------------
(***************************************************************************)
(* What AuthDB promises, for any number of clients and any calls: the lock *)
(* makes each call as if it happened at one moment.                        *)
(***************************************************************************)
EXTENDS AuthDB, SequenceTheorems, FiniteSetTheorems, WellFoundedInduction, TLAPS

-----------------------------------------------------------------------------
(***************************************************************************)
(* The inductive invariant                                                 *)
(***************************************************************************)
Waits == {"idle", "waiting"}
Holds == {"inside", "walking", "spinning", "done"}

Types ==
    /\ db \in [Keys -> Range(Packed) \cup {Nil}]
    /\ call \in [Client -> Call \cup {Nil}]
    /\ pc \in [Client -> Waits \cup Holds]
    /\ passed \in [Client -> SUBSET Keys]
    /\ seen \in [Client -> SUBSET Range(Unpacked)]
    /\ holders \in SUBSET Entry /\ queue \in Seq(Entry)

\* Who is in a call, and in which.
CallsFit ==
    \A c \in Client :
        /\ call[c] = Nil <=> pc[c] = "idle"
        /\ pc[c] \in {"walking", "spinning"} => call[c].op = "list"

\* Who has got the lock is among the holders and not in the queue.
HoldersFit ==
    /\ \A h \in holders : h.who \in Client => pc[h.who] \in Holds /\ h.mode = Mode(call[h.who])
    /\ \A c \in Client : pc[c] \in Holds => [who |-> c, mode |-> Mode(call[c])] \in holders

WritersAreAlone == \A g \in holders, h \in holders : h.mode = "write" => g = h

QueueFits ==
    \A i \in 1..Len(queue) : queue[i].who \in Client =>
        /\ pc[queue[i].who] = "waiting" /\ queue[i].mode = Mode(call[queue[i].who])
        /\ \A j \in 1..Len(queue) : queue[j].who = queue[i].who => i = j

\* No cursor has moved before the lock is there.
CursorsAreFresh == \A c \in Client : pc[c] \in Waits \cup {"inside"} => passed[c] = {} /\ seen[c] = {}

LockInv == CallsFit /\ HoldersFit /\ WritersAreAlone /\ QueueFits /\ CursorsAreFresh

\* The records of its user among what a walk has passed.
Found(c) ==
    {Unpacked[db[k]] : k \in {l \in passed[c] : call[c].username \in {Nil, Unpacked[db[l]].username}}}

-----------------------------------------------------------------------------
LEMMA ModeIsMode == \A c : Mode(c) \in {"read", "write"}
BY DEF Mode

LEMMA KeysOfCalls ==
    ASSUME NEW new \in Call, new.op # "list"
    PROVE  new.username \in User /\ new.token \in Token /\ Key(new.username, new.token) \in Keys
BY AuthDBAssumption DEF Keys

LEMMA PackedIsPacked ==
    ASSUME NEW new \in Call, new.op = "add"
    PROVE  Packed[new] \in Range(Packed)
BY DEF Packed, Range

LEMMA UnpackedIsUnpacked ==
    ASSUME NEW bytes \in Range(Packed)
    PROVE  Unpacked[bytes] \in Range(Unpacked)
BY DEF Unpacked, Range

LEMMA BuriedIsEntry ==
    ASSUME NEW c \in Client, NEW e \in Entry
    PROVE  /\ Buried(c, e) \in Entry /\ Buried(c, e).mode = e.mode
           /\ Buried(c, e).who = IF e.who = c THEN Dead ELSE e.who
BY DEF Buried, Entry

LEMMA InitInv == Init => Types /\ LockInv /\ WalksAreCurrent
<1> SUFFICES ASSUME Init PROVE Types /\ LockInv /\ WalksAreCurrent
    OBVIOUS
<1>1. Types
    BY DEF Init, Types, NoAuthorizations, Waits
<1>2. LockInv
    BY AuthDBAssumption DEF Init, LockInv, CallsFit, HoldersFit, WritersAreAlone, QueueFits, CursorsAreFresh, Holds
<1>3. WalksAreCurrent
    BY DEF Init, WalksAreCurrent
<1> QED BY <1>1, <1>2, <1>3

LEMMA NextTypes == Types /\ CallsFit /\ [Next]_vars => Types'
<1> SUFFICES ASSUME Types, CallsFit, [Next]_vars PROVE Types'
    OBVIOUS
<1>1. CASE UNCHANGED vars
    BY <1>1 DEF vars, Types
<1>2. ASSUME NEW c \in Client, Begin(c) PROVE Types'
    <2>1. PICK new \in Call : /\ call' = [call EXCEPT ![c] = new]
                              /\ queue' = Append(queue, [who |-> c, mode |-> Mode(new)])
        BY <1>2 DEF Begin
    <2>2. [who |-> c, mode |-> Mode(new)] \in Entry
        BY ModeIsMode DEF Entry
    <2>3. queue' \in Seq(Entry) /\ call' \in [Client -> Call \cup {Nil}]
        BY <2>1, <2>2 DEF Types
    <2> QED BY <1>2, <2>3 DEF Begin, At, Types, Waits
<1>3. CASE Grant
    <2>1. Head(queue) \in Entry /\ Tail(queue) \in Seq(Entry)
        BY <1>3 DEF Grant, Types
    <2> QED BY <1>3, <2>1 DEF Grant, Types, Holds
<1>4. ASSUME NEW c \in Client, add(c) \/ remove(c) PROVE Types'
    <2>1. call[c] \in Call /\ call[c].op \in {"add", "remove"}
        BY <1>4 DEF add, remove, Inside, Types, CallsFit
    <2>2. call[c].op = "add" => Packed[call[c]] \in Range(Packed)
        BY <2>1, PackedIsPacked
    <2>3. db' \in [Keys -> Range(Packed) \cup {Nil}]
        BY <1>4, <2>2 DEF add, remove, Inside, Types
    <2>4. db[Key(call[c].username, call[c].token)] \in Range(Packed) \cup {Nil}
        BY <2>1, KeysOfCalls DEF Types
    <2>5. seen' \in [Client -> SUBSET Range(Unpacked)]
        BY <1>4, <2>4, UnpackedIsUnpacked DEF add, remove, Types
    <2> QED BY <1>4, <2>3, <2>5 DEF add, remove, At, Types, Holds
<1>5. ASSUME NEW c \in Client, lookup(c) PROVE Types'
    <2>1. call[c] \in Call /\ call[c].op = "lookup"
        BY <1>5 DEF lookup, Inside, Types, CallsFit
    <2>2. db[Key(call[c].username, call[c].token)] \in Range(Packed) \cup {Nil}
        BY <2>1, KeysOfCalls DEF Types
    <2>3. seen' \in [Client -> SUBSET Range(Unpacked)]
        BY <1>5, <2>2, UnpackedIsUnpacked DEF lookup, Types
    <2> QED BY <1>5, <2>3 DEF lookup, At, Types, Holds
<1>6. ASSUME NEW c \in Client, walk(c) PROVE Types'
    <2>1. CASE At(c, "done") /\ UNCHANGED <<passed, seen>>
        BY <1>6, <2>1 DEF walk, Advance, At, Types, Holds
    <2>2. CASE ~(At(c, "done") /\ UNCHANGED <<passed, seen>>)
        <3>1. PICK k \in Keys \ passed[c] :
                /\ db[k] # Nil /\ At(c, "walking")
                /\ passed' = [passed EXCEPT ![c] = @ \cup {k}]
                /\ seen' = [seen EXCEPT ![c] = @ \cup
                       IF call[c].username \in {Nil, Unpacked[db[k]].username} THEN {Unpacked[db[k]]} ELSE {}]
            BY <1>6, <2>2 DEF walk, Advance
        <3>2. Unpacked[db[k]] \in Range(Unpacked)
            BY <3>1, UnpackedIsUnpacked DEF Types
        <3>3. passed' \in [Client -> SUBSET Keys] /\ seen' \in [Client -> SUBSET Range(Unpacked)]
            BY <3>1, <3>2 DEF Types
        <3> QED BY <1>6, <3>1, <3>3 DEF walk, Advance, At, Types, Holds
    <2> QED BY <2>1, <2>2
<1>7. ASSUME NEW c \in Client, return(c) \/ abort(c) PROVE Types'
    BY <1>7 DEF return, abort, Leave, At, Types, Waits
<1>8. ASSUME NEW c \in Client, spin(c) PROVE Types'
    BY <1>8 DEF spin, At, Types, Holds
<1>9. ASSUME NEW c \in Client, Die(c) PROVE Types'
    <2>1. holders' \in SUBSET Entry
        BY <1>9, BuriedIsEntry DEF Die, Types
    <2>2. queue' \in Seq(Entry)
        <3>1. DOMAIN queue = 1..Len(queue) /\ Len(queue) \in Nat /\ \A i \in 1..Len(queue) : queue[i] \in Entry
            BY DEF Types
        <3>2. queue' \in [1..Len(queue) -> Entry]
            BY <1>9, <3>1, BuriedIsEntry DEF Die
        <3> QED BY <3>1, <3>2
    <2> QED BY <1>9, <2>1, <2>2 DEF Die, Leave, At, Types, Waits
<1> QED BY <1>1, <1>2, <1>3, <1>4, <1>5, <1>6, <1>7, <1>8, <1>9 DEF Next, Operate
-----------------------------------------------------------------------------
(***************************************************************************)
(* The lock                                                                *)
(***************************************************************************)
\* A step of who has the lock, within the same call.
LEMMA HolderKeepsLockInv ==
    ASSUME Types, LockInv, NEW c \in Client, pc[c] \in Holds,
           NEW step \in Holds \ {"inside"}, At(c, step),
           step \in {"walking", "spinning"} => call[c].op = "list",
           UNCHANGED <<call, holders, queue>>,
           \A d \in Client \ {c} : passed'[d] = passed[d] /\ seen'[d] = seen[d]
    PROVE  LockInv'
<1>1. pc'[c] = step /\ \A d \in Client \ {c} : pc'[d] = pc[d]
    BY DEF Types, At
<1>2. CallsFit'
    BY <1>1 DEF LockInv, CallsFit, Holds
<1>3. HoldersFit'
    BY <1>1 DEF LockInv, HoldersFit
<1>4. WritersAreAlone'
    BY DEF LockInv, WritersAreAlone
<1>5. QueueFits'
    BY <1>1 DEF LockInv, QueueFits, Holds
<1>6. CursorsAreFresh'
    BY <1>1 DEF LockInv, CursorsAreFresh, Waits, Holds
<1> QED BY <1>2, <1>3, <1>4, <1>5, <1>6 DEF LockInv

\* The end of a call: its lock is released.
LEMMA ReleaseKeepsLockInv ==
    ASSUME Types, LockInv, NEW c \in Client, pc[c] \in Holds, Leave(c),
           holders' = {h \in holders : h.who # c}, UNCHANGED queue
    PROVE  LockInv'
<1>1. /\ pc'[c] = "idle" /\ call'[c] = Nil /\ passed'[c] = {} /\ seen'[c] = {}
      /\ \A d \in Client \ {c} : /\ pc'[d] = pc[d] /\ call'[d] = call[d]
                                  /\ passed'[d] = passed[d] /\ seen'[d] = seen[d]
    BY DEF Types, Leave, At
<1>2. CallsFit'
    BY <1>1 DEF LockInv, CallsFit
<1>3. HoldersFit'
    BY <1>1 DEF LockInv, HoldersFit, Holds
<1>4. WritersAreAlone'
    BY DEF LockInv, WritersAreAlone
<1>5. QueueFits'
    BY <1>1 DEF LockInv, QueueFits, Holds
<1>6. CursorsAreFresh'
    BY <1>1 DEF LockInv, CursorsAreFresh, Waits, Holds
<1> QED BY <1>2, <1>3, <1>4, <1>5, <1>6 DEF LockInv

\* A call begins: its entry is the last of the queue.
LEMMA BeginKeepsLockInv ==
    ASSUME Types, LockInv, NEW c \in Client, Begin(c)
    PROVE  LockInv'
<1>1. PICK new \in Call : /\ call' = [call EXCEPT ![c] = new]
                          /\ queue' = Append(queue, [who |-> c, mode |-> Mode(new)])
    BY DEF Begin
<1>2. /\ pc[c] = "idle" /\ pc'[c] = "waiting" /\ call'[c] = new /\ new # Nil
      /\ \A d \in Client \ {c} : pc'[d] = pc[d] /\ call'[d] = call[d]
      /\ UNCHANGED <<passed, seen, holders>>
    BY <1>1, AuthDBAssumption DEF Types, Begin, At, LockInv, CallsFit
<1>3. CallsFit'
    BY <1>2 DEF LockInv, CallsFit
<1>4. HoldersFit'
    BY <1>2 DEF LockInv, HoldersFit, Holds
<1>5. WritersAreAlone'
    BY <1>2 DEF LockInv, WritersAreAlone
<1>6. QueueFits'
    <2>1. /\ Len(queue) \in Nat /\ Len(queue') = Len(queue) + 1
          /\ queue'[Len(queue) + 1] = [who |-> c, mode |-> Mode(new)]
          /\ \A i \in 1..Len(queue) : queue'[i] = queue[i]
        BY <1>1 DEF Types
    <2>2. \A i \in 1..Len(queue) : queue[i].who # c
        BY <1>2 DEF LockInv, QueueFits
    <2>3. ASSUME NEW i \in 1..Len(queue'), queue'[i].who \in Client
          PROVE  /\ pc'[queue'[i].who] = "waiting" /\ queue'[i].mode = Mode(call'[queue'[i].who])
                 /\ \A j \in 1..Len(queue') : queue'[j].who = queue'[i].who => i = j
        <3>1. CASE i = Len(queue) + 1
            <4>1. \A j \in 1..Len(queue') : queue'[j].who = c => j = i
                BY <2>1, <2>2, <3>1
            <4> QED BY <1>2, <2>1, <3>1, <4>1
        <3>2. CASE i \in 1..Len(queue)
            <4>1. queue'[i] = queue[i] /\ queue[i].who # c
                BY <2>1, <2>2, <3>2
            <4>2. /\ pc[queue[i].who] = "waiting" /\ queue[i].mode = Mode(call[queue[i].who])
                  /\ \A j \in 1..Len(queue) : queue[j].who = queue[i].who => i = j
                BY <2>3, <3>2, <4>1 DEF LockInv, QueueFits
            <4>3. \A j \in 1..Len(queue') : queue'[j].who = queue'[i].who => i = j
                BY <2>1, <4>1, <4>2
            <4> QED BY <1>2, <2>3, <4>1, <4>2, <4>3
        <3> QED BY <2>1, <2>3, <3>1, <3>2
    <2> QED BY <2>3 DEF QueueFits
<1>7. CursorsAreFresh'
    BY <1>2 DEF LockInv, CursorsAreFresh, Waits
<1> QED BY <1>3, <1>4, <1>5, <1>6, <1>7 DEF LockInv

\* The first in the queue is let in.
LEMMA GrantKeepsLockInv ==
    ASSUME Types, LockInv, Grant
    PROVE  LockInv'
<1> DEFINE head == Head(queue)
<1>1. /\ Len(queue) \in Nat \ {0} /\ head = queue[1] /\ head \in Entry
      /\ Len(queue') = Len(queue) - 1 /\ \A i \in 1..Len(queue') : queue'[i] = queue[i + 1]
    BY DEF Types, Grant
<1>2. /\ holders' = holders \cup {head} /\ UNCHANGED <<db, call, passed, seen>>
      /\ \A h \in holders : h.mode = "read" /\ head.mode = "read"
      /\ \A c \in Client : pc'[c] = IF c = head.who THEN "inside" ELSE pc[c]
    BY DEF Grant
<1> HIDE DEF head
<1>3. head.who \in Client =>
        /\ pc[head.who] = "waiting" /\ head.mode = Mode(call[head.who])
        /\ \A j \in 1..Len(queue) : queue[j].who = head.who => j = 1
    BY <1>1 DEF LockInv, QueueFits
<1>4. CallsFit'
    BY <1>2, <1>3 DEF LockInv, CallsFit
<1>5. HoldersFit'
    <2>1. ASSUME NEW h \in holders', h.who \in Client
          PROVE  pc'[h.who] \in Holds /\ h.mode = Mode(call'[h.who])
        BY <1>2, <1>3, <2>1 DEF LockInv, HoldersFit, Holds
    <2>2. ASSUME NEW c \in Client, pc'[c] \in Holds
          PROVE  [who |-> c, mode |-> Mode(call'[c])] \in holders'
        <3>1. CASE c = head.who
            <4>1. [who |-> c, mode |-> Mode(call[c])] = head
                BY <1>1, <1>3, <3>1 DEF Entry
            <4> QED BY <1>2, <4>1
        <3>2. CASE c # head.who
            BY <1>2, <2>2, <3>2 DEF LockInv, HoldersFit
        <3> QED BY <3>1, <3>2
    <2> QED BY <2>1, <2>2 DEF HoldersFit
<1>6. WritersAreAlone'
    BY <1>1, <1>2 DEF LockInv, WritersAreAlone
<1>7. QueueFits'
    <2>1. ASSUME NEW i \in 1..Len(queue'), queue'[i].who \in Client
          PROVE  /\ pc'[queue'[i].who] = "waiting" /\ queue'[i].mode = Mode(call'[queue'[i].who])
                 /\ \A j \in 1..Len(queue') : queue'[j].who = queue'[i].who => i = j
        <3>1. i + 1 \in 1..Len(queue) /\ queue'[i] = queue[i + 1] /\ i + 1 # 1
            BY <1>1
        <3>2. /\ pc[queue[i + 1].who] = "waiting" /\ queue[i + 1].mode = Mode(call[queue[i + 1].who])
              /\ \A j \in 1..Len(queue) : queue[j].who = queue[i + 1].who => i + 1 = j
            BY <2>1, <3>1 DEF LockInv, QueueFits
        <3>3. queue[i + 1].who # head.who
            BY <1>1, <3>1, <3>2
        <3>4. ASSUME NEW j \in 1..Len(queue'), queue'[j].who = queue'[i].who PROVE i = j
            <4>1. j + 1 \in 1..Len(queue) /\ queue[j + 1].who = queue[i + 1].who
                BY <1>1, <3>1, <3>4
            <4> QED BY <3>2, <4>1
        <3> QED BY <1>2, <2>1, <3>1, <3>2, <3>3, <3>4
    <2> QED BY <2>1 DEF QueueFits
<1>8. CursorsAreFresh'
    BY <1>2, <1>3 DEF LockInv, CursorsAreFresh, Waits
<1> QED BY <1>4, <1>5, <1>6, <1>7, <1>8 DEF LockInv
\* A death in a call: the entries of the dead stay, but are nobody's.
LEMMA DieKeepsLockInv ==
    ASSUME Types, LockInv, NEW c \in Client, Die(c)
    PROVE  LockInv'
<1>1. /\ pc'[c] = "idle" /\ call'[c] = Nil /\ passed'[c] = {} /\ seen'[c] = {}
      /\ \A d \in Client \ {c} : /\ pc'[d] = pc[d] /\ call'[d] = call[d]
                                  /\ passed'[d] = passed[d] /\ seen'[d] = seen[d]
    BY DEF Types, Die, Leave, At
<1>2. \A e \in Entry :
        /\ Buried(c, e).mode = e.mode
        /\ Buried(c, e).who \in Client => Buried(c, e) = e /\ e.who # c
        /\ e.who # c => Buried(c, e) = e
    BY AuthDBAssumption DEF Buried, Entry
<1>3. holders' = {Buried(c, h) : h \in holders} /\ holders \in SUBSET Entry
    BY DEF Types, Die
<1>4. CallsFit'
    BY <1>1 DEF LockInv, CallsFit
<1>5. HoldersFit'
    <2>1. ASSUME NEW h \in holders', h.who \in Client
          PROVE  pc'[h.who] \in Holds /\ h.mode = Mode(call'[h.who])
        <3>1. PICK g \in holders : h = Buried(c, g)
            BY <1>3
        <3>2. h = g /\ g.who # c
            BY <1>2, <1>3, <2>1, <3>1
        <3> QED BY <1>1, <2>1, <3>2 DEF LockInv, HoldersFit
    <2>2. ASSUME NEW d \in Client, pc'[d] \in Holds
          PROVE  [who |-> d, mode |-> Mode(call'[d])] \in holders'
        <3>1. d # c
            BY <1>1, <2>2 DEF Holds
        <3>2. [who |-> d, mode |-> Mode(call[d])] \in holders
            BY <1>1, <2>2, <3>1 DEF LockInv, HoldersFit
        <3>3. Buried(c, [who |-> d, mode |-> Mode(call[d])]) = [who |-> d, mode |-> Mode(call[d])]
            BY <1>2, <1>3, <3>1, <3>2
        <3> QED BY <1>1, <1>3, <3>1, <3>2, <3>3
    <2> QED BY <2>1, <2>2 DEF HoldersFit
<1>6. WritersAreAlone'
    BY <1>2, <1>3 DEF LockInv, WritersAreAlone
<1>7. QueueFits'
    <2>1. /\ Len(queue) \in Nat /\ DOMAIN queue = 1..Len(queue) /\ \A i \in 1..Len(queue) : queue[i] \in Entry
        BY DEF Types
    <2>2. queue' = [i \in 1..Len(queue) |-> Buried(c, queue[i])]
        BY <2>1 DEF Die
    <2>3. Len(queue') = Len(queue) /\ \A i \in 1..Len(queue) : queue'[i] = Buried(c, queue[i])
        BY <2>1, <2>2
    <2>4. ASSUME NEW i \in 1..Len(queue'), queue'[i].who \in Client
          PROVE  /\ pc'[queue'[i].who] = "waiting" /\ queue'[i].mode = Mode(call'[queue'[i].who])
                 /\ \A j \in 1..Len(queue') : queue'[j].who = queue'[i].who => i = j
        <3>1. queue'[i] = queue[i] /\ queue[i].who # c
            BY <1>2, <2>1, <2>3, <2>4
        <3>2. /\ pc[queue[i].who] = "waiting" /\ queue[i].mode = Mode(call[queue[i].who])
              /\ \A j \in 1..Len(queue) : queue[j].who = queue[i].who => i = j
            BY <2>3, <2>4, <3>1 DEF LockInv, QueueFits
        <3>3. \A j \in 1..Len(queue') : queue'[j].who = queue'[i].who => queue[j].who = queue[i].who
            BY <1>2, <2>1, <2>3, <2>4, <3>1
        <3> QED BY <1>1, <2>3, <2>4, <3>1, <3>2, <3>3
    <2> QED BY <2>4 DEF QueueFits
<1>8. CursorsAreFresh'
    BY <1>1 DEF LockInv, CursorsAreFresh
<1> QED BY <1>4, <1>5, <1>6, <1>7, <1>8 DEF LockInv

LEMMA NextLockInv == Types /\ LockInv /\ [Next]_vars => LockInv'
<1> SUFFICES ASSUME Types, LockInv, [Next]_vars PROVE LockInv'
    OBVIOUS
<1>1. CASE UNCHANGED vars
    BY <1>1 DEF vars, LockInv, CallsFit, HoldersFit, WritersAreAlone, QueueFits, CursorsAreFresh
<1>2. ASSUME NEW c \in Client, add(c) \/ remove(c) \/ lookup(c) PROVE LockInv'
    <2>1. /\ pc[c] \in Holds /\ At(c, "done") /\ UNCHANGED <<call, passed, holders, queue>>
          /\ \A d \in Client \ {c} : seen'[d] = seen[d]
        BY <1>2 DEF add, remove, lookup, Inside, Holds, Types
    <2> QED BY <2>1, HolderKeepsLockInv DEF Holds
<1>3. ASSUME NEW c \in Client, walk(c) PROVE LockInv'
    <2>1. /\ pc[c] \in Holds /\ UNCHANGED <<call, holders, queue>>
          /\ At(c, "done") \/ At(c, "walking")
        BY <1>3 DEF walk, Advance, Inside, Holds
    <2>2. call[c].op = "list"
        BY <1>3 DEF walk, Advance, Inside, LockInv, CallsFit
    <2>3. \A d \in Client \ {c} : passed'[d] = passed[d] /\ seen'[d] = seen[d]
        BY <1>3 DEF walk, Advance, Types
    <2> QED BY <2>1, <2>2, <2>3, HolderKeepsLockInv DEF Holds
<1>4. ASSUME NEW c \in Client, spin(c) PROVE LockInv'
    <2>1. /\ pc[c] \in Holds /\ At(c, "spinning") /\ UNCHANGED <<call, passed, seen, holders, queue>>
          /\ call[c].op = "list"
        BY <1>4 DEF spin, Holds, LockInv, CallsFit
    <2> QED BY <2>1, HolderKeepsLockInv DEF Holds
<1>5. ASSUME NEW c \in Client, return(c) \/ abort(c) PROVE LockInv'
    <2>1. /\ pc[c] \in Holds /\ Leave(c) /\ holders' = {h \in holders : h.who # c} /\ UNCHANGED queue
        BY <1>5 DEF return, abort, Inside, Holds
    <2> QED BY <2>1, ReleaseKeepsLockInv
<1> QED BY <1>1, <1>2, <1>3, <1>4, <1>5, BeginKeepsLockInv, GrantKeepsLockInv, DieKeepsLockInv DEF Next, Operate

-----------------------------------------------------------------------------
(***************************************************************************)
(* Walks                                                                   *)
(***************************************************************************)
\* While somebody walks, nobody changes the store.
LEMMA NobodyWritesInAWalk ==
    ASSUME LockInv, NEW c \in Client, pc[c] \in Holds, Mode(call[c]) = "write",
           NEW d \in Client, pc[d] \in Holds
    PROVE  c = d
<1>1. [who |-> c, mode |-> "write"] \in holders /\ [who |-> d, mode |-> Mode(call[d])] \in holders
    BY DEF LockInv, HoldersFit
<1>2. [who |-> c, mode |-> "write"] = [who |-> d, mode |-> Mode(call[d])]
    BY <1>1 DEF LockInv, WritersAreAlone
<1> QED BY <1>2

LEMMA NextWalks == Types /\ LockInv /\ WalksAreCurrent /\ [Next]_vars => WalksAreCurrent'
<1> SUFFICES ASSUME Types, LockInv, WalksAreCurrent, [Next]_vars,
                    NEW c \in Client, pc'[c] \in {"walking", "spinning"}
             PROVE  (\A k \in passed'[c] : db'[k] # Nil) /\ seen'[c] = Found(c)'
    BY DEF WalksAreCurrent, Found
<1> DEFINE Current == (\A k \in passed[c] : db[k] # Nil) /\ seen[c] = Found(c)
\* Steps of others, and those of its own that do not move the cursor.
<1>1. ASSUME pc[c] \in {"walking", "spinning"}, UNCHANGED <<db, call[c], passed[c], seen[c]>>
      PROVE  (\A k \in passed'[c] : db'[k] # Nil) /\ seen'[c] = Found(c)'
    BY <1>1 DEF WalksAreCurrent, Found
<1>2. CASE UNCHANGED vars
    BY <1>1, <1>2 DEF vars
<1>3. ASSUME NEW d \in Client, Begin(d) PROVE pc[c] \in {"walking", "spinning"} /\ UNCHANGED <<db, call[c], passed[c], seen[c]>>
    BY <1>3 DEF Begin, At, Types, LockInv, CallsFit
<1>4. CASE Grant
    <2>1. pc[c] \in {"walking", "spinning"} /\ UNCHANGED <<db, call[c], passed[c], seen[c]>>
        BY <1>4 DEF Grant
    <2> QED BY <1>1, <2>1
<1>5. ASSUME NEW d \in Client, add(d) \/ remove(d) PROVE FALSE
    <2>1. pc[d] \in Holds /\ Mode(call[d]) = "write" /\ At(d, "done")
        BY <1>5 DEF add, remove, Inside, Holds, Mode
    <2>2. c # d /\ pc[c] \in Holds
        BY <2>1 DEF At, Types, Holds
    <2> QED BY <2>1, <2>2, NobodyWritesInAWalk
<1>6. ASSUME NEW d \in Client, lookup(d) PROVE pc[c] \in {"walking", "spinning"} /\ UNCHANGED <<db, call[c], passed[c], seen[c]>>
    BY <1>6 DEF lookup, At, Types
<1>7. ASSUME NEW d \in Client, spin(d) PROVE pc[c] \in {"walking", "spinning"} /\ UNCHANGED <<db, call[c], passed[c], seen[c]>>
    BY <1>7 DEF spin, At, Types
<1>8. ASSUME NEW d \in Client, return(d) \/ abort(d) \/ Die(d)
      PROVE  pc[c] \in {"walking", "spinning"} /\ UNCHANGED <<db, call[c], passed[c], seen[c]>>
    BY <1>8 DEF return, abort, Die, Leave, At, Types
<1>9. ASSUME NEW d \in Client, walk(d), d # c PROVE pc[c] \in {"walking", "spinning"} /\ UNCHANGED <<db, call[c], passed[c], seen[c]>>
    BY <1>9 DEF walk, Advance, At, Types
<1>10. CASE walk(c)
    <2>1. Current
        <3>1. CASE pc[c] = "walking"
            BY <3>1 DEF WalksAreCurrent, Found
        <3>2. CASE pc[c] = "inside"
            <4>1. passed[c] = {} /\ seen[c] = {}
                BY <3>2 DEF LockInv, CursorsAreFresh
            <4> QED BY <4>1 DEF Found
        <3> QED BY <1>10, <3>1, <3>2 DEF walk, Advance, Inside
    <2>2. PICK k \in Keys \ passed[c] :
            /\ db[k] # Nil
            /\ passed' = [passed EXCEPT ![c] = @ \cup {k}]
            /\ seen' = [seen EXCEPT ![c] = @ \cup
                   IF call[c].username \in {Nil, Unpacked[db[k]].username} THEN {Unpacked[db[k]]} ELSE {}]
        <3>1. ~At(c, "done")
            BY DEF At, Types
        <3> QED BY <1>10, <3>1 DEF walk, Advance
    <2>3. /\ passed'[c] = passed[c] \cup {k}
          /\ seen'[c] = seen[c] \cup IF call[c].username \in {Nil, Unpacked[db[k]].username} THEN {Unpacked[db[k]]} ELSE {}
          /\ UNCHANGED <<db, call>>
        BY <1>10, <2>2 DEF walk, Advance, Types
    <2>4. Found(c)' = Found(c) \cup IF call[c].username \in {Nil, Unpacked[db[k]].username} THEN {Unpacked[db[k]]} ELSE {}
        BY <2>3 DEF Found
    <2> QED BY <2>1, <2>2, <2>3, <2>4
<1> QED BY <1>1, <1>2, <1>3, <1>4, <1>5, <1>6, <1>7, <1>8, <1>9, <1>10 DEF Next, Operate

LEMMA SpecInv == Spec => [](Types /\ LockInv /\ WalksAreCurrent)
<1>1. Types /\ LockInv /\ WalksAreCurrent /\ [Next]_vars => (Types /\ LockInv /\ WalksAreCurrent)'
    BY NextTypes, NextLockInv, NextWalks DEF LockInv
<1> QED BY <1>1, InitInv, PTL DEF Spec

\* However many processes list, add and remove at once, and whoever dies: a
\* listing is of one store, as the cursor's lock keeps writers out.
THEOREM EveryWalkIsCurrent == Spec => []WalksAreCurrent
BY SpecInv, PTL
-----------------------------------------------------------------------------
(***************************************************************************)
(* Induction over sets of numbers, from their order being well-founded.    *)
(***************************************************************************)
LEMMA Induction ==
    ASSUME NEW S \in SUBSET Nat, 0 \in S, \A n \in S : n + 1 \in S
    PROVE  S = Nat
<1> DEFINE R == OpToRel(<, Nat)
           T == Nat \ S
<1> SUFFICES ASSUME T # {} PROVE FALSE
    OBVIOUS
<1>1. IsWellFoundedOn(R, Nat)
    BY NatLessThanWellFounded
<1>2. \A m, n \in Nat : <<n, m>> \in R <=> n < m
    BY DEF OpToRel
<1>3. T \in SUBSET Nat
    OBVIOUS
<1> HIDE DEF R, T
<1>4. PICK m \in T : \A n \in T : ~(<<n, m>> \in R)
    BY <1>1, <1>3, WFMin
<1>5. \A n \in T : ~(n < m)
    BY <1>2, <1>3, <1>4
<1>6. m \in Nat /\ m # 0 /\ m - 1 \in Nat /\ m - 1 \in S
    BY <1>4, <1>5 DEF T
<1> QED BY <1>4, <1>6 DEF T

-----------------------------------------------------------------------------
(***************************************************************************)
(* A record gives back what was packed into it.                            *)
(***************************************************************************)
Byte == 0..255

\* The bytes of part, from an offset of source on.
Occurs(part, source, offset) ==
    /\ offset + Len(part) <= Len(source)
    /\ \A i \in 1..Len(part) : source[offset + i] = part[i]

LEMMA PartsOccur ==
    ASSUME NEW S, NEW p \in Seq(S), NEW q \in Seq(S), NEW source, NEW offset \in Nat, Len(source) \in Nat,
           Occurs(p \o q, source, offset)
    PROVE  Occurs(p, source, offset) /\ Occurs(q, source, offset + Len(p))
<1>1. /\ Len(p) \in Nat /\ Len(q) \in Nat /\ Len(p \o q) = Len(p) + Len(q)
      /\ \A i \in 1..Len(p) + Len(q) : (p \o q)[i] = IF i <= Len(p) THEN p[i] ELSE q[i - Len(p)]
    BY ConcatProperties, LenProperties
<1>2. Occurs(p, source, offset)
    <2>1. \A i \in 1..Len(p) : i \in 1..Len(p) + Len(q) /\ i <= Len(p)
        BY <1>1
    <2>2. \A i \in 1..Len(p) : source[offset + i] = p[i]
        BY <1>1, <2>1 DEF Occurs
    <2>3. offset + Len(p) + Len(q) <= Len(source)
        BY <1>1 DEF Occurs
    <2> QED BY <1>1, <2>2, <2>3 DEF Occurs
<1>3. \A i \in 1..Len(q) : source[offset + Len(p) + i] = q[i]
    <2> SUFFICES ASSUME NEW i \in 1..Len(q) PROVE source[offset + Len(p) + i] = q[i]
        OBVIOUS
    <2>1. Len(p) + i \in 1..Len(p) + Len(q) /\ ~(Len(p) + i <= Len(p)) /\ (Len(p) + i) - Len(p) = i
        BY <1>1
    <2>2. source[offset + (Len(p) + i)] = q[i]
        BY <1>1, <2>1 DEF Occurs
    <2> QED BY <1>1, <2>2
<1> QED BY <1>1, <1>2, <1>3 DEF Occurs

\* A string without 0 is read up to the 0 after it.
LEMMA StringIsRead ==
    ASSUME NEW s \in Seq(1..255), NEW source, Len(source) \in Nat, NEW offset \in Nat,
           Occurs(String(s), source, offset)
    PROVE  read_string(source, offset) = [string |-> s, offset |-> offset + Len(s) + 1]
<1> DEFINE Ends(i) == source[i] = 0 /\ \A j \in (offset + 1)..(i - 1) : source[j] # 0
           end == CHOOSE i \in (offset + 1)..Len(source) : Ends(i)
           last == offset + Len(s) + 1
<1>1. read_string(source, offset) = [string |-> SubSeq(source, offset + 1, end - 1), offset |-> end]
    BY DEF read_string
<1>2. Len(s) \in Nat /\ \A i \in 1..Len(s) : s[i] \in 1..255 /\ s[i] # 0
    <2>1. Len(s) \in Nat /\ \A i \in 1..Len(s) : s[i] \in 1..255
        BY LenProperties, ElementOfSeq
    <2>2. \A x \in 1..255 : x # 0
        OBVIOUS
    <2> QED BY <2>1, <2>2
<1>3. last \in Nat /\ last = offset + Len(s) + 1
    BY <1>2
<1> HIDE DEF last
<1>4. /\ last <= Len(source) /\ source[last] = 0
      /\ \A i \in 1..Len(s) : source[offset + i] = s[i]
    <2>1. s \in Seq(Byte) /\ <<0>> \in Seq(Byte) /\ Len(<<0>>) = 1 /\ <<0>>[1] = 0
        BY SeqMonotonic DEF Byte
    <2>2. Occurs(s, source, offset) /\ Occurs(<<0>>, source, offset + Len(s))
        BY <2>1, PartsOccur DEF String
    <2> QED BY <1>2, <1>3, <2>1, <2>2 DEF Occurs
<1>5. \A j \in (offset + 1)..(last - 1) : source[j] # 0 /\ source[j] \in 1..255
    <2> SUFFICES ASSUME NEW j \in (offset + 1)..(last - 1) PROVE source[j] # 0 /\ source[j] \in 1..255
        OBVIOUS
    <2>1. PICK i \in 1..Len(s) : j = offset + i
        <3>1. j - offset \in 1..Len(s) /\ j = offset + (j - offset)
            BY <1>2, <1>3
        <3> QED BY <3>1
    <2> QED BY <1>2, <1>4, <2>1
<1>6. last \in (offset + 1)..Len(source) /\ Ends(last)
    BY <1>2, <1>3, <1>4, <1>5
<1>7. \A i \in (offset + 1)..Len(source) : Ends(i) => i = last
    BY <1>2, <1>3, <1>4, <1>5
<1>8. end = last
    BY <1>6, <1>7
<1> HIDE DEF end
<1> DEFINE cut == SubSeq(source, offset + 1, last - 1)
<1>9. /\ cut \in Seq(1..255)
      /\ Len(cut) = IF offset + 1 <= last - 1 THEN (last - 1) - (offset + 1) + 1 ELSE 0
      /\ \A i \in 1..((last - 1) - (offset + 1) + 1) : cut[i] = source[offset + 1 + i - 1]
    <2>1. offset + 1 \in Int /\ last - 1 \in Int
        BY <1>3
    <2>2. \A i \in (offset + 1)..(last - 1) : source[i] \in 1..255
        BY <1>5
    <2> QED BY <2>1, <2>2, SubSeqProperties
<1> HIDE DEF cut
<1>10. Len(cut) = Len(s)
    BY <1>2, <1>3, <1>9
<1>11. \A i \in 1..Len(s) : cut[i] = s[i]
    <2> SUFFICES ASSUME NEW i \in 1..Len(s) PROVE cut[i] = s[i]
        OBVIOUS
    <2>1. i \in 1..((last - 1) - (offset + 1) + 1) /\ offset + 1 + i - 1 = offset + i
        BY <1>2, <1>3
    <2> QED BY <1>4, <1>9, <2>1
<1>12. cut = s
    BY <1>9, <1>10, <1>11, SeqEqual
<1> QED BY <1>1, <1>3, <1>8, <1>12 DEF cut

\* The four bytes of a count give the count back.
LEMMA CountIsRead ==
    ASSUME NEW n \in Nat, n <= MaxScopes
    PROVE  /\ Bytes4(n) \in Seq(Byte) /\ Len(Bytes4(n)) = 4
           /\ Uint32(Bytes4(n)) = n
<1> DEFINE a == n \div 256
           b == n \div 65536
           c == n \div 16777216
<1>1. /\ a \in Nat /\ b \in Nat /\ c \in Nat /\ c <= 255
      /\ n = 256 * a + (n % 256) /\ n % 256 \in Byte
      /\ a = 256 * b + (a % 256) /\ a % 256 \in Byte
      /\ b = 256 * c + (b % 256) /\ b % 256 \in Byte
      /\ c % 256 = c
    BY DEF Byte, MaxScopes
<1>2. Bytes4(n) = <<n % 256, a % 256, b % 256, c>>
    BY <1>1 DEF Bytes4
<1> HIDE DEF a, b, c
<1>3. c \in Byte
    BY <1>1 DEF Byte
<1>4. Bytes4(n) \in Seq(Byte) /\ Len(Bytes4(n)) = 4
    BY <1>1, <1>2, <1>3
<1>5. Uint32(Bytes4(n)) = (n % 256) + 256 * (a % 256) + 65536 * (b % 256) + 16777216 * c
    BY <1>2 DEF Uint32
<1>6. n % 256 \in Nat /\ a % 256 \in Nat /\ b % 256 \in Nat
    BY <1>1 DEF Byte
<1> QED BY <1>1, <1>4, <1>5, <1>6

\* The recursion of FlattenSeq has a solution.
LEMMA FlattenExists ==
    ASSUME NEW seqs, Len(seqs) \in Nat
    PROVE  \E f : f = [i \in 1..Len(seqs) |-> IF i = 1 THEN seqs[i] ELSE f[i - 1] \o seqs[i]]
<1> DEFINE Step(f, i) == IF i = 1 THEN seqs[i] ELSE f[i - 1] \o seqs[i]
           S == {n \in Nat : \E f : \A i \in 1..n : f[i] = Step(f, i)}
<1>1. 0 \in S
    OBVIOUS
<1>2. ASSUME NEW n \in S PROVE n + 1 \in S
    <2>1. PICK f : \A i \in 1..n : f[i] = Step(f, i)
        OBVIOUS
    <2> DEFINE g == [i \in 1..(n + 1) |-> IF i <= n THEN f[i] ELSE Step(f, i)]
    <2>2. \A i \in 1..(n + 1) : i # 1 => g[i - 1] = f[i - 1]
        OBVIOUS
    <2>3. \A i \in 1..(n + 1) : g[i] = Step(f, i)
        BY <2>1
    <2> HIDE DEF g
    <2>4. \A i \in 1..(n + 1) : g[i] = Step(g, i)
        BY <2>2, <2>3
    <2> QED BY <2>4
<1> HIDE DEF S
<1>3. Len(seqs) \in S
    <2>1. S \in SUBSET Nat
        BY DEF S
    <2> QED BY <1>1, <1>2, <2>1, Induction
<1>4. PICK f : \A i \in 1..Len(seqs) : f[i] = Step(f, i)
    BY <1>3 DEF S
<1> DEFINE g == [i \in 1..Len(seqs) |-> f[i]]
<1>5. \A i \in 1..Len(seqs) : g[i] = f[i] /\ (i # 1 => g[i - 1] = f[i - 1])
    OBVIOUS
<1>6. g = [i \in 1..Len(seqs) |-> Step(f, i)]
    BY <1>4
<1> HIDE DEF g
<1>7. \A i \in 1..Len(seqs) : Step(g, i) = Step(f, i)
    BY <1>5
<1> QED BY <1>6, <1>7

\* Each of the sequences occurs in the flattened one, right after the one
\* before it.
LEMMA FlattenedOccur ==
    ASSUME NEW S, NEW seqs \in Seq(Seq(S)), NEW N, N = Len(seqs)
    PROVE  /\ FlattenSeq(seqs) \in Seq(S)
           /\ \E end \in [0..N -> Nat] :
                /\ end[0] = 0
                /\ \A i \in 1..N :
                      /\ end[i] = end[i - 1] + Len(seqs[i])
                      /\ Occurs(seqs[i], FlattenSeq(seqs), end[i - 1])
<1>1. N \in Nat /\ \A i \in 1..N : seqs[i] \in Seq(S) /\ Len(seqs[i]) \in Nat
    <2>1. N \in Nat /\ \A i \in 1..N : seqs[i] \in Seq(S)
        BY LenProperties, ElementOfSeq
    <2> QED BY <2>1, LenProperties
<1>2. CASE N = 0
    <2>1. seqs = <<>>
        BY <1>2, EmptySeq
    <2>2. FlattenSeq(seqs) = <<>>
        BY <1>2, <2>1 DEF FlattenSeq
    <2> DEFINE end == [i \in 0..0 |-> 0]
    <2>3. end \in [0..N -> Nat] /\ end[0] = 0
        BY <1>2
    <2> HIDE DEF end
    <2>4. <<>> \in Seq(S)
        BY EmptySeq
    <2> QED BY <1>2, <2>2, <2>3, <2>4
<1>3. CASE N # 0
    <2> DEFINE Solution(f) == [i \in 1..N |-> IF i = 1 THEN seqs[i] ELSE f[i - 1] \o seqs[i]]
               flat == CHOOSE f : f = Solution(f)
    <2>1. FlattenSeq(seqs) = flat[N]
        BY <1>3 DEF FlattenSeq
    <2>2. flat = Solution(flat)
        <3>1. \E f : f = Solution(f)
            BY <1>1, FlattenExists
        <3> HIDE DEF Solution
        <3> QED BY <3>1
    <2> HIDE DEF flat
    <2>3. flat[1] = seqs[1]
        BY <1>1, <1>3, <2>2
    <2>4. ASSUME NEW i \in 1..N, i # 1 PROVE flat[i] = flat[i - 1] \o seqs[i]
        BY <2>2, <2>4
    \* What is flattened so far stays at the front.
    <2> DEFINE P(k) == \A i \in 1..k : flat[i] \in Seq(S) /\ Occurs(flat[i], flat[k], 0)
               T == {k \in Nat : k + 1 <= N => P(k + 1)}
    <2>5. 0 \in T
        <3>1. flat[1] \in Seq(S)
            BY <1>1, <1>3, <2>3
        <3>2. Occurs(flat[1], flat[1], 0)
            BY <3>1, LenProperties DEF Occurs
        <3> QED BY <3>1, <3>2
    <2>6. ASSUME NEW k \in T PROVE k + 1 \in T
        <3> SUFFICES ASSUME (k + 1) + 1 <= N PROVE P((k + 1) + 1)
            OBVIOUS
        <3> DEFINE m == (k + 1) + 1
                   new == seqs[m]
                   old == flat[k + 1]
        <3>1. k \in Nat /\ m \in 1..N /\ m # 1 /\ m - 1 = k + 1 /\ k + 1 \in 1..(k + 1)
            BY <1>1
        <3>2. P(k + 1)
            BY <1>1, <3>1
        <3>3. flat[m] = old \o new
            <4> HIDE DEF m
            <4> QED BY <2>4, <3>1
        <3>4. old \in Seq(S) /\ new \in Seq(S)
            <4> HIDE DEF m
            <4> QED BY <1>1, <3>1, <3>2
        <3> HIDE DEF P, m, new, old
        <3>5. /\ flat[m] \in Seq(S) /\ Len(flat[m]) = Len(old) + Len(new)
              /\ \A i \in 1..Len(old) + Len(new) :
                    flat[m][i] = IF i <= Len(old) THEN old[i] ELSE new[i - Len(old)]
            BY <3>3, <3>4, ConcatProperties
        <3>6. Len(old) \in Nat /\ Len(new) \in Nat
            BY <3>4, LenProperties
        <3>7. ASSUME NEW i \in 1..(k + 1) PROVE flat[i] \in Seq(S) /\ Occurs(flat[i], flat[m], 0)
            <4>1. flat[i] \in Seq(S) /\ Occurs(flat[i], old, 0)
                BY <3>2, <3>7 DEF P, old
            <4>2. Len(flat[i]) \in Nat
                BY <4>1, LenProperties
            <4>3. Len(flat[i]) <= Len(old) /\ \A j \in 1..Len(flat[i]) : old[j] = flat[i][j]
                BY <3>6, <4>1, <4>2 DEF Occurs
            <4>4. ASSUME NEW j \in 1..Len(flat[i]) PROVE flat[m][j] = flat[i][j]
                <5>1. j \in 1..Len(old) + Len(new) /\ j <= Len(old)
                    BY <3>6, <4>2, <4>3
                <5>2. flat[m][j] = old[j]
                    BY <3>5, <5>1
                <5> QED BY <4>3, <5>2
            <4> QED BY <3>5, <3>6, <4>1, <4>2, <4>3, <4>4 DEF Occurs
        <3>8. Occurs(flat[m], flat[m], 0)
            BY <3>5, <3>6 DEF Occurs
        <3>9. \A i \in 1..m : i \in 1..(k + 1) \/ i = m
            BY <3>1 DEF m
        <3>10. P(m)
            BY <3>5, <3>7, <3>8, <3>9 DEF P
        <3> QED BY <3>10 DEF m
    <2> HIDE DEF T
    <2>7. N - 1 \in T /\ (N - 1) + 1 = N
        <3>1. T \in SUBSET Nat
            BY DEF T
        <3>2. T = Nat
            BY <2>5, <2>6, <3>1, Induction
        <3> QED BY <1>1, <1>3, <3>2
    <2>8. \A i \in 1..N : flat[i] \in Seq(S) /\ Len(flat[i]) \in Nat /\ Occurs(flat[i], flat[N], 0)
        <3>1. P(N)
            BY <1>1, <2>7 DEF T
        <3> QED BY <3>1, LenProperties
    <2>9. flat[N] \in Seq(S) /\ Len(flat[N]) \in Nat
        BY <1>1, <1>3, <2>8
    <2> DEFINE end == [i \in 0..N |-> IF i = 0 THEN 0 ELSE Len(flat[i])]
    <2>10. end \in [0..N -> Nat] /\ end[0] = 0 /\ \A i \in 1..N : end[i] = Len(flat[i])
        BY <1>1, <2>8
    <2> HIDE DEF end, P
    <2>11. ASSUME NEW i \in 1..N
           PROVE  end[i] = end[i - 1] + Len(seqs[i]) /\ Occurs(seqs[i], flat[N], end[i - 1])
        <3>1. CASE i = 1
            <4>1. end[1] = Len(seqs[1]) /\ end[1 - 1] = 0 /\ Len(seqs[1]) \in Nat
                BY <1>1, <2>3, <2>10, <3>1
            <4>2. Occurs(seqs[1], flat[N], 0)
                BY <2>3, <2>8, <3>1
            <4> QED BY <3>1, <4>1, <4>2
        <3>2. CASE i # 1
            <4> DEFINE h == i - 1
            <4>1. h \in 1..N
                BY <1>1, <3>2
            <4>2. flat[i] = flat[h] \o seqs[i]
                BY <2>4, <3>2
            <4>3. flat[h] \in Seq(S) /\ seqs[i] \in Seq(S) /\ end[h] = Len(flat[h])
                <5> HIDE DEF h
                <5> QED BY <1>1, <2>8, <2>10, <4>1
            <4> HIDE DEF h
            <4>4. end[i] = end[h] + Len(seqs[i])
                <5>1. Len(flat[h] \o seqs[i]) = Len(flat[h]) + Len(seqs[i])
                    BY <4>3, ConcatProperties
                <5> QED BY <2>10, <4>2, <4>3, <5>1
            <4>5. Occurs(flat[h] \o seqs[i], flat[N], 0)
                BY <2>8, <4>2
            <4>6. Occurs(seqs[i], flat[N], 0 + Len(flat[h]))
                BY <2>9, <4>3, <4>5, PartsOccur
            <4>7. 0 + Len(flat[h]) = end[h]
                BY <4>3, LenProperties
            <4> QED BY <4>4, <4>6, <4>7 DEF h
        <3> QED BY <3>1, <3>2
    <2> QED BY <2>1, <2>9, <2>10, <2>11
<1> QED BY <1>2, <1>3

\* The parts unpack_authorization() reads, one after the other.
FirstString(source) == read_string(source, 0)
SecondString(source) == read_string(source, FirstString(source).offset)
Count(source) == Uint32(SubSeq(source, SecondString(source).offset + 1, SecondString(source).offset + 4))
OffsetsLoop(source, first, count, f) ==
    [i \in 0..count |-> IF i = 0 THEN first ELSE read_string(source, f[i - 1]).offset + 1]
Offsets(source, first, count) == CHOOSE f : f = OffsetsLoop(source, first, count, f)

LEMMA UnpackReads ==
    ASSUME NEW source, NEW at, at = Offsets(source, SecondString(source).offset + 4, Count(source))
    PROVE  unpack_authorization(source) =
              [username |-> FirstString(source).string, token |-> SecondString(source).string,
               scopes |-> [i \in 1..Count(source) |->
                              [name |-> read_string(source, at[i - 1]).string, write |-> source[at[i]] # 0]]]
<1> DEFINE Unpacking(a) ==
              [username |-> FirstString(source).string, token |-> SecondString(source).string,
               scopes |-> [i \in 1..Count(source) |->
                              [name |-> read_string(source, a[i - 1]).string, write |-> source[a[i]] # 0]]]
<1>1. unpack_authorization(source) = Unpacking(Offsets(source, SecondString(source).offset + 4, Count(source)))
    BY DEF unpack_authorization, FirstString, SecondString, Count, Offsets, OffsetsLoop
<1> HIDE DEF Unpacking
<1>2. unpack_authorization(source) = Unpacking(at)
    BY <1>1
<1> QED BY <1>2 DEF Unpacking

\* The recursion of its loop has a solution.
LEMMA OffsetsExist ==
    ASSUME NEW source, NEW first, NEW count \in Nat
    PROVE  Offsets(source, first, count) = OffsetsLoop(source, first, count, Offsets(source, first, count))
<1> DEFINE Step(f, i) == IF i = 0 THEN first ELSE read_string(source, f[i - 1]).offset + 1
           S == {n \in Nat : \E f : \A i \in 0..n : f[i] = Step(f, i)}
<1>1. 0 \in S
    <2> DEFINE g == [i \in 0..0 |-> first]
    <2>1. \A i \in 0..0 : g[i] = Step(g, i)
        OBVIOUS
    <2> QED BY <2>1
<1>2. ASSUME NEW n \in S PROVE n + 1 \in S
    <2>1. PICK f : \A i \in 0..n : f[i] = Step(f, i)
        OBVIOUS
    <2> DEFINE g == [i \in 0..(n + 1) |-> IF i <= n THEN f[i] ELSE Step(f, i)]
    <2>2. \A i \in 0..(n + 1) : i # 0 => g[i - 1] = f[i - 1]
        OBVIOUS
    <2>3. \A i \in 0..(n + 1) : g[i] = Step(f, i)
        BY <2>1
    <2> HIDE DEF g
    <2>4. \A i \in 0..(n + 1) : g[i] = Step(g, i)
        BY <2>2, <2>3
    <2> QED BY <2>4
<1> HIDE DEF S
<1>3. count \in S
    <2>1. S \in SUBSET Nat
        BY DEF S
    <2> QED BY <1>1, <1>2, <2>1, Induction
<1>4. PICK f : \A i \in 0..count : f[i] = Step(f, i)
    BY <1>3 DEF S
<1> DEFINE g == [i \in 0..count |-> f[i]]
<1>5. \A i \in 0..count : g[i] = f[i] /\ (i # 0 => g[i - 1] = f[i - 1])
    OBVIOUS
<1>6. g = [i \in 0..count |-> Step(f, i)]
    BY <1>4
<1> HIDE DEF g
<1>7. \A i \in 0..count : Step(g, i) = Step(f, i)
    BY <1>5
<1>8. g = OffsetsLoop(source, first, count, g)
    BY <1>6, <1>7 DEF OffsetsLoop
<1> QED BY <1>8 DEF Offsets

\* What unpack_authorization() reads is what pack_authorization() was given.
THEOREM RecordIsReadBack ==
    ASSUME NEW u \in Seq(1..255), NEW t \in Seq(1..255),
           NEW s \in Seq([name : Seq(1..255), write : BOOLEAN]), Len(s) <= MaxScopes
    PROVE  unpack_authorization(pack_authorization([username |-> u, token |-> t, scopes |-> s]))
             = [username |-> u, token |-> t, scopes |-> s]
<1> DEFINE N == Len(s)
           flag(i) == IF s[i].write THEN 1 ELSE 0
           packed(i) == String(s[i].name) \o <<flag(i)>>
           seqs == [i \in DOMAIN s |-> packed(i)]
           scopes == FlattenSeq(seqs)
           source == String(u) \o String(t) \o Bytes4(N) \o scopes
           after == Len(u) + 1 + Len(t) + 1
<1>1. /\ N \in Nat /\ DOMAIN s = 1..N /\ s = [i \in 1..N |-> s[i]]
      /\ \A i \in 1..N : s[i] \in [name : Seq(1..255), write : BOOLEAN]
    BY LenProperties, ElementOfSeq
<1>2. ASSUME NEW x \in Seq(1..255)
      PROVE  /\ String(x) \in Seq(Byte) /\ Len(String(x)) = Len(x) + 1
             /\ Len(x) \in Nat
    <2>1. x \in Seq(Byte) /\ <<0>> \in Seq(Byte) /\ Len(<<0>>) = 1
        BY SeqMonotonic DEF Byte
    <2> QED BY <2>1, ConcatProperties, LenProperties DEF String
<1>3. /\ String(u) \in Seq(Byte) /\ String(t) \in Seq(Byte)
      /\ Len(String(u)) = Len(u) + 1 /\ Len(String(t)) = Len(t) + 1
      /\ Len(u) \in Nat /\ Len(t) \in Nat /\ after \in Nat
    BY <1>2
<1>4. Bytes4(N) \in Seq(Byte) /\ Len(Bytes4(N)) = 4 /\ Uint32(Bytes4(N)) = N
    BY <1>1, CountIsRead
<1>5. ASSUME NEW i \in 1..N
      PROVE  /\ String(s[i].name) \in Seq(Byte) /\ <<flag(i)>> \in Seq(Byte)
             /\ packed(i) \in Seq(Byte) /\ Len(packed(i)) = Len(s[i].name) + 2
             /\ Len(s[i].name) \in Nat /\ s[i].name \in Seq(1..255)
    <2>1. s[i].name \in Seq(1..255) /\ flag(i) \in Byte
        BY <1>1 DEF Byte
    <2>2. String(s[i].name) \in Seq(Byte) /\ Len(String(s[i].name)) = Len(s[i].name) + 1 /\ Len(s[i].name) \in Nat
        BY <1>2, <2>1
    <2>3. <<flag(i)>> \in Seq(Byte) /\ Len(<<flag(i)>>) = 1
        BY <2>1
    <2> DEFINE name == String(s[i].name)
               tail == <<flag(i)>>
    <2>4. packed(i) = name \o tail
        OBVIOUS
    <2> HIDE DEF flag, packed, name, tail
    <2>5. packed(i) \in Seq(Byte) /\ Len(packed(i)) = Len(name) + Len(tail)
        <3>1. name \in Seq(Byte) /\ tail \in Seq(Byte)
            BY <2>2, <2>3 DEF name, tail
        <3> QED BY <2>4, <3>1, ConcatProperties
    <2>6. Len(name) + Len(tail) = Len(s[i].name) + 2
        BY <2>2, <2>3 DEF name, tail
    <2> QED BY <2>1, <2>2, <2>3, <2>5, <2>6
<1> HIDE DEF packed, flag
<1>6. seqs \in Seq(Seq(Byte)) /\ N = Len(seqs) /\ \A i \in 1..N : seqs[i] = packed(i)
    BY <1>1, <1>5
<1> HIDE DEF seqs, N
<1>7. PICK end \in [0..N -> Nat] :
        /\ end[0] = 0
        /\ \A i \in 1..N : /\ end[i] = end[i - 1] + Len(seqs[i])
                           /\ Occurs(seqs[i], scopes, end[i - 1])
    BY <1>6, FlattenedOccur
<1>8. scopes \in Seq(Byte)
    BY <1>6, FlattenedOccur
<1> HIDE DEF scopes
<1> DEFINE head == String(u) \o String(t) \o Bytes4(N)
           names == String(u) \o String(t)
<1>9. /\ names \in Seq(Byte) /\ Len(names) = after
      /\ head \in Seq(Byte) /\ Len(head) = after + 4
      /\ source \in Seq(Byte) /\ Len(source) \in Nat /\ Occurs(source, source, 0)
    <2>1. names \in Seq(Byte) /\ Len(names) = Len(String(u)) + Len(String(t))
        BY <1>3, ConcatProperties
    <2>2. head \in Seq(Byte) /\ Len(head) = Len(names) + Len(Bytes4(N))
        BY <1>4, <2>1, ConcatProperties
    <2>3. source \in Seq(Byte)
        BY <1>8, <2>2, ConcatProperties
    <2>4. Len(source) \in Nat
        BY <2>3, LenProperties
    <2> HIDE DEF source
    <2>5. Occurs(source, source, 0)
        BY <2>4 DEF Occurs
    <2> QED BY <1>3, <1>4, <2>1, <2>2, <2>3, <2>4, <2>5
\* Where the parts lie in the record.
<1>10. /\ Occurs(String(u), source, 0)
       /\ Occurs(String(t), source, Len(u) + 1)
       /\ Occurs(Bytes4(N), source, after)
       /\ Occurs(scopes, source, after + 4)
    <2>1. Occurs(head \o scopes, source, 0)
        BY <1>9
    <2> HIDE DEF source, head
    <2>2. Occurs(head, source, 0) /\ Occurs(scopes, source, 0 + Len(head))
        BY <1>8, <1>9, <2>1, PartsOccur
    <2>3. Occurs(names \o Bytes4(N), source, 0)
        BY <2>2 DEF head
    <2> HIDE DEF names
    <2>4. Occurs(names, source, 0) /\ Occurs(Bytes4(N), source, 0 + Len(names))
        BY <1>4, <1>9, <2>3, PartsOccur
    <2>5. Occurs(String(u) \o String(t), source, 0)
        BY <2>4 DEF names
    <2>6. Occurs(String(u), source, 0) /\ Occurs(String(t), source, 0 + Len(String(u)))
        BY <1>3, <1>9, <2>5, PartsOccur
    <2> HIDE DEF after
    <2> QED BY <1>3, <1>9, <2>2, <2>4, <2>6
<1>11. pack_authorization([username |-> u, token |-> t, scopes |-> s]) = source
    BY DEF pack_authorization, source, scopes, seqs, packed, flag, N
<1> HIDE DEF source, head, names
<1>12. read_string(source, 0) = [string |-> u, offset |-> Len(u) + 1]
    <2>1. read_string(source, 0) = [string |-> u, offset |-> 0 + Len(u) + 1]
        BY <1>9, <1>10, StringIsRead
    <2> QED BY <1>3, <2>1
<1>13. read_string(source, Len(u) + 1) = [string |-> t, offset |-> after]
    <2>1. Len(u) + 1 \in Nat /\ (Len(u) + 1) + Len(t) + 1 = after
        BY <1>3
    <2> QED BY <1>9, <1>10, <2>1, StringIsRead
<1> HIDE DEF after
<1>14. Uint32(SubSeq(source, after + 1, after + 4)) = N
    <2> DEFINE cut == SubSeq(source, after + 1, after + 4)
    <2>1. \A i \in 1..4 : cut[i] = Bytes4(N)[i]
        <3>1. \A i \in 1..4 : source[after + i] = Bytes4(N)[i]
            BY <1>4, <1>10 DEF Occurs
        <3>2. \A i \in (after + 1)..(after + 4) : source[i] \in Byte
            <4>1. after + 4 <= Len(source)
                BY <1>4, <1>10 DEF Occurs
            <4> QED BY <1>3, <1>9, <4>1, ElementOfSeq
        <3>3. after + 1 \in Int /\ after + 4 \in Int /\ (after + 4) - (after + 1) + 1 = 4
            BY <1>3
        <3>4. \A i \in 1..((after + 4) - (after + 1) + 1) : SubSeq(source, after + 1, after + 4)[i] = source[after + 1 + i - 1]
            BY <3>2, <3>3, SubSeqProperties
        <3>5. \A i \in 1..4 : after + 1 + i - 1 = after + i
            BY <1>3
        <3> QED BY <3>1, <3>3, <3>4, <3>5
    <2> HIDE DEF cut
    <2>2. cut[1] = Bytes4(N)[1] /\ cut[2] = Bytes4(N)[2] /\ cut[3] = Bytes4(N)[3] /\ cut[4] = Bytes4(N)[4]
        BY <2>1
    <2>3. Uint32(cut) = Uint32(Bytes4(N))
        BY <2>2, SMT DEF Uint32
    <2> QED BY <1>4, <2>3 DEF cut
\* Each scope where the one before it ends.
<1> DEFINE place == [i \in 0..N |-> after + 4 + end[i]]
<1>15. ASSUME NEW i \in 1..N
       PROVE  /\ read_string(source, place[i - 1]) = [string |-> s[i].name, offset |-> place[i] - 1]
              /\ source[place[i]] = flag(i)
              /\ place[i] \in Nat /\ place[i - 1] \in Nat
    <2> DEFINE h == end[i - 1]
               name == s[i].name
    <2>1. h \in Nat /\ end[i] = h + (Len(name) + 2) /\ Len(name) \in Nat /\ name \in Seq(1..255)
        <3>1. i - 1 \in 0..N
            BY <1>1
        <3> QED BY <1>5, <1>6, <1>7, <3>1
    <2>2. Occurs(packed(i), scopes, h)
        BY <1>6, <1>7
    <2> HIDE DEF h
    <2>3. Occurs(packed(i), source, after + 4 + h)
        <3>1. Len(scopes) \in Nat /\ Len(packed(i)) \in Nat
            BY <1>5, <1>8, LenProperties
        <3>2. h + Len(packed(i)) <= Len(scopes)
            BY <2>2 DEF Occurs
        <3>3. \A j \in 1..Len(packed(i)) : scopes[h + j] = packed(i)[j]
            BY <2>2 DEF Occurs
        <3>4. after + 4 + Len(scopes) <= Len(source) /\ \A j \in 1..Len(scopes) : source[after + 4 + j] = scopes[j]
            BY <1>10 DEF Occurs
        <3>5. ASSUME NEW j \in 1..Len(packed(i)) PROVE source[after + 4 + h + j] = packed(i)[j]
            <4>1. h + j \in 1..Len(scopes) /\ after + 4 + h + j = after + 4 + (h + j)
                BY <1>3, <2>1, <3>1, <3>2
            <4> QED BY <3>3, <3>4, <4>1
        <3>6. after + 4 + h + Len(packed(i)) <= Len(source)
            BY <1>3, <1>9, <2>1, <3>1, <3>2, <3>4
        <3> QED BY <3>5, <3>6 DEF Occurs
    <2>4. after + 4 + h \in Nat
        BY <1>3, <2>1
    <2>5. /\ Occurs(String(name), source, after + 4 + h)
          /\ Occurs(<<flag(i)>>, source, after + 4 + h + Len(String(name)))
        BY <1>5, <1>9, <2>3, <2>4, PartsOccur DEF packed
    <2>6. read_string(source, after + 4 + h) = [string |-> name, offset |-> after + 4 + h + Len(name) + 1]
        BY <1>9, <2>1, <2>4, <2>5, StringIsRead
    <2>7. source[after + 4 + h + (Len(name) + 1) + 1] = flag(i)
        <3>1. Len(<<flag(i)>>) = 1 /\ <<flag(i)>>[1] = flag(i) /\ 1 \in 1..1
            OBVIOUS
        <3>2. Len(String(name)) = Len(name) + 1
            BY <1>2, <2>1
        <3>3. source[after + 4 + h + Len(String(name)) + 1] = <<flag(i)>>[1]
            BY <2>5, <3>1 DEF Occurs
        <3> QED BY <3>1, <3>2, <3>3
    <2> HIDE DEF name
    <2>8. place[i] = after + 4 + end[i] /\ place[i - 1] = after + 4 + h
        BY <1>1 DEF h
    <2> HIDE DEF place
    <2>9. /\ place[i] = after + 4 + h + (Len(name) + 1) + 1
          /\ place[i] - 1 = after + 4 + h + Len(name) + 1
          /\ place[i] \in Nat
        BY <1>3, <2>1, <2>8
    <2> QED BY <2>4, <2>6, <2>7, <2>8, <2>9 DEF name
<1>16. place[0] = after + 4
    BY <1>1, <1>3, <1>7
<1> HIDE DEF place
<1> DEFINE at == Offsets(source, after + 4, N)
<1>17. FirstString(source).string = u /\ SecondString(source).string = t /\ SecondString(source).offset = after
    BY <1>12, <1>13 DEF FirstString, SecondString
<1>18. Count(source) = N
    BY <1>14, <1>17 DEF Count
<1>19. unpack_authorization(source) =
          [username |-> u, token |-> t,
           scopes |-> [i \in 1..N |-> [name |-> read_string(source, at[i - 1]).string, write |-> source[at[i]] # 0]]]
    <2>1. at = Offsets(source, SecondString(source).offset + 4, Count(source))
        BY <1>17, <1>18
    <2> HIDE DEF at
    <2>2. unpack_authorization(source) =
              [username |-> FirstString(source).string, token |-> SecondString(source).string,
               scopes |-> [i \in 1..Count(source) |->
                              [name |-> read_string(source, at[i - 1]).string, write |-> source[at[i]] # 0]]]
        BY <2>1, UnpackReads
    <2> QED BY <1>17, <1>18, <2>2
<1>20. at = OffsetsLoop(source, after + 4, N, at)
    BY <1>1, OffsetsExist
<1> HIDE DEF at
<1>21. at[0] = after + 4 /\ \A i \in 1..N : at[i] = read_string(source, at[i - 1]).offset + 1
    <2>1. 0 \in 0..N /\ \A i \in 1..N : i \in 0..N /\ i # 0
        BY <1>1
    <2> QED BY <1>20, <2>1 DEF OffsetsLoop
<1>22. \A i \in 0..N : at[i] = place[i]
    <2> DEFINE S == {n \in Nat : n <= N => at[n] = place[n]}
    <2>1. 0 \in S
        BY <1>16, <1>21
    <2>2. ASSUME NEW n \in S PROVE n + 1 \in S
        <3> SUFFICES ASSUME n + 1 <= N PROVE at[n + 1] = place[n + 1]
            OBVIOUS
        <3>1. n + 1 \in 1..N /\ (n + 1) - 1 = n /\ at[n] = place[n]
            BY <1>1
        <3>2. at[n + 1] = read_string(source, place[n]).offset + 1
            BY <1>21, <3>1
        <3>3. read_string(source, place[n]).offset = place[n + 1] - 1 /\ place[n + 1] \in Nat
            <4> DEFINE i == n + 1
            <4>1. i \in 1..N /\ i - 1 = n
                BY <3>1
            <4> HIDE DEF i
            <4>2. read_string(source, place[n]) = [string |-> s[i].name, offset |-> place[i] - 1] /\ place[i] \in Nat
                BY <1>15, <4>1
            <4> QED BY <4>2 DEF i
        <3> QED BY <3>2, <3>3
    <2> HIDE DEF S
    <2>3. S = Nat
        <3>1. S \in SUBSET Nat
            BY DEF S
        <3> QED BY <2>1, <2>2, <3>1, Induction
    <2> QED BY <1>1, <2>3 DEF S
<1>23. \A i \in 1..N : [name |-> read_string(source, at[i - 1]).string, write |-> source[at[i]] # 0] = s[i]
    <2> SUFFICES ASSUME NEW i \in 1..N
                 PROVE  [name |-> read_string(source, at[i - 1]).string, write |-> source[at[i]] # 0] = s[i]
        OBVIOUS
    <2> DEFINE h == i - 1
    <2>1. h \in 0..N /\ i \in 0..N
        BY <1>1
    <2>2. read_string(source, at[h]).string = s[i].name /\ source[at[i]] = flag(i)
        <3>1. read_string(source, place[h]) = [string |-> s[i].name, offset |-> place[i] - 1]
              /\ source[place[i]] = flag(i)
            BY <1>15
        <3> HIDE DEF h
        <3>2. at[i] = place[i] /\ at[h] = place[h]
            BY <1>22, <2>1
        <3> QED BY <3>1, <3>2
    <2>3. (flag(i) # 0) = s[i].write /\ s[i] = [name |-> s[i].name, write |-> s[i].write]
        BY <1>1 DEF flag
    <2> QED BY <2>2, <2>3
<1>24. [i \in 1..N |-> [name |-> read_string(source, at[i - 1]).string, write |-> source[at[i]] # 0]] = s
    BY <1>1, <1>23
<1> QED BY <1>11, <1>19, <1>24

\* SetToSeq() lists each element of a finite set once.
LEMMA SetIsListed ==
    ASSUME NEW T, IsFiniteSet(T)
    PROVE  SetToSeq(T) \in Seq(T) /\ Len(SetToSeq(T)) = Cardinality(T) /\ Range(SetToSeq(T)) = T
<1> DEFINE N == Cardinality(T)
           s == SetToSeq(T)
<1>1. N \in Nat /\ ExistsBijection(1..N, T)
    BY FS_CardinalityType
<1>2. \E f \in [1..N -> T] : IsInjective(f)
    BY <1>1 DEF ExistsBijection, Bijection, Injection
<1>3. s \in [1..N -> T] /\ IsInjective(s)
    BY <1>2 DEF SetToSeq
<1> HIDE DEF s
<1>4. IsFiniteSet(1..N) /\ Cardinality(1..N) = N
    BY <1>1, FS_Interval
<1>5. s \in Injection(1..N, T)
    BY <1>3 DEF Injection
<1>6. s \in Surjection(1..N, T)
    BY <1>4, <1>5, FS_Injection
<1>7. Range(s) = T
    BY <1>3, <1>6 DEF Surjection, Range
<1>8. s \in Seq(T) /\ Len(s) = N
    BY <1>1, <1>3
<1> QED BY <1>7, <1>8 DEF s

LEMMA NamesAreBytes ==
    ASSUME NEW S, S \subseteq 1..255, NEW x \in Seq(S)
    PROVE  x \in Seq(1..255)
<1> DEFINE Letter == 1..255
<1>1. S \subseteq Letter
    OBVIOUS
<1> HIDE DEF Letter
<1>2. x \in Seq(Letter)
    BY <1>1, SeqMonotonic, Zenon
<1> QED BY <1>2 DEF Letter

\* The bytes of a record give back what was added, as a set of scopes.
LEMMA RecordsSurvive ==
    \A new \in Call : new.op = "add" =>
        /\ Packed[new] # Nil
        /\ Unpacked[Packed[new]] = [username |-> new.username, token |-> new.token, scopes |-> new.scopes]
<1> SUFFICES ASSUME NEW new \in Call, new.op = "add"
             PROVE  /\ Packed[new] # Nil
                    /\ Unpacked[Packed[new]] =
                          [username |-> new.username, token |-> new.token, scopes |-> new.scopes]
    OBVIOUS
<1> DEFINE scopes == SetToSeq(new.scopes)
           auth == [username |-> new.username, token |-> new.token, scopes |-> scopes]
<1>1. new.username \in User /\ new.token \in Token /\ new.scopes \in SUBSET Scope
    BY KeysOfCalls, AuthDBAssumption
<1>2. new.username \in Seq(1..255) /\ new.token \in Seq(1..255)
    <2>1. new.username \in Seq(Char) /\ new.token \in Seq(Char)
        BY <1>1, AuthStoreAssumption
    <2>2. Char \subseteq 1..255
        BY RecordAssumption
    <2> QED BY <2>1, <2>2, NamesAreBytes, Zenon
<1>3. scopes \in Seq(new.scopes) /\ Len(scopes) <= MaxScopes /\ Range(scopes) = new.scopes
    BY SetIsListed, RecordAssumption
<1>4. new.scopes \subseteq [name : Seq(1..255), write : BOOLEAN]
    <2>1. ASSUME NEW x \in ScopeName PROVE x \in Seq(1..255)
        <3>1. x \in Seq(Name)
            BY AuthStoreAssumption
        <3>2. Name \subseteq 1..255
            BY RecordAssumption
        <3> QED BY <3>1, <3>2, NamesAreBytes, Zenon
    <2> QED BY <1>1, <2>1 DEF Scope
<1> HIDE DEF scopes
<1>5. scopes \in Seq([name : Seq(1..255), write : BOOLEAN])
    <2> DEFINE S == [name : Seq(1..255), write : BOOLEAN]
    <2>1. scopes \in Seq(new.scopes) /\ new.scopes \subseteq S
        BY <1>3, <1>4
    <2> HIDE DEF S
    <2>2. scopes \in Seq(S)
        BY <2>1, SeqMonotonic
    <2> QED BY <2>2 DEF S
<1>6. unpack_authorization(pack_authorization(auth)) = auth
    BY <1>2, <1>3, <1>5, RecordIsReadBack
<1>7. Packed[new] = pack_authorization(auth)
    BY DEF Packed, scopes
<1> HIDE DEF auth
<1>8. Packed[new] \in Range(Packed)
    BY PackedIsPacked
<1>9. Unpacked[Packed[new]] = [auth EXCEPT !.scopes = Range(auth.scopes)]
    BY <1>6, <1>7, <1>8 DEF Unpacked
<1> QED BY <1>3, <1>8, <1>9, RecordAssumption DEF auth

LEMMA ReadIsAuthorization ==
    ASSUME NEW bytes \in Range(Packed)
    PROVE  Unpacked[bytes] \in Authorization
<1>1. PICK new \in Call : new.op = "add" /\ bytes = Packed[new]
    BY DEF Packed, Range
<1>2. new.username \in User /\ new.token \in Token /\ new.scopes \in SUBSET Scope
    BY <1>1, KeysOfCalls, AuthDBAssumption
<1>3. Unpacked[bytes] = [username |-> new.username, token |-> new.token, scopes |-> new.scopes]
    BY <1>1, RecordsSurvive
<1> QED BY <1>2, <1>3 DEF Authorization

\* Whatever is stored is the record of an add, an authorization can be read
\* from it, and what a call has seen of the store are authorizations.
THEOREM TypeCorrect == Spec => []TypeOK
<1>1. Types => TypeOK
    <2> SUFFICES ASSUME Types PROVE TypeOK
        OBVIOUS
    <2>1. ASSUME NEW bytes \in Range(Packed) PROVE Unpacked[bytes] \in Authorization
        BY ReadIsAuthorization
    <2>2. Range(Unpacked) \subseteq Authorization
        BY <2>1 DEF Unpacked, Range
    <2>3. \A k \in Keys : db[k] # Nil => Unpacked[db[k]] \in Authorization
        BY <2>1 DEF Types
    <2>4. \A c \in Client : passed[c] \subseteq Keys /\ seen[c] \subseteq Authorization
        BY <2>2 DEF Types
    <2> QED BY <2>3, <2>4 DEF Types, TypeOK, Waits, Holds
<1> QED BY <1>1, SpecInv, PTL

-----------------------------------------------------------------------------
(***************************************************************************)
(* The refinement                                                          *)
(***************************************************************************)
\* What Promise sees of a store of bytes and of the clients.
Shown == [k \in Keys |-> IF db[k] = Nil THEN Nil ELSE Unpacked[db[k]]]
Results == [c \in Client |-> IF pc[c] = "done" THEN seen[c] ELSE Nil]

LEMMA PromisedStep ==
    ASSUME NEW c \in Client
    PROVE  /\ /\ call[c] = Nil /\ \E new \in Call : call' = [call EXCEPT ![c] = new]
              /\ UNCHANGED <<Shown, Results>>
              => Promise!AbsNext
           /\ /\ call[c] # Nil /\ call' = [call EXCEPT ![c] = Nil]
              /\ Results' = [Results EXCEPT ![c] = Nil] /\ UNCHANGED Shown
              => Promise!AbsNext
           /\ /\ call[c] # Nil /\ Results[c] = Nil
              /\ \/ /\ Shown' = Promise!Effect(Shown, call[c])
                    /\ Results' = [Results EXCEPT ![c] = Promise!Answer(Shown, call[c])]
                 \/ /\ MayFail /\ call[c].op \in {"add", "remove"}
                    /\ Shown' = Shown /\ Results' = [Results EXCEPT ![c] = {}]
              /\ UNCHANGED call
              => Promise!AbsNext
<1>1. ASSUME call[c] = Nil, \E new \in Call : call' = [call EXCEPT ![c] = new], UNCHANGED <<Shown, Results>>
      PROVE  Promise!Begin(c)
    BY <1>1 DEF Promise!Begin, Shown, Results
<1>2. ASSUME call[c] # Nil, call' = [call EXCEPT ![c] = Nil], Results' = [Results EXCEPT ![c] = Nil], UNCHANGED Shown
      PROVE  Promise!End(c)
    BY <1>2 DEF Promise!End, Shown, Results
<1>3. ASSUME call[c] # Nil, Results[c] = Nil, UNCHANGED call,
             \/ /\ Shown' = Promise!Effect(Shown, call[c])
                /\ Results' = [Results EXCEPT ![c] = Promise!Answer(Shown, call[c])]
             \/ /\ MayFail /\ call[c].op \in {"add", "remove"}
                /\ Shown' = Shown /\ Results' = [Results EXCEPT ![c] = {}]
      PROVE  Promise!TakeEffect(c)
    BY <1>3 DEF Promise!TakeEffect, Shown, Results
<1> QED BY <1>1, <1>2, <1>3 DEF Promise!AbsNext

\* Records that are read back are authorizations.
LEMMA ShownIsStore ==
    ASSUME Types
    PROVE  /\ Shown \in Store
           /\ \A k \in Keys : db[k] # Nil => Shown[k] = Unpacked[db[k]] /\ Shown[k] # Nil
           /\ \A k \in Keys : db[k] = Nil => Shown[k] = Nil
<1>1. \A bytes \in Range(Packed) : Unpacked[bytes] \in Authorization
    BY ReadIsAuthorization
<1>2. \A k \in Keys : db[k] # Nil => Unpacked[db[k]] \in Authorization /\ Unpacked[db[k]] # Nil
    BY <1>1, AuthStoreAssumption DEF Types
<1> QED BY <1>2 DEF Shown, Store
\* A step of one client from one place in its call to another.
LEMMA ResultsOfStep ==
    ASSUME Types, NEW c \in Client, NEW step, At(c, step), \A d \in Client \ {c} : seen'[d] = seen[d]
    PROVE  Results' = [Results EXCEPT ![c] = IF step = "done" THEN seen'[c] ELSE Nil]
BY DEF Types, At, Results

LEMMA WriteImplements ==
    ASSUME Types, LockInv, NEW c \in Client, add(c) \/ remove(c)
    PROVE  Promise!AbsNext
<1> DEFINE key == Key(call[c].username, call[c].token)
<1>1. call[c] \in Call /\ call[c] # Nil /\ call[c].op \in {"add", "remove"} /\ pc[c] = "inside"
    BY DEF Types, LockInv, CallsFit, add, remove, Inside
<1>2. key \in Keys
    BY <1>1, KeysOfCalls
<1>3. seen[c] = {} /\ UNCHANGED call /\ Results[c] = Nil
    BY <1>1 DEF LockInv, CursorsAreFresh, add, remove, Results
<1>4. Results' = [Results EXCEPT ![c] = seen'[c]]
    BY <1>1, ResultsOfStep DEF add, remove, Types
<1>5. CASE call[c].op = "add" /\ db' = [db EXCEPT ![key] = Packed[call[c]]] /\ seen' = seen
    <2>1. /\ Packed[call[c]] # Nil
          /\ Unpacked[Packed[call[c]]] =
                [username |-> call[c].username, token |-> call[c].token, scopes |-> call[c].scopes]
        BY <1>1, <1>5, RecordsSurvive
    <2>2. Promise!Effect(Shown, call[c]) =
            [Shown EXCEPT ![key] = [username |-> call[c].username, token |-> call[c].token, scopes |-> call[c].scopes]]
        BY <1>5 DEF Promise!Effect, Promise!add_authorization, Promise!Key, Key
    <2>3. Promise!Answer(Shown, call[c]) = {}
        BY <1>5 DEF Promise!Answer
    <2> HIDE DEF key
    <2>4. Shown' = [Shown EXCEPT ![key] = Unpacked[Packed[call[c]]]]
        BY <1>2, <1>5, <2>1 DEF Types, Shown
    <2> QED BY <1>1, <1>3, <1>4, <1>5, <2>1, <2>2, <2>3, <2>4, PromisedStep
<1>6. CASE /\ call[c].op = "remove" /\ db' = [db EXCEPT ![key] = Nil]
           /\ seen' = [seen EXCEPT ![c] = IF db[key] = Nil THEN {} ELSE {Unpacked[db[key]]}]
    <2>1. Promise!Effect(Shown, call[c]) = [Shown EXCEPT ![key] = Nil]
        BY <1>6 DEF Promise!Effect, Promise!remove_authorization, Promise!Key, Key
    <2>2. Promise!Answer(Shown, call[c]) = {Shown[key]} \ {Nil}
        BY <1>6 DEF Promise!Answer, Promise!lookup_authorization, Promise!Key, Key
    <2> HIDE DEF key
    <2>3. Shown' = [Shown EXCEPT ![key] = Nil]
        BY <1>2, <1>6 DEF Types, Shown
    <2>4. seen'[c] = {Shown[key]} \ {Nil}
        BY <1>2, <1>6, ShownIsStore DEF Types
    <2> QED BY <1>1, <1>3, <1>4, <2>1, <2>2, <2>3, <2>4, PromisedStep
<1>7. CASE MayFail /\ db' = db /\ seen' = seen
    <2>1. Shown' = Shown
        BY <1>7 DEF Shown
    <2>2. Results' = [Results EXCEPT ![c] = {}]
        BY <1>3, <1>4, <1>7
    <2> QED BY <1>1, <1>3, <1>7, <2>1, <2>2, PromisedStep
<1> QED BY <1>5, <1>6, <1>7 DEF add, remove, Inside

LEMMA LookupImplements ==
    ASSUME Types, LockInv, NEW c \in Client, lookup(c)
    PROVE  Promise!AbsNext
<1> DEFINE key == Key(call[c].username, call[c].token)
<1>1. call[c] \in Call /\ call[c] # Nil /\ call[c].op = "lookup" /\ pc[c] = "inside"
    BY DEF Types, LockInv, CallsFit, lookup, Inside
<1>2. key \in Keys
    BY <1>1, KeysOfCalls
<1>3. UNCHANGED <<db, call>> /\ Results[c] = Nil
    BY <1>1 DEF lookup, Results
<1>4. seen' = [seen EXCEPT ![c] = IF db[key] = Nil THEN {} ELSE {Unpacked[db[key]]}]
    BY DEF lookup
<1>5. Promise!Answer(Shown, call[c]) = {Shown[key]} \ {Nil}
    BY <1>1 DEF Promise!Answer, Promise!lookup_authorization, Promise!Key, Key
<1> HIDE DEF key
<1>6. seen'[c] = {Shown[key]} \ {Nil} /\ \A d \in Client \ {c} : seen'[d] = seen[d]
    BY <1>2, <1>4, ShownIsStore DEF Types
<1>7. Results' = [Results EXCEPT ![c] = Promise!Answer(Shown, call[c])]
    BY <1>5, <1>6, ResultsOfStep DEF lookup
<1>8. Promise!Effect(Shown, call[c]) = Shown /\ Shown' = Shown
    BY <1>1, <1>3 DEF Promise!Effect, Shown
<1> QED BY <1>1, <1>3, <1>7, <1>8, PromisedStep
\* What a walk that is at its end has found is what the whole store lists.
LEMMA WalkFindsAll ==
    ASSUME Types, NEW c \in Client, call[c] \in Call, call[c].op = "list",
           passed[c] = {k \in Keys : db[k] # Nil}
    PROVE  Found(c) = Promise!Answer(Shown, call[c])
<1> DEFINE u == call[c].username
<1>1. u \in User \cup {Nil}
    BY AuthDBAssumption
<1>2. \A k \in Keys : Shown[k] # Nil <=> db[k] # Nil
    BY ShownIsStore
<1>3. \A k \in Keys : db[k] # Nil => Shown[k] = Unpacked[db[k]] /\ Shown[k].username \in User
    BY ShownIsStore DEF Store, Authorization
<1>4. Found(c) = {Shown[k] : k \in {l \in Keys : Shown[l] # Nil /\ u \in {Nil, Shown[l].username}}}
    BY <1>2, <1>3 DEF Found
<1>5. \A v \in User : Promise!list_authorizations(Shown, v) =
            {Shown[k] : k \in {l \in Keys : Shown[l] # Nil /\ Shown[l].username = v}}
    BY DEF Promise!list_authorizations, Promise!Keys, Promise!Key, Keys, Key
<1>6. CASE u = Nil
    <2>1. Promise!Answer(Shown, call[c]) = UNION {Promise!list_authorizations(Shown, v) : v \in User}
        BY <1>6 DEF Promise!Answer
    <2>2. Found(c) = {Shown[k] : k \in {l \in Keys : Shown[l] # Nil}}
        BY <1>4, <1>6
    <2> HIDE DEF u
    <2>3. UNION {Promise!list_authorizations(Shown, v) : v \in User} = {Shown[k] : k \in {l \in Keys : Shown[l] # Nil}}
        <3>1. ASSUME NEW v \in User, NEW a \in Promise!list_authorizations(Shown, v)
              PROVE  a \in {Shown[k] : k \in {l \in Keys : Shown[l] # Nil}}
            BY <1>5, <3>1
        <3>2. ASSUME NEW k \in Keys, Shown[k] # Nil
              PROVE  \E v \in User : Shown[k] \in Promise!list_authorizations(Shown, v)
            BY <1>2, <1>3, <1>5, <3>2
        <3> QED BY <3>1, <3>2
    <2> QED BY <2>1, <2>2, <2>3
<1>7. CASE u # Nil
    <2>1. Promise!Answer(Shown, call[c]) = Promise!list_authorizations(Shown, u)
        BY <1>7 DEF Promise!Answer
    <2> HIDE DEF u
    <2>2. Found(c) = {Shown[k] : k \in {l \in Keys : Shown[l] # Nil /\ Shown[l].username = u}}
        BY <1>4, <1>7
    <2> QED BY <1>1, <1>5, <1>7, <2>1, <2>2
<1> QED BY <1>6, <1>7

LEMMA WalkImplements ==
    ASSUME Types, LockInv, WalksAreCurrent, NEW c \in Client, walk(c)
    PROVE  Promise!AbsNext \/ UNCHANGED <<Shown, call, Results>>
<1>1. /\ call[c] \in Call /\ call[c] # Nil /\ call[c].op = "list" /\ pc[c] \in {"inside", "walking"}
      /\ UNCHANGED <<db, call>>
    BY DEF Types, LockInv, CallsFit, walk, Advance, Inside
<1>2. Results[c] = Nil /\ UNCHANGED Shown
    BY <1>1 DEF Results, Shown
<1>3. (\A k \in passed[c] : db[k] # Nil) /\ seen[c] = Found(c)
    <2>1. CASE pc[c] = "walking"
        BY <2>1 DEF WalksAreCurrent, Found
    <2>2. CASE pc[c] = "inside"
        <3>1. passed[c] = {} /\ seen[c] = {}
            BY <2>2 DEF LockInv, CursorsAreFresh
        <3> QED BY <3>1 DEF Found
    <2> QED BY <1>1, <2>1, <2>2
<1>4. CASE At(c, "done") /\ {k \in Keys \ passed[c] : db[k] # Nil} = {} /\ UNCHANGED <<passed, seen>>
    <2>1. passed[c] = {k \in Keys : db[k] # Nil}
        BY <1>3, <1>4 DEF Types
    <2>2. seen[c] = Promise!Answer(Shown, call[c])
        BY <1>1, <1>3, <2>1, WalkFindsAll
    <2>3. Results' = [Results EXCEPT ![c] = Promise!Answer(Shown, call[c])]
        BY <1>4, <2>2, ResultsOfStep
    <2>4. Promise!Effect(Shown, call[c]) = Shown
        BY <1>1 DEF Promise!Effect
    <2> QED BY <1>1, <1>2, <2>3, <2>4, PromisedStep
<1>5. CASE At(c, "walking") /\ \A d \in Client \ {c} : seen'[d] = seen[d]
    <2>1. Results' = [Results EXCEPT ![c] = Nil]
        BY <1>5, ResultsOfStep
    <2>2. Results' = Results
        BY <1>2, <2>1 DEF Results
    <2> QED BY <1>1, <1>2, <2>2
<1> QED BY <1>4, <1>5 DEF walk, Advance, Types

\* Returns and deaths end the call.
LEMMA LeaveImplements ==
    ASSUME Types, LockInv, NEW c \in Client, call[c] # Nil, Leave(c)
    PROVE  Promise!AbsNext
<1>1. call' = [call EXCEPT ![c] = Nil] /\ UNCHANGED Shown
    BY DEF Leave, Shown
<1>2. Results' = [Results EXCEPT ![c] = Nil]
    BY ResultsOfStep DEF Leave, Types
<1> QED BY <1>1, <1>2, PromisedStep

LEMMA NextImplements ==
    ASSUME Types, LockInv, WalksAreCurrent, [Next]_vars
    PROVE  [Promise!AbsNext]_(Promise!absVars)
<1> SUFFICES Promise!AbsNext \/ UNCHANGED <<Shown, call, Results>>
    BY DEF Promise!absVars, Shown, Results
<1>1. CASE UNCHANGED vars
    BY <1>1 DEF vars, Shown, Results
<1>2. ASSUME NEW c \in Client, Begin(c) PROVE Promise!AbsNext
    <2>1. /\ call[c] = Nil /\ \E new \in Call : call' = [call EXCEPT ![c] = new]
          /\ pc[c] = "idle" /\ UNCHANGED <<Shown, seen>>
        BY <1>2 DEF Begin, LockInv, CallsFit, Shown
    <2>2. Results' = [Results EXCEPT ![c] = Nil]
        BY <1>2, <2>1, ResultsOfStep DEF Begin
    <2>3. Results' = Results
        BY <2>1, <2>2 DEF Results
    <2> QED BY <2>1, <2>3, PromisedStep
<1>3. CASE Grant
    <2>1. Head(queue).who \in Client => pc[Head(queue).who] = "waiting"
        BY <1>3 DEF Grant, Types, LockInv, QueueFits
    <2> QED BY <1>3, <2>1 DEF Grant, Shown, Results, Types
<1>4. ASSUME NEW c \in Client, spin(c) PROVE UNCHANGED <<Shown, call, Results>>
    <2>1. Results' = [Results EXCEPT ![c] = Nil]
        BY <1>4, ResultsOfStep DEF spin
    <2>2. Results' = Results
        BY <1>4, <2>1 DEF spin, Results
    <2> QED BY <1>4, <2>2 DEF spin, Shown
<1>5. ASSUME NEW c \in Client, return(c) \/ abort(c) \/ Die(c) PROVE Promise!AbsNext
    <2>1. call[c] # Nil /\ Leave(c)
        BY <1>5 DEF return, abort, Die, Inside, LockInv, CallsFit
    <2> QED BY <2>1, LeaveImplements
<1> QED BY <1>1, <1>2, <1>3, <1>4, <1>5, WriteImplements, LookupImplements, WalkImplements DEF Next, Operate

LEMMA InitImplements == Init => Promise!AbsInit
<1> SUFFICES ASSUME Init PROVE Promise!AbsInit
    OBVIOUS
<1>1. \A k \in Keys : db[k] = Nil
    BY DEF Init, NoAuthorizations
<1>2. Shown = [k \in Keys |-> Nil]
    BY <1>1 DEF Shown
<1>3. Promise!NoAuthorizations = [k \in Keys |-> Nil]
    BY DEF Promise!NoAuthorizations, Promise!Keys, Promise!Key, Keys, Key
<1>4. Results = [c \in Client |-> Nil]
    BY DEF Init, Results
<1> QED BY <1>2, <1>3, <1>4 DEF Init, Promise!AbsInit, Shown, Results

\* Behind the lock, records as bytes, listings of many steps, puts that fail
\* and processes that die at any point: each call is as if it happened at one
\* moment, or not at all.
THEOREM CallsAreAtomic == Spec => ImplementsAuthSpec
<1>1. Types /\ LockInv /\ WalksAreCurrent /\ [Next]_vars => [Promise!AbsNext]_(Promise!absVars)
    BY NextImplements
<1> QED BY <1>1, InitImplements, SpecInv, PTL DEF Spec, ImplementsAuthSpec, Promise!AbsSpec
=============================================================================
