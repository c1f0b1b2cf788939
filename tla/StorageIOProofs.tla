--------------------------- MODULE StorageIOProofs --------------------------
(***************************************************************************)
(* What holds between any two system calls of a request, whatever trees,   *)
(* contents, crashes, failures and edits there are.                        *)
(***************************************************************************)
EXTENDS StorageIO, FileTreeProofs

Walking == {"walk", "mkdirat", "openat"}
Putting == {"match", "open", "write", "stat2", "etag2"} \cup Walking
Deleting == {"unlink", "prune"}

Request == [method : {"GET", "PUT", "DELETE"}, path : Document,
            body : Content \cup {Nil}, ifMatch : Content \cup {Nil}]

-----------------------------------------------------------------------------
(***************************************************************************)
(* One call's effect on a tree.                                            *)
(***************************************************************************)
\* A path below the root lies in its parent, which is a path.
LEMMA ParentAbove ==
    ASSUME NEW p \in Document
    PROVE  Parent(p) \in Above(p) /\ Parent(p) \in Path
<1>1. p \in Seq(STRING) /\ p # <<>> /\ Len(p) \in Nat
  BY PathAssumption, LenProperties DEF Document
<1>2. Len(p) # 0
  BY <1>1, EmptySeq
<1>3. Len(p) - 1 \in 0..(Len(p) - 1)
  BY <1>1, <1>2
<1>4. Parent(p) \in Above(p)
  BY <1>3 DEF Parent, Above
<1> QED
  BY <1>4, AboveType DEF Document

\* The root is above every document.
LEMMA RootAbove ==
    ASSUME NEW p \in Document
    PROVE  <<>> \in Above(p)
<1>1. p \in Seq(STRING) /\ p # <<>> /\ Len(p) \in Nat
  BY PathAssumption, LenProperties DEF Document
<1>2. Len(p) # 0
  BY <1>1, EmptySeq
<1>3. 0 \in 0..(Len(p) - 1)
  BY <1>1, <1>2
<1>4. SubSeq(p, 1, 0) = <<>>
  BY <1>1
<1> QED
  BY <1>3, <1>4 DEF Above

\* The parent that is looked up relative to another one lies next below it.
LEMMA NextBelow ==
    ASSUME NEW p \in Document, NEW q \in Above(p)
    PROVE  LET b == SubSeq(p, 1, Len(q) + 1)
           IN  /\ b \in Document
               /\ b = p \/ b \in Above(p)
               /\ Parent(b) = q
<1>1. p \in Seq(STRING) /\ Len(p) \in Nat /\ \A i \in 0..Len(p) : SubSeq(p, 1, i) \in Path
  BY PathAssumption, LenProperties DEF Document
<1>2. PICK i \in 0..(Len(p) - 1) : q = SubSeq(p, 1, i)
  BY DEF Above
<1>3. \A j \in 1..Len(p) : p[j] \in STRING
  BY <1>1, ElementOfSeq
<1>4. Len(q) = i
  BY <1>1, <1>2, <1>3, SubSeqProperties
<1> DEFINE b == SubSeq(p, 1, i + 1)
<1>5. b \in Path /\ Len(b) = i + 1 /\ b \in Seq(STRING)
  BY <1>1, <1>2, <1>3, SubSeqProperties
<1>6. b # <<>>
  BY <1>2, <1>5
<1>7. b = p \/ b \in Above(p)
  <2>1. CASE i + 1 = Len(p)
    <3>1. b = p
      BY <1>1, <2>1
    <3> QED
      BY <3>1
  <2>2. CASE i + 1 # Len(p)
    BY <1>1, <1>2, <2>2 DEF Above
  <2> QED
    BY <2>1, <2>2
<1>8. Parent(b) = q
  BY <1>1, <1>2, <1>5 DEF Parent
<1> QED
  BY <1>4, <1>5, <1>6, <1>7, <1>8 DEF Document

\* Making something in a directory, where nothing was or only a file.
LEMMA MakeClosed ==
    ASSUME NEW t \in Tree, Closed(t), NEW p \in Document, NEW n \in Node,
           t[Parent(p)] = Dir, t[p] # Dir
    PROVE  [t EXCEPT ![p] = n] \in Tree /\ Closed([t EXCEPT ![p] = n])
<1> DEFINE u == [t EXCEPT ![p] = n]
<1>1. u \in Tree
  BY DEF Tree
<1> SUFFICES ASSUME NEW r \in Path, u[r] # Absent, NEW q \in Above(r)
             PROVE  u[q] = Dir
  BY <1>1 DEF Closed
<1>2. q \in Path /\ q # r
  BY AboveType
<1>3. CASE r = p
  <2>1. q = Parent(p) \/ q \in Above(Parent(p))
    BY <1>3, AboveParent DEF Document
  <2>2. t[q] = Dir
    BY <2>1, ParentAbove, NodeAssumption DEF Closed
  <2> QED
    BY <1>2, <1>3, <2>2 DEF Tree
<1>4. CASE r # p
  <2>1. t[r] # Absent
    BY <1>4 DEF Tree
  <2>2. t[q] = Dir
    BY <2>1 DEF Closed
  <2> QED
    BY <1>2, <2>2 DEF Tree
<1> QED
  BY <1>3, <1>4

\* Removing a file or an empty directory.
LEMMA RemoveClosed ==
    ASSUME NEW t \in Tree, Closed(t), NEW p \in Document,
           t[p] \in Content \/ EmptyDir(t, p)
    PROVE  [t EXCEPT ![p] = Absent] \in Tree /\ Closed([t EXCEPT ![p] = Absent])
<1> DEFINE u == [t EXCEPT ![p] = Absent]
<1>1. u \in Tree
  BY DEF Tree, Node
<1> SUFFICES ASSUME NEW r \in Path, u[r] # Absent, NEW q \in Above(r)
             PROVE  u[q] = Dir
  BY <1>1 DEF Closed
<1>2. q \in Path
  BY AboveType
<1>3. t[r] # Absent
  BY DEF Tree
<1>4. t[q] = Dir
  BY <1>3 DEF Closed
<1>5. q # p
  BY <1>3, <1>4, NodeAssumption DEF EmptyDir
<1> QED
  BY <1>2, <1>4, <1>5 DEF Tree

-----------------------------------------------------------------------------
(***************************************************************************)
(* The inductive invariant.                                                *)
(***************************************************************************)
\* Each call belongs to a method.
Methods ==
    /\ pc \notin {"idle", "down"} =>
         req \in Request /\ (req.method = "GET" => req.ifMatch = Nil)
    /\ pc = "read" => req.method = "GET"
    /\ pc \in Putting => req.method = "PUT"
    /\ pc \in Deleting => req.method = "DELETE"

\* Where the handler stands: above its target, and before its next parent.
Position ==
    /\ pc \in {"stat", "etag", "match"} => at = <<>> /\ held = <<>>
    /\ pc \in Walking \cup {"prune"} => at \in Above(Target)
    /\ pc \in {"mkdirat", "openat"} => Below # Target

\* The target and the directories above it are among the places.
Places == pc \notin {"idle", "down"} => Target \in files /\ Above(Target) \subseteq dirs

\* The directories of the target at and below the one the handler is at, as seen from h.
Way(h, i) == h \o SubSeq(Target, Len(at) + 1, i)

\* As long as the node of the open descriptor is linked, it is what was opened, in
\* one of the places; and so are the directories the walk will make from there.
HeldNode ==
    held # Nil =>
        /\ pc \in Walking =>
             fs[held] = Dir /\ \A i \in Len(at)..(Len(Target) - 1) : Way(held, i) \in dirs
        /\ pc = "write" => fs[held] \in Content /\ held \in files

\* What may be anywhere, during the request as after a crash in it.
Damage ==
    \A p \in Path :
       \/ fs[p] = before[p]
       \/ {fs[p], before[p]} \subseteq {Absent, Dir}
       \/ /\ p \in files
          /\ \/ req.method = "DELETE" /\ fs[p] = Absent
             \/ req.method = "PUT" /\ fs[p] \in {Empty, req.body} \cup Partial[req.body]

\* Every node lies in directories only.
TreeClosed == Closed(fs)

IOInv ==
    TypeOK /\ TreeClosed /\ Methods /\ Position /\ Places /\ HeldNode /\ Confined /\ Damage

\* What the invariant says of a request under way.
LEMMA AtWork ==
    ASSUME IOInv, pc \notin {"idle", "down"}
    PROVE  /\ Target \in Document /\ Target \in Path
           /\ Target \notin Above(Target) /\ Above(Target) \subseteq Path
           /\ at \in Path
<1>1. req \in Request
  BY DEF IOInv, Methods
<1>2. Target \in Document
  BY <1>1 DEF Request, Target
<1> QED
  BY <1>2, AboveType DEF Document, IOInv, TypeOK

\* The next parent of a walk.
LEMMA AtBelow ==
    ASSUME IOInv, pc \in Walking
    PROVE  /\ Below \in Document
           /\ Below = Target \/ Below \in Above(Target)
           /\ Parent(Below) = at
           /\ Len(at) \in 0..(Len(Target) - 1) /\ Len(Below) = Len(at) + 1
           /\ Len(Target) \in Nat
           /\ Below # Target => Len(at) + 1 \in 0..(Len(Target) - 1)
<1>1. Target \in Document
  BY AtWork DEF Walking
<1>2. at \in Above(Target)
  BY DEF IOInv, Position
<1>3. Target \in Seq(STRING) /\ Len(Target) \in Nat
      /\ \A j \in 1..Len(Target) : Target[j] \in STRING
  BY <1>1, PathAssumption, LenProperties, ElementOfSeq DEF Document
<1>4. PICK i \in 0..(Len(Target) - 1) : at = SubSeq(Target, 1, i)
  BY <1>2 DEF Above
<1>5. Len(at) = i
  BY <1>3, <1>4, SubSeqProperties
<1>6. Len(Below) = Len(at) + 1
  BY <1>3, <1>4, <1>5, SubSeqProperties DEF Below
<1>7. Len(at) + 1 = Len(Target) => Below = Target
  BY <1>3, SubSeqFull DEF Below
<1>8. Len(at) \in 0..(Len(Target) - 1) /\ (Below # Target => Len(at) + 1 \in 0..(Len(Target) - 1))
  <2>1. Below # Target => i + 1 # Len(Target)
    BY <1>5, <1>7
  <2>2. i + 1 # Len(Target) => i + 1 \in 0..(Len(Target) - 1)
    BY <1>3, <1>4
  <2> QED
    BY <1>4, <1>5, <2>1, <2>2
<1>9. /\ Below \in Document
      /\ Below = Target \/ Below \in Above(Target)
      /\ Parent(Below) = at
  BY <1>1, <1>2, NextBelow DEF Below
<1> QED
  BY <1>3, <1>6, <1>8, <1>9

\* The place the walk looks at next.
LEMMA AtEntry ==
    ASSUME IOInv, pc \in {"mkdirat", "openat"}, held # Nil
    PROVE  /\ Entry \in Document /\ Entry \in dirs
           /\ Parent(Entry) = held /\ Entry # held
           /\ \A i \in (Len(at) + 1)..(Len(Target) - 1) :
                Entry \o SubSeq(Target, Len(at) + 2, i) \in dirs
<1> DEFINE n == Len(at)
           name == Target[n + 1]
<1>1. /\ n \in Nat /\ n + 1 \in 0..(Len(Target) - 1) /\ Len(Target) \in Nat
      /\ Target \in Seq(STRING) /\ held \in Path /\ held \in Seq(STRING)
  BY AtBelow, AtWork, PathAssumption DEF IOInv, TypeOK, Position, Walking, Document
<1>2. \A j \in 1..Len(Target) : Target[j] \in STRING
  BY <1>1, ElementOfSeq
<1>3. name \in STRING /\ Len(held) \in Nat
  BY <1>1, <1>2, LenProperties
<1> HIDE DEF n, name
<1>4. Entry = Append(held, name)
  BY DEF Entry, n, name
<1>5. \A i \in n..(Len(Target) - 1) : held \o SubSeq(Target, n + 1, i) \in dirs
  BY DEF IOInv, HeldNode, Way, n, Walking
<1>6. /\ Entry \in Seq(STRING) /\ Entry # <<>> /\ Len(Entry) = Len(held) + 1
      /\ \A j \in 1..Len(held) : Entry[j] = held[j]
      /\ Entry[Len(held) + 1] = name
  BY <1>1, <1>3, <1>4, AppendProperties
<1>7. ASSUME NEW i \in (n + 1)..(Len(Target) - 1)
      PROVE  Entry \o SubSeq(Target, n + 2, i) = held \o SubSeq(Target, n + 1, i)
  <2>0. /\ i \in Int /\ n + 1 \in Int /\ n + 2 \in Int
        /\ \A j \in (n + 2)..i : Target[j] \in STRING
        /\ \A j \in (n + 1)..i : Target[j] \in STRING
    BY <1>1, <1>2
  <2>1. PICK a \in Seq(STRING), b \in Seq(STRING) :
           a = SubSeq(Target, n + 2, i) /\ b = SubSeq(Target, n + 1, i)
    <3>1. SubSeq(Target, n + 2, i) \in Seq(STRING)
      BY <2>0, SubSeqProperties
    <3>2. SubSeq(Target, n + 1, i) \in Seq(STRING)
      BY <2>0, SubSeqProperties
    <3> QED
      BY <3>1, <3>2
  <2>2. /\ Len(a) = i - n - 1 /\ \A j \in 1..Len(a) : a[j] = Target[n + 1 + j]
        /\ Len(b) = i - n /\ \A j \in 1..Len(b) : b[j] = Target[n + j]
    <3>1. /\ Len(a) = IF n + 2 <= i THEN i - (n + 2) + 1 ELSE 0
          /\ \A j \in 1..(i - (n + 2) + 1) : a[j] = Target[(n + 2) + j - 1]
      BY <2>0, <2>1, SubSeqProperties
    <3>2. /\ Len(b) = IF n + 1 <= i THEN i - (n + 1) + 1 ELSE 0
          /\ \A j \in 1..(i - (n + 1) + 1) : b[j] = Target[(n + 1) + j - 1]
      BY <2>0, <2>1, SubSeqProperties
    <3> QED
      BY <1>1, <3>1, <3>2
  <2>3. PICK x \in Seq(STRING), y \in Seq(STRING) : x = Entry \o a /\ y = held \o b
    BY <1>1, <1>6, ConcatProperties
  <2>4. /\ Len(x) = Len(Entry) + Len(a)
        /\ \A j \in 1..(Len(Entry) + Len(a)) :
              x[j] = IF j <= Len(Entry) THEN Entry[j] ELSE a[j - Len(Entry)]
    <3>1. PICK e \in Seq(STRING) : e = Entry
      BY <1>6
    <3>2. /\ Len(e \o a) = Len(e) + Len(a)
          /\ \A j \in 1..(Len(e) + Len(a)) :
                (e \o a)[j] = IF j <= Len(e) THEN e[j] ELSE a[j - Len(e)]
      BY ConcatProperties
    <3> QED
      BY <2>3, <3>1, <3>2
  <2>5. /\ Len(y) = Len(held) + Len(b)
        /\ \A j \in 1..(Len(held) + Len(b)) :
              y[j] = IF j <= Len(held) THEN held[j] ELSE b[j - Len(held)]
    BY <1>1, <2>3, ConcatProperties
  <2>6. Len(x) = Len(y)
    BY <1>1, <1>3, <1>6, <2>2, <2>4, <2>5
  <2>7. ASSUME NEW j \in 1..Len(x) PROVE x[j] = y[j]
    <3>1. /\ j \in Nat /\ j >= 1
          /\ x[j] = IF j <= Len(Entry) THEN Entry[j] ELSE a[j - Len(Entry)]
          /\ y[j] = IF j <= Len(held) THEN held[j] ELSE b[j - Len(held)]
      BY <2>4, <2>5, <2>6, LenProperties
    <3>2. CASE j <= Len(held)
      BY <1>3, <1>6, <3>1, <3>2
    <3>3. CASE j = Len(held) + 1
      <4>1. x[j] = name /\ y[j] = b[1]
        BY <1>3, <1>6, <3>1, <3>3
      <4> QED
        BY <1>1, <2>2, <4>1 DEF name
    <3>4. CASE j > Len(held) + 1
      <4>0. /\ ~(j <= Len(Entry)) /\ ~(j <= Len(held)) /\ Len(Entry) = Len(held) + 1
            /\ j - Len(Entry) = j - (Len(held) + 1)
        BY <1>3, <1>6, <3>1, <3>4
      <4>1. /\ x[j] = a[j - (Len(held) + 1)] /\ y[j] = b[j - Len(held)]
            /\ j - (Len(held) + 1) \in 1..Len(a) /\ j - Len(held) \in 1..Len(b)
        <5>1. x[j] = a[j - (Len(held) + 1)] /\ y[j] = b[j - Len(held)]
          BY <3>1, <4>0
        <5>2. /\ Len(x) = Len(held) + 1 + Len(a) /\ Len(a) \in Nat /\ Len(b) = Len(a) + 1
              /\ j <= Len(x)
          BY <1>1, <2>2, <2>4, <4>0, LenProperties
        <5>3. j - (Len(held) + 1) \in 1..Len(a)
          BY <1>3, <3>1, <3>4, <5>2
        <5>4. j - Len(held) \in 1..Len(b)
          BY <1>3, <3>1, <3>4, <5>2
        <5> QED
          BY <5>1, <5>3, <5>4
      <4>2. a[j - (Len(held) + 1)] = Target[n + 1 + (j - (Len(held) + 1))]
        BY <2>2, <4>1
      <4>3. b[j - Len(held)] = Target[n + (j - Len(held))]
        BY <2>2, <4>1
      <4>4. n + 1 + (j - (Len(held) + 1)) = n + (j - Len(held))
        BY <1>1, <1>3, <3>1
      <4> QED
        BY <4>1, <4>2, <4>3, <4>4
    <3>5. j <= Len(held) \/ j = Len(held) + 1 \/ j > Len(held) + 1
      BY <1>3, <3>1
    <3> QED
      BY <3>2, <3>3, <3>4, <3>5
  <2> QED
    BY <2>1, <2>3, <2>6, <2>7, SeqEqual
<1>8. \A i \in (n + 1)..(Len(Target) - 1) : Entry \o SubSeq(Target, n + 2, i) \in dirs
  <2> SUFFICES ASSUME NEW i \in (n + 1)..(Len(Target) - 1)
               PROVE  Entry \o SubSeq(Target, n + 2, i) \in dirs
    OBVIOUS
  <2>1. i \in n..(Len(Target) - 1)
    BY <1>1
  <2> QED
    BY <1>5, <1>7, <2>1
<1>9. Entry \in dirs
  <2>1. SubSeq(Target, n + 2, n + 1) = <<>>
    BY <1>1, SubSeqEmpty
  <2>2. Entry \o <<>> = Entry
    BY <1>6, ConcatEmptySeq
  <2>3. n + 1 \in (n + 1)..(Len(Target) - 1)
    BY <1>1
  <2>4. Entry \o SubSeq(Target, n + 2, n + 1) \in dirs
    BY <1>8, <2>3
  <2> QED
    BY <2>1, <2>2, <2>4
<1>10. Entry \in Document
  BY <1>6, <1>9 DEF IOInv, TypeOK, Document
<1>11. Parent(Entry) = held /\ Entry # held
  <2> DEFINE w == SubSeq(Entry, 1, Len(held))
  <2>1. \A j \in 1..Len(held) : Entry[j] \in STRING
    BY <1>1, <1>6, ElementOfSeq
  <2>2. w \in Seq(STRING) /\ Len(w) = Len(held) /\ \A j \in 1..Len(w) : w[j] = held[j]
    BY <1>3, <1>6, <2>1, SubSeqProperties
  <2>3. w = held
    BY <1>1, <2>2, SeqEqual
  <2> QED
    BY <1>3, <1>6, <2>3 DEF Parent
<1> QED
  BY <1>8, <1>9, <1>10, <1>11 DEF n

-----------------------------------------------------------------------------
LEMMA InitIO == Init => IOInv
<1> SUFFICES ASSUME Init PROVE IOInv
  OBVIOUS
<1>1. fs \in Tree /\ before = fs
  BY PathAssumption DEF Init, Tree, Node
<1>2. TypeOK
  BY <1>1, PathAssumption, StorageIOAssumption DEF Init, TypeOK, NoRequest
<1>3. TreeClosed
  <2> SUFFICES ASSUME NEW r \in Path, fs[r] # Absent, NEW q \in Above(r)
               PROVE  FALSE
    BY DEF TreeClosed, Closed
  <2>1. r = <<>>
    BY DEF Init
  <2>2. Above(r) = {}
    BY <2>1 DEF Above
  <2> QED
    BY <2>2
<1>4. Methods /\ Position /\ Places /\ HeldNode
  BY DEF Init, Methods, Position, Places, HeldNode, Putting, Deleting, Walking
<1>5. Confined /\ Damage
  BY <1>1 DEF Confined, Damage
<1> QED
  BY <1>2, <1>3, <1>4, <1>5 DEF IOInv

\* A call that only looks, and whatever else leaves the files alone.
LEMMA SameFiles ==
    ASSUME IOInv, UNCHANGED <<fs, before, req>>, UNCHANGED user
    PROVE  TreeClosed' /\ Confined' /\ Damage'
<1>1. TreeClosed'
  BY DEF IOInv, TreeClosed, Closed
<1>2. Confined'
  BY DEF IOInv, Confined, user
<1>3. Damage'
  BY DEF IOInv, Damage, user
<1> QED
  BY <1>1, <1>2, <1>3

\* The places stay those of the request under way.
LEMMA SamePlaces ==
    ASSUME IOInv, UNCHANGED req, UNCHANGED user, pc \notin {"idle", "down"}
    PROVE  Places' /\ Target' = Target
  BY DEF IOInv, Places, Target, user

\* An answer ends what the handler holds.
LEMMA AnswerStep ==
    ASSUME IOInv, UNCHANGED <<fs, before, req, at, held>>, UNCHANGED user,
           seen' \in Node \cup {Nil},
           pc' \in {"idle", "down", "spin"}, pc \notin {"idle", "down"}
    PROVE  IOInv'
<1>1. TypeOK' /\ Methods' /\ Position' /\ HeldNode'
  BY DEF IOInv, TypeOK, Methods, Position, HeldNode, Putting, Deleting, Walking, user
<1> QED
  BY <1>1, SameFiles, SamePlaces DEF IOInv

\* The calls that only look.
LEMMA LookStep ==
    IOInv /\ (Stat \/ GetEtag \/ Read \/ Match \/ Stat2 \/ PutEtag \/ DeleteEtag)
          /\ UNCHANGED user => IOInv'
<1> SUFFICES ASSUME IOInv, Stat \/ GetEtag \/ Read \/ Match \/ Stat2 \/ PutEtag \/ DeleteEtag,
                    UNCHANGED user
             PROVE  IOInv'
  OBVIOUS
<1>1. UNCHANGED <<fs, before, req, at, held>>
  BY DEF Stat, GetEtag, Read, Match, Stat2, PutEtag, DeleteEtag
<1>2. pc \notin {"idle", "down"}
  BY DEF Stat, GetEtag, Read, Match, Stat2, PutEtag, DeleteEtag
<1>3. Target \in Document /\ Target \in Path /\ req \in Request
  BY <1>2, AtWork DEF IOInv, Methods
<1>4. fs[Target] \in Node
  BY <1>3 DEF IOInv, TypeOK, Tree
<1>5. seen' \in Node \cup {Nil}
  BY <1>4 DEF Stat, GetEtag, Read, Match, Stat2, PutEtag, DeleteEtag, IOInv, TypeOK
<1>6. \/ pc = "stat" /\ (pc' \in {"idle"} \/ (pc' = "match" /\ req.method = "PUT")
                          \/ (pc' = "etag" /\ req.method # "PUT"))
      \/ pc = "etag" /\ pc' \in {"idle", "down"}
      \/ pc = "etag" /\ pc' = "read" /\ req.method = "GET"
      \/ pc = "etag" /\ pc' = "unlink" /\ req.method = "DELETE"
      \/ pc = "read" /\ pc' \in {"idle", "spin"}
      \/ pc = "match" /\ pc' \in {"idle", "down"}
      \/ pc = "match" /\ pc' = "walk" /\ fs[<<>>] = Dir
      \/ pc = "stat2" /\ pc' \in {"idle", "etag2"}
      \/ pc = "etag2" /\ pc' \in {"idle", "down"}
  BY DEF Stat, GetEtag, Read, Match, Stat2, PutEtag, DeleteEtag, Goto, Fail, Reply, Die
<1>7. TypeOK'
  BY <1>1, <1>5, <1>6 DEF IOInv, TypeOK, user
<1>8. Methods'
  BY <1>1, <1>3, <1>6 DEF IOInv, Methods, Putting, Deleting, Walking
<1>9. Position'
  <2>1. pc' \notin {"mkdirat", "openat", "prune"}
    BY <1>6
  <2>2. pc' \in {"stat", "etag", "match"} => at' = <<>> /\ held' = <<>>
    BY <1>1, <1>6 DEF IOInv, Position
  <2>3. ASSUME pc' = "walk" PROVE at' \in Above(Target)'
    <3>1. at' = <<>> /\ Target' = Target /\ Target \in Document
      BY <1>1, <1>2, <1>6, <2>3, AtWork DEF IOInv, Position, Target
    <3>2. <<>> \in Above(Target)
      BY <3>1, RootAbove
    <3> QED
      BY <3>1, <3>2
  <2> QED
    BY <2>1, <2>2, <2>3 DEF Position, Walking
<1>10. HeldNode'
  <2>1. pc' \notin {"mkdirat", "openat", "write"}
    BY <1>6
  <2>2. ASSUME pc' = "walk"
        PROVE  /\ fs[held]' = Dir
               /\ (\A i \in Len(at)..(Len(Target) - 1) : Way(held, i) \in dirs)'
    <3>1. at = <<>> /\ held = <<>> /\ fs[<<>>] = Dir /\ Len(<<>>) = 0
      BY <1>6, <2>2 DEF IOInv, Position
    <3>2. Target \in Seq(STRING) /\ Len(Target) \in Nat
          /\ \A j \in 1..Len(Target) : Target[j] \in STRING
      BY <1>3, PathAssumption, LenProperties, ElementOfSeq
    <3>3. ASSUME NEW i \in 0..(Len(Target) - 1)
          PROVE  <<>> \o SubSeq(Target, 0 + 1, i) \in dirs
      <4>1. SubSeq(Target, 1, i) \in Seq(STRING)
        BY <3>2, SubSeqProperties
      <4>2. <<>> \o SubSeq(Target, 1, i) = SubSeq(Target, 1, i)
        BY <4>1, ConcatEmptySeq
      <4>3. SubSeq(Target, 1, i) \in Above(Target)
        BY DEF Above
      <4> QED
        BY <1>2, <4>2, <4>3 DEF IOInv, Places
    <3>4. \A i \in Len(at)..(Len(Target) - 1) : Way(held, i) \in dirs
      BY <3>1, <3>3 DEF Way
    <3> QED
      BY <1>1, <3>1, <3>4 DEF Way, Target, user
  <2> QED
    BY <2>1, <2>2 DEF HeldNode, Walking
<1> QED
  BY <1>1, <1>2, <1>7, <1>8, <1>9, <1>10, SameFiles, SamePlaces DEF IOInv

\* The walk down to the parent of the target.
LEMMA WalkStep ==
    IOInv /\ (Walk \/ Openat) /\ UNCHANGED user => IOInv'
<1> SUFFICES ASSUME IOInv, Walk \/ Openat, UNCHANGED user
             PROVE  IOInv'
  OBVIOUS
<1>1. UNCHANGED <<fs, before, req, seen>> /\ pc \in Walking /\ pc \notin {"idle", "down"}
  BY DEF Walk, Openat, Walking
<1>2. /\ Target \in Document /\ req \in Request /\ req.method = "PUT"
      /\ at \in Above(Target) /\ Target' = Target
  BY <1>1, AtWork DEF IOInv, Methods, Position, Walking, Putting, Target
<1>3. /\ Below \in Document
      /\ Below = Target \/ Below \in Above(Target)
      /\ Len(Below) = Len(at) + 1
  BY <1>1, AtBelow
<1>4. seen' \in Node \cup {Nil}
  BY <1>1 DEF IOInv, TypeOK
<1>5. CASE pc' \in {"open", "idle"} /\ UNCHANGED <<at, held>>
  <2>1. TypeOK' /\ Methods' /\ Position' /\ HeldNode'
    BY <1>1, <1>2, <1>5 DEF IOInv, TypeOK, Methods, Position, HeldNode, Putting, Deleting,
                            Walking, user
  <2> QED
    BY <1>1, <2>1, SameFiles, SamePlaces DEF IOInv
<1>6. CASE pc = "walk" /\ pc' \in {"mkdirat", "openat"} /\ UNCHANGED <<at, held>> /\ Below # Target
  <2>1. TypeOK' /\ Methods'
    BY <1>1, <1>2, <1>6 DEF IOInv, TypeOK, Methods, Putting, Deleting, Walking, user
  <2>2. Position'
    BY <1>1, <1>2, <1>6 DEF Position, Below, Walking
  <2>3. HeldNode'
    BY <1>1, <1>2, <1>6 DEF IOInv, HeldNode, Walking, Way, user
  <2> QED
    BY <1>1, <2>1, <2>2, <2>3, SameFiles, SamePlaces DEF IOInv
<1>7. CASE pc = "openat" /\ pc' = "walk" /\ held # Nil /\ fs[Entry] = Dir
           /\ at' = Below /\ held' = Entry
  <2>1. /\ Entry \in Document /\ Below # Target /\ Below \in Path
        /\ \A i \in (Len(at) + 1)..(Len(Target) - 1) :
             Entry \o SubSeq(Target, Len(at) + 2, i) \in dirs
    BY <1>3, <1>7, AtEntry DEF IOInv, Position, Document
  <2>2. TypeOK' /\ Methods'
    BY <1>1, <1>2, <1>7, <2>1 DEF IOInv, TypeOK, Methods, Putting, Deleting, Walking, user, Document
  <2>3. Position'
    BY <1>2, <1>3, <1>7, <2>1 DEF Position, Walking
  <2>4. HeldNode'
    <3>1. Len(at) \in Nat /\ Len(Below) + 1 = Len(at) + 2
      BY <1>1, <1>3, AtBelow
    <3>2. (\A i \in Len(at)..(Len(Target) - 1) : Way(held, i) \in dirs)'
      BY <1>2, <1>3, <1>7, <2>1, <3>1 DEF Way, user
    <3> QED
      BY <1>1, <1>7, <3>2 DEF HeldNode, Walking
  <2> QED
    BY <1>1, <2>2, <2>3, <2>4, SameFiles, SamePlaces DEF IOInv
<1> QED
  <2>1. Found = Dir => held # Nil /\ fs[Entry] = Dir
    BY NodeAssumption DEF Found
  <2>2. pc = "openat" => Below # Target
    BY DEF IOInv, Position
  <2> QED
    BY <1>5, <1>6, <1>7, <2>1, <2>2 DEF Walk, Openat, Goto, Fail, Reply

LEMMA MkdiratStep ==
    IOInv /\ Mkdirat /\ UNCHANGED user => IOInv'
<1> SUFFICES ASSUME IOInv, Mkdirat, UNCHANGED user
             PROVE  IOInv'
  OBVIOUS
<1>1. /\ UNCHANGED <<before, req, at, held, seen>>
      /\ pc = "mkdirat" /\ pc \in Walking
  BY DEF Mkdirat, Walking
<1>2. /\ Target \in Document /\ req \in Request /\ req.method = "PUT"
      /\ at \in Above(Target) /\ Below # Target /\ at \in Path
      /\ req.body \in Content
  BY <1>1, AtWork DEF IOInv, Methods, Position, Walking, Putting, TypeOK
<1>3. Target' = Target /\ Below' = Below
  BY <1>1 DEF Target, Below
<1>4. fs \in Tree /\ before \in Tree /\ Closed(fs)
  BY DEF IOInv, TypeOK, TreeClosed
<1>5. CASE held # Nil /\ fs[Entry] = Absent /\ fs' = [fs EXCEPT ![Entry] = Dir] /\ pc' = "openat"
  <2>1. Entry \in Document /\ Entry \in Path /\ Entry \in dirs /\ Parent(Entry) = held /\ Entry # held
    BY <1>1, <1>5, AtEntry DEF Document
  <2>2. fs[held] = Dir /\ held \in Path
    BY <1>1, <1>5 DEF IOInv, HeldNode, TypeOK
  <2>3. fs' \in Tree /\ Closed(fs')
    BY <1>4, <1>5, <2>1, <2>2, MakeClosed, NodeAssumption DEF Node
  <2>4. fs' = [p \in Path |-> IF p = Entry THEN Dir ELSE fs[p]]
    BY <1>4, <1>5 DEF Tree
  <2>5. TypeOK'
    BY <1>1, <1>5, <2>3 DEF IOInv, TypeOK, user
  <2>6. Methods' /\ Position'
    BY <1>1, <1>2, <1>3, <1>5 DEF Methods, Position, Putting, Deleting, Walking
  <2>7. HeldNode'
    <3>1. fs'[held] = Dir
      BY <2>2, <2>4
    <3>2. \A i \in Len(at)..(Len(Target) - 1) : Way(held, i) \in dirs
      BY <1>1, <1>5 DEF IOInv, HeldNode
    <3> QED
      BY <1>1, <1>3, <1>5, <3>1, <3>2 DEF HeldNode, Walking, Way, user
  <2>8. Damage'
    <3>1. before[Entry] \in {Absent, Dir} \/ before[Entry] = fs[Entry]
      BY <1>2, <1>5, <2>1, NodeAssumption, StorageIOAssumption DEF IOInv, Damage
    <3> QED
      BY <1>1, <1>5, <2>4, <3>1 DEF IOInv, Damage, user
  <2>9. Confined'
    <3>1. before[Entry] \in {Absent, Dir} \/ Entry \in files
      BY <1>5, <2>1 DEF IOInv, Confined
    <3> QED
      BY <1>1, <1>5, <2>1, <2>4, <3>1 DEF IOInv, Confined, user
  <2> QED
    BY <1>1, <2>3, <2>5, <2>6, <2>7, <2>8, <2>9, SamePlaces DEF IOInv, TreeClosed
<1>6. CASE pc' = "idle" /\ fs' = fs
  <2>1. seen' \in Node \cup {Nil}
    BY <1>1 DEF IOInv, TypeOK
  <2> QED
    BY <1>1, <1>6, <2>1, AnswerStep
<1> QED
  BY <1>5, <1>6 DEF Mkdirat, Found, Goto, Fail, Reply

LEMMA OpenStep ==
    IOInv /\ Open /\ UNCHANGED user => IOInv'
<1> SUFFICES ASSUME IOInv, Open, UNCHANGED user
             PROVE  IOInv'
  OBVIOUS
<1>1. UNCHANGED <<before, req, at, seen>> /\ pc = "open"
  BY DEF Open
<1>2. /\ Target \in Document /\ req \in Request /\ req.method = "PUT"
      /\ Target \in Path /\ Target' = Target /\ Target \in files
  BY <1>1, AtWork DEF IOInv, Methods, Putting, Target, Places
<1>3. fs \in Tree /\ before \in Tree /\ Closed(fs)
  BY DEF IOInv, TypeOK, TreeClosed
<1>4. CASE /\ fs[Parent(Target)] = Dir /\ fs[Target] # Dir
           /\ fs' = [fs EXCEPT ![Target] = Empty]
           /\ held' = Target /\ pc' = "write"
  <2>1. fs' \in Tree /\ Closed(fs')
    BY <1>2, <1>3, <1>4, MakeClosed, NodeAssumption DEF Node
  <2>2. fs' = [p \in Path |-> IF p = Target THEN Empty ELSE fs[p]]
    BY <1>3, <1>4 DEF Tree
  <2>3. TypeOK'
    BY <1>1, <1>2, <1>4, <2>1 DEF IOInv, TypeOK, user
  <2>4. Methods' /\ Position'
    BY <1>1, <1>2, <1>4 DEF Methods, Position, Putting, Deleting, Walking
  <2>5. HeldNode'
    BY <1>2, <1>4, <2>2, NodeAssumption DEF HeldNode, Walking, user
  <2>6. Confined'
    BY <1>1, <1>2, <2>2 DEF IOInv, Confined, user
  <2>7. Damage'
    BY <1>1, <1>2, <2>2 DEF IOInv, Damage, user
  <2> QED
    BY <1>1, <2>1, <2>3, <2>4, <2>5, <2>6, <2>7, SamePlaces DEF IOInv, TreeClosed
<1>5. CASE pc' = "idle" /\ fs' = fs /\ held' = held
  <2>1. seen' \in Node \cup {Nil}
    BY <1>1 DEF IOInv, TypeOK
  <2> QED
    BY <1>1, <1>5, <2>1, AnswerStep
<1> QED
  BY <1>4, <1>5 DEF Open, Goto, Fail, Reply

LEMMA WriteStep ==
    IOInv /\ Write /\ UNCHANGED user => IOInv'
<1> SUFFICES ASSUME IOInv, Write, UNCHANGED user
             PROVE  IOInv'
  OBVIOUS
<1>1. /\ UNCHANGED <<before, req, at, held, seen>>
      /\ pc = "write" /\ pc' = "stat2"
  BY DEF Write, Goto
<1>2. /\ Target \in Document /\ req \in Request /\ req.method = "PUT"
      /\ Target \in Path /\ Target' = Target /\ req.body \in Content
  BY <1>1, AtWork DEF IOInv, Methods, Putting, Target, TypeOK
<1>3. fs \in Tree /\ before \in Tree /\ Closed(fs)
  BY DEF IOInv, TypeOK, TreeClosed
<1>4. PICK c \in {req.body} \cup Partial[req.body] :
         fs' = IF held # Nil THEN [fs EXCEPT ![held] = c] ELSE fs
  BY DEF Write
<1>5. c \in Content
  BY <1>2, StorageIOAssumption
<1>6. Methods' /\ Position' /\ HeldNode'
  BY <1>1, <1>2 DEF Methods, Position, HeldNode, Putting, Deleting, Walking
<1>7. CASE held # Nil
  <2>1. fs[held] \in Content /\ held \in Path /\ held \in files
    BY <1>1, <1>7 DEF IOInv, HeldNode, TypeOK
  <2>2. CASE held = <<>>
    <3>1. fs' = [p \in Path |-> IF p = held THEN c ELSE fs[p]]
      BY <1>3, <1>4, <1>7 DEF Tree
    <3>2. fs' \in Tree
      BY <1>3, <1>5, <3>1 DEF Tree, Node
    <3>3. Closed(fs')
      <4> SUFFICES ASSUME NEW r \in Path, fs'[r] # Absent, NEW q \in Above(r)
                   PROVE  fs'[q] = Dir
        BY DEF Closed
      <4>1. CASE r = <<>>
        BY <4>1 DEF Above
      <4>2. CASE r # <<>>
        <5>1. fs[r] # Absent
          BY <2>2, <3>1, <4>2
        <5>2. <<>> \in Above(r)
          BY <4>2, RootAbove DEF Document
        <5> QED
          BY <1>3, <2>1, <2>2, <5>1, <5>2, NodeAssumption DEF Closed
      <4> QED
        BY <4>1, <4>2
    <3> QED
      BY <1>1, <1>2, <1>3, <1>4, <1>6, <1>7, <2>1, <3>1, <3>2, <3>3, SamePlaces
         DEF IOInv, TreeClosed, TypeOK, Confined, Damage, user
  <2>3. CASE held # <<>>
    <3>1. held \in Document
      BY <2>1, <2>3 DEF Document
    <3>2. fs[Parent(held)] = Dir
      BY <1>3, <2>1, <3>1, ParentAbove, NodeAssumption DEF Closed
    <3>3. fs' \in Tree /\ Closed(fs')
      BY <1>3, <1>4, <1>5, <1>7, <2>1, <3>1, <3>2, MakeClosed, NodeAssumption DEF Node
    <3>4. fs' = [p \in Path |-> IF p = held THEN c ELSE fs[p]]
      BY <1>3, <1>4, <1>7 DEF Tree
    <3>5. TypeOK'
      BY <1>1, <3>3 DEF IOInv, TypeOK, user
    <3>6. Confined'
      BY <1>1, <2>1, <3>4 DEF IOInv, Confined, user
    <3>7. Damage'
      BY <1>1, <1>2, <2>1, <3>4 DEF IOInv, Damage, user
    <3> QED
      BY <1>1, <1>6, <3>3, <3>5, <3>6, <3>7, SamePlaces DEF IOInv, TreeClosed
  <2> QED
    BY <2>2, <2>3
<1>8. CASE held = Nil
  <2>1. fs' = fs
    BY <1>4, <1>8
  <2>2. TypeOK'
    BY <1>1, <2>1 DEF IOInv, TypeOK, user
  <2> QED
    BY <1>1, <1>6, <2>1, <2>2, SameFiles, SamePlaces DEF IOInv
<1> QED
  BY <1>7, <1>8

LEMMA UnlinkStep ==
    IOInv /\ Unlink /\ UNCHANGED user => IOInv'
<1> SUFFICES ASSUME IOInv, Unlink, UNCHANGED user
             PROVE  IOInv'
  OBVIOUS
<1>1. UNCHANGED <<before, req, held, seen>> /\ pc = "unlink"
  BY DEF Unlink
<1>2. /\ Target \in Document /\ req \in Request /\ req.method = "DELETE"
      /\ Target \in Path /\ Target' = Target /\ Target \in files
  BY <1>1, AtWork DEF IOInv, Methods, Deleting, Target, Places
<1>3. fs \in Tree /\ before \in Tree /\ Closed(fs)
  BY DEF IOInv, TypeOK, TreeClosed
<1>4. CASE /\ fs[Target] \in Content
           /\ fs' = [fs EXCEPT ![Target] = Absent]
           /\ \/ at' = Parent(Target) /\ pc' = "prune"
              \/ at' = at /\ pc' = "idle"
  <2>1. fs' \in Tree /\ Closed(fs')
    BY <1>2, <1>3, <1>4, RemoveClosed
  <2>2. fs' = [p \in Path |-> IF p = Target THEN Absent ELSE fs[p]]
    BY <1>3, <1>4 DEF Tree
  <2>3. Parent(Target) \in Above(Target) /\ Parent(Target) \in Path
    BY <1>2, ParentAbove
  <2>4. TypeOK'
    BY <1>1, <1>4, <2>1, <2>3 DEF IOInv, TypeOK, user
  <2>5. Methods' /\ Position' /\ HeldNode'
    BY <1>1, <1>2, <1>4, <2>3 DEF Methods, Position, HeldNode, Putting, Deleting, Walking
  <2>6. Confined'
    BY <1>1, <1>2, <2>2 DEF IOInv, Confined, user
  <2>7. Damage'
    BY <1>1, <1>2, <2>2 DEF IOInv, Damage, user
  <2> QED
    BY <1>1, <2>1, <2>4, <2>5, <2>6, <2>7, SamePlaces DEF IOInv, TreeClosed
<1>5. CASE pc' = "idle" /\ fs' = fs /\ at' = at
  <2>1. seen' \in Node \cup {Nil}
    BY <1>1 DEF IOInv, TypeOK
  <2> QED
    BY <1>1, <1>5, <2>1, AnswerStep
<1> QED
  BY <1>4, <1>5 DEF Unlink, Goto, Fail, Reply

LEMMA PruneStep ==
    IOInv /\ Prune /\ UNCHANGED user => IOInv'
<1> SUFFICES ASSUME IOInv, Prune, UNCHANGED user
             PROVE  IOInv'
  OBVIOUS
<1>1. UNCHANGED <<before, req, held, seen>> /\ pc = "prune"
  BY DEF Prune
<1>2. /\ Target \in Document /\ req \in Request /\ req.method = "DELETE"
      /\ Target' = Target /\ at \in Above(Target) /\ at \in Path /\ at \in dirs
  BY <1>1, AtWork DEF IOInv, Methods, Position, Places, Deleting, Target
<1>3. fs \in Tree /\ before \in Tree /\ Closed(fs)
  BY DEF IOInv, TypeOK, TreeClosed
<1>4. CASE /\ at # <<>> /\ EmptyDir(fs, at)
           /\ fs' = [fs EXCEPT ![at] = Absent]
           /\ at' = Parent(at) /\ pc' = "prune"
  <2>1. at \in Document
    BY <1>2, <1>4 DEF Document
  <2>2. fs' \in Tree /\ Closed(fs')
    BY <1>3, <1>4, <2>1, RemoveClosed
  <2>3. fs' = [p \in Path |-> IF p = at THEN Absent ELSE fs[p]]
    BY <1>3, <1>4 DEF Tree
  <2>4. at' \in Above(Target) /\ at' \in Path
    <3>1. Parent(at) \in Above(at) /\ Parent(at) \in Path
      BY <2>1, ParentAbove
    <3>2. Parent(at) \in Above(Target)
      BY <1>2, <3>1, AboveTransitive DEF Document
    <3> QED
      BY <1>4, <3>1, <3>2
  <2>5. TypeOK'
    BY <1>1, <1>4, <2>2, <2>4 DEF IOInv, TypeOK, user
  <2>6. Methods' /\ Position' /\ HeldNode'
    BY <1>1, <1>2, <1>4, <2>4 DEF Methods, Position, HeldNode, Putting, Deleting, Walking
  <2>7. fs[at] = Dir
    BY <1>4 DEF EmptyDir
  <2>8. Confined'
    <3>1. at \in files \/ before[at] \in {Absent, Dir}
      BY <1>2, <2>7 DEF IOInv, Confined
    <3> QED
      BY <1>1, <1>2, <2>3, <3>1 DEF IOInv, Confined, user
  <2>9. Damage'
    <3>1. before[at] \in {Absent, Dir}
      BY <1>2, <2>7, NodeAssumption DEF IOInv, Damage
    <3> QED
      BY <1>1, <1>2, <2>3, <3>1 DEF IOInv, Damage, user
  <2> QED
    BY <1>1, <2>2, <2>5, <2>6, <2>8, <2>9, SamePlaces DEF IOInv, TreeClosed
<1>5. CASE pc' = "idle" /\ fs' = fs /\ at' = at
  <2>1. seen' \in Node \cup {Nil}
    BY <1>1 DEF IOInv, TypeOK
  <2> QED
    BY <1>1, <1>5, <2>1, AnswerStep
<1> QED
  BY <1>4, <1>5 DEF Prune, Goto, Fail, Reply

-----------------------------------------------------------------------------
\* The process dies and is started again.
LEMMA ProcessStep ==
    IOInv /\ (Crash \/ Restart) /\ UNCHANGED user => IOInv'
<1> SUFFICES ASSUME IOInv, Crash \/ Restart, UNCHANGED user
             PROVE  IOInv'
  OBVIOUS
<1>1. UNCHANGED <<fs, before, req, at, held, seen>> /\ pc' \in {"idle", "down"}
  BY DEF Crash, Restart
<1>2. TypeOK' /\ Methods' /\ Position' /\ Places' /\ HeldNode'
  BY <1>1 DEF IOInv, TypeOK, Methods, Position, Places, HeldNode, Putting, Deleting, Walking, user
<1> QED
  BY <1>1, <1>2, SameFiles DEF IOInv

\* A request comes in.
LEMMA ReceiveStep ==
    /\ IOInv /\ Receive
    /\ edits' = 0 /\ files' = {Target}' /\ dirs' = Above(Target)'
    => IOInv'
<1> SUFFICES ASSUME IOInv, Receive, edits' = 0, files' = {Target}', dirs' = Above(Target)'
             PROVE  IOInv'
  OBVIOUS
<1>1. PICK p \in Document, method \in {"GET", "PUT", "DELETE"}, body \in Content \cup {Nil},
           im \in Content \cup {Nil} :
        /\ Take(method, p, body, im)
        /\ method = "PUT" => body \in Content
        /\ method = "GET" => im = Nil
  BY DEF Receive
<1>2. /\ req' \in Request
      /\ req'.method = "PUT" => req'.body \in Content
      /\ req'.method = "GET" => req'.ifMatch = Nil
      /\ req'.path = p
  BY <1>1 DEF Take, Request
<1>3. /\ UNCHANGED fs /\ before' = fs /\ pc' = "stat"
      /\ at' = <<>> /\ held' = <<>> /\ seen' = Nil
  BY <1>1 DEF Take
<1>4. /\ Target' = p /\ p \in Path
      /\ files' \subseteq Path /\ dirs' \subseteq Path
  BY <1>2, AboveType DEF Target, Document
<1>5. TypeOK'
  BY <1>2, <1>3, <1>4, PathAssumption, StorageIOAssumption DEF IOInv, TypeOK, Request
<1>6. Methods' /\ Position' /\ HeldNode'
  BY <1>2, <1>3 DEF Methods, Position, HeldNode, Putting, Deleting, Walking
<1>7. TreeClosed' /\ Confined' /\ Damage'
  BY <1>3 DEF IOInv, TreeClosed, Closed, Confined, Damage
<1>8. Places'
  BY DEF Places
<1> QED
  BY <1>5, <1>6, <1>7, <1>8 DEF IOInv

\* An edit of the user, in the middle of a request or not.
LEMMA EditStep ==
    ASSUME IOInv, edits < MaxEdits, edits' = edits + 1,
           NEW p \in Document, NEW n \in Node, NEW replaced \in BOOLEAN,
           Edit(p, n, replaced),
           \/ fs[Parent(p)] = Dir /\ fs[p] # Dir /\ n \in Content
           \/ fs[p] = Absent /\ fs[Parent(p)] = Dir /\ n = Dir
           \/ (fs[p] \in Content \/ EmptyDir(fs, p)) /\ n = Absent /\ replaced
    PROVE  IOInv'
<1>1. /\ UNCHANGED <<pc, req, at, seen, files, dirs>>
      /\ fs' = [fs EXCEPT ![p] = n] /\ before' = [before EXCEPT ![p] = n]
      /\ held' = IF Holding /\ replaced /\ p = held THEN Nil ELSE held
  BY DEF Edit
<1>2. fs \in Tree /\ before \in Tree /\ Closed(fs) /\ p \in Path
  BY DEF IOInv, TypeOK, TreeClosed, Document
<1>3. fs' \in Tree /\ Closed(fs')
  BY <1>1, <1>2, MakeClosed, RemoveClosed, NodeAssumption
<1>4. /\ fs' = [q \in Path |-> IF q = p THEN n ELSE fs[q]]
      /\ before' = [q \in Path |-> IF q = p THEN n ELSE before[q]]
  BY <1>1, <1>2 DEF Tree
<1>5. before' \in Tree
  BY <1>2, <1>4 DEF Tree
<1>6. Target' = Target /\ Below' = Below
  BY <1>1 DEF Target, Below
<1>7. TypeOK'
  <2>1. held' \in Path \cup {Nil}
    BY <1>1 DEF IOInv, TypeOK
  <2>2. edits' \in 0..MaxEdits
    BY StorageIOAssumption DEF IOInv, TypeOK
  <2> QED
    BY <1>1, <1>3, <1>5, <2>1, <2>2 DEF IOInv, TypeOK
<1>8. Methods' /\ Position' /\ Places'
  BY <1>1, <1>6 DEF IOInv, Methods, Position, Places, Holding, Walking
<1>9. HeldNode'
  <2> SUFFICES ASSUME held' # Nil
               PROVE  /\ pc \in Walking =>
                           fs'[held'] = Dir
                           /\ \A i \in Len(at)..(Len(Target) - 1) : Way(held', i) \in dirs
                      /\ pc = "write" => fs'[held'] \in Content /\ held' \in files
    BY <1>1, <1>6 DEF HeldNode, Way
  <2>1. held' = held /\ held \in Path
    BY <1>1 DEF IOInv, TypeOK
  <2>2. ASSUME pc \in Walking
        PROVE  fs'[held] = Dir
    <3>1. fs[held] = Dir /\ ~(replaced /\ p = held)
      BY <1>1, <2>1, <2>2 DEF Holding, Walking, IOInv, HeldNode
    <3>2. p # held
      BY <3>1, NodeAssumption
    <3> QED
      BY <1>4, <2>1, <3>1, <3>2
  <2>3. ASSUME pc = "write"
        PROVE  fs'[held] \in Content
    <3>1. fs[held] \in Content /\ ~(replaced /\ p = held)
      BY <1>1, <2>1, <2>3 DEF Holding, IOInv, HeldNode
    <3>2. CASE p = held
      BY <1>4, <2>1, <3>1, <3>2, NodeAssumption
    <3>3. CASE p # held
      BY <1>4, <2>1, <3>1, <3>3
    <3> QED
      BY <3>2, <3>3
  <2> QED
    BY <2>1, <2>2, <2>3 DEF IOInv, HeldNode
<1>10. Confined'
  BY <1>1, <1>4 DEF IOInv, Confined
<1>11. Damage'
  BY <1>1, <1>4 DEF IOInv, Damage
<1> QED
  BY <1>3, <1>7, <1>8, <1>9, <1>10, <1>11 DEF IOInv, TreeClosed

\* The user moves a file or a directory, maybe the one the handler is in.
LEMMA RenameStep ==
    ASSUME IOInv, edits < MaxEdits, edits' = edits + 1,
           NEW p \in Document, NEW q \in Document, OobRename(p, q)
    PROVE  IOInv'
<1>1. /\ UNCHANGED <<pc, req, at, seen>>
      /\ fs' = Moved(fs, p, q) /\ before' = Moved(before, p, q)
      /\ files' = WithMoved(files, p, q) /\ dirs' = WithMoved(dirs, p, q)
  BY DEF OobRename
<1>2. /\ fs[p] # Absent /\ fs[Parent(q)] = Dir /\ ~Under(p, q) /\ fs[q] # Dir
      /\ \A r \in Path : Under(p, r) /\ fs[r] # Absent => Onto(p, q, r) \in Path
  BY NodeAssumption DEF OobRename
<1>3. /\ fs \in Tree /\ before \in Tree /\ Closed(fs)
      /\ p \in Path /\ q \in Path \ {<<>>} /\ Parent(q) \in Path
  BY ParentAbove DEF IOInv, TypeOK, TreeClosed, Document
<1>4. p \in Seq(STRING) /\ q \in Seq(STRING)
  BY <1>3, PathAssumption
<1>5. fs' \in Tree /\ Closed(fs')
  BY <1>1, <1>2, <1>3, MovedClosed
<1>6. before' \in Tree
  BY <1>1, <1>3 DEF Moved, Tree, Node
<1>7. Target' = Target /\ Below' = Below
  BY <1>1 DEF Target, Below
<1>8. files \subseteq files' /\ dirs \subseteq dirs' /\ files' \subseteq Path /\ dirs' \subseteq Path
  BY <1>1 DEF WithMoved, IOInv, TypeOK
<1>9. \A r \in Path : Under(q, r) /\ Onto(q, p, r) \in Path =>
         /\ fs'[r] = fs[Onto(q, p, r)] /\ before'[r] = before[Onto(q, p, r)]
         /\ Onto(q, p, r) \in files => r \in files'
         /\ Onto(q, p, r) \in dirs => r \in dirs'
  BY <1>1 DEF Moved, WithMoved
<1>10. \A r \in Path : ~(Under(q, r) /\ Onto(q, p, r) \in Path) =>
         \/ fs'[r] = before'[r]
         \/ fs'[r] = fs[r] /\ before'[r] = before[r]
  BY <1>1 DEF Moved
\* The descriptor's node is moved, or stays where it is.
<1>11. ASSUME pc \in Walking \cup {"write"}, held # Nil, Under(p, held)
       PROVE  /\ held' = Onto(p, q, held) /\ held' \in Path
              /\ Under(q, held') /\ Onto(q, p, held') = held
              /\ held \in Path /\ held \in Seq(STRING)
  <2>1. held \in Path /\ held \in Seq(STRING) /\ fs[held] # Absent
    BY <1>11, PathAssumption, NodeAssumption DEF IOInv, TypeOK, HeldNode
  <2>2. held' = Onto(p, q, held)
    BY <1>11 DEF OobRename, Holding, Walking
  <2> QED
    BY <1>2, <1>4, <1>11, <2>1, <2>2, OntoGoesBack
<1>12. ASSUME pc \in Walking \cup {"write"}, held # Nil, ~Under(p, held), held' # Nil
       PROVE  held' = held /\ held \in Path /\ fs'[held] = fs[held]
  <2>1. held \in Path /\ fs[held] # Absent
    BY <1>12, NodeAssumption DEF IOInv, TypeOK, HeldNode
  <2>2. held' = held /\ held # q
    BY <1>12 DEF OobRename, Holding, Walking
  <2>3. ~Under(q, held)
    BY <1>2, <1>3, <2>1, <2>2 DEF Under, Closed
  <2> QED
    BY <1>1, <1>12, <2>1, <2>2, <2>3 DEF Moved
<1>13. held' = Nil \/ held' \in Path
  <2>1. CASE held' = held
    BY <2>1 DEF IOInv, TypeOK
  <2>2. CASE held' # held /\ held' # Nil
    <3>1. pc \in Walking \cup {"write"} /\ held # Nil /\ Under(p, held)
      BY <2>2 DEF OobRename, Holding, Walking
    <3> QED
      BY <1>11, <3>1
  <2> QED
    BY <2>1, <2>2
<1>14. TypeOK'
  <2>1. edits' \in 0..MaxEdits
    BY StorageIOAssumption DEF IOInv, TypeOK
  <2> QED
    BY <1>1, <1>5, <1>6, <1>8, <1>13, <2>1 DEF IOInv, TypeOK
<1>15. Methods' /\ Places'
  BY <1>1, <1>7, <1>8 DEF IOInv, Methods, Places
<1>16. Position'
  <2>1. pc \in {"stat", "etag", "match"} => held' = held
    BY DEF OobRename, Holding
  <2> QED
    BY <1>1, <1>7, <2>1 DEF IOInv, Position, Walking
<1>17. HeldNode'
  <2> SUFFICES ASSUME held' # Nil
               PROVE  /\ pc \in Walking =>
                           fs'[held'] = Dir
                           /\ \A i \in Len(at)..(Len(Target) - 1) : Way(held', i) \in dirs'
                      /\ pc = "write" => fs'[held'] \in Content /\ held' \in files'
    BY <1>1, <1>7 DEF HeldNode, Way
  <2>1. ASSUME pc \in Walking, held # Nil, Under(p, held)
        PROVE  /\ fs'[held'] = Dir
               /\ \A i \in Len(at)..(Len(Target) - 1) : Way(held', i) \in dirs'
    <3>1. fs[held] = Dir /\ \A i \in Len(at)..(Len(Target) - 1) : Way(held, i) \in dirs
      BY <2>1 DEF IOInv, HeldNode
    <3>2. fs'[held'] = Dir
      BY <1>9, <1>11, <2>1, <3>1
    <3>3. ASSUME NEW i \in Len(at)..(Len(Target) - 1)
          PROVE  Way(held', i) \in dirs'
      <4>1. /\ Target \in Seq(STRING) /\ Len(Target) \in Nat /\ Len(at) \in Nat
            /\ \A j \in 1..Len(Target) : Target[j] \in STRING
        <5>1. Target \in Seq(STRING)
          BY <2>1, AtWork, PathAssumption DEF Walking
        <5> QED
          BY <2>1, <5>1, AtBelow, LenProperties, ElementOfSeq
      <4>2. PICK w \in Seq(STRING) : w = SubSeq(Target, Len(at) + 1, i)
        <5>1. Len(at) + 1 \in Int /\ i \in Int /\ \A j \in (Len(at) + 1)..i : Target[j] \in STRING
          BY <4>1
        <5>2. SubSeq(Target, Len(at) + 1, i) \in Seq(STRING)
          BY <5>1, SubSeqProperties
        <5> QED
          BY <5>2
      <4>3. /\ Under(q, Further(held', w))
            /\ Onto(q, p, Further(held', w)) = Further(held, w)
        BY <1>4, <1>11, <2>1, OntoGoesOn
      <4>4. Further(held, w) = Way(held, i) /\ Further(held', w) = Way(held', i)
        BY <4>2 DEF Further, Way
      <4>5. Way(held, i) \in dirs /\ Way(held, i) \in Path
        BY <3>1 DEF IOInv, TypeOK
      <4>6. Way(held', i) \in Path
        BY <1>11, <2>1 DEF OobRename, RoomToWalk, Walking, Way
      <4> QED
        BY <1>9, <4>3, <4>4, <4>5, <4>6
    <3> QED
      BY <3>2, <3>3
  <2>2. ASSUME pc \in Walking, held # Nil, ~Under(p, held)
        PROVE  /\ fs'[held'] = Dir
               /\ \A i \in Len(at)..(Len(Target) - 1) : Way(held', i) \in dirs'
    BY <1>8, <1>12, <2>2 DEF IOInv, HeldNode
  <2>3. ASSUME pc = "write", held # Nil
        PROVE  fs'[held'] \in Content /\ held' \in files'
    <3>1. fs[held] \in Content /\ held \in files
      BY <2>3 DEF IOInv, HeldNode
    <3>2. CASE Under(p, held)
      BY <1>9, <1>11, <2>3, <3>1, <3>2
    <3>3. CASE ~Under(p, held)
      BY <1>8, <1>12, <2>3, <3>1, <3>3
    <3> QED
      BY <3>2, <3>3
  <2>4. held # Nil
    BY DEF OobRename
  <2> QED
    BY <2>1, <2>2, <2>3, <2>4
<1>18. Confined'
  <2> SUFFICES ASSUME NEW r \in Path
               PROVE  \/ fs'[r] = before'[r]
                      \/ r \in files'
                      \/ r \in dirs' /\ {fs'[r], before'[r]} \subseteq {Absent, Dir}
    BY DEF Confined
  <2>1. CASE Under(q, r) /\ Onto(q, p, r) \in Path
    BY <1>9, <2>1 DEF IOInv, Confined
  <2>2. CASE ~(Under(q, r) /\ Onto(q, p, r) \in Path)
    BY <1>8, <1>10, <2>2 DEF IOInv, Confined
  <2> QED
    BY <2>1, <2>2
<1>19. Damage'
  <2> SUFFICES ASSUME NEW r \in Path
               PROVE  \/ fs'[r] = before'[r]
                      \/ {fs'[r], before'[r]} \subseteq {Absent, Dir}
                      \/ /\ r \in files'
                         /\ \/ req.method = "DELETE" /\ fs'[r] = Absent
                            \/ req.method = "PUT" /\ fs'[r] \in {Empty, req.body} \cup Partial[req.body]
    BY <1>1 DEF Damage
  <2>1. CASE Under(q, r) /\ Onto(q, p, r) \in Path
    BY <1>9, <2>1 DEF IOInv, Damage
  <2>2. CASE ~(Under(q, r) /\ Onto(q, p, r) \in Path)
    BY <1>8, <1>10, <2>2 DEF IOInv, Damage
  <2> QED
    BY <2>1, <2>2
<1> QED
  BY <1>5, <1>14, <1>15, <1>16, <1>17, <1>18, <1>19 DEF IOInv, TreeClosed

\* Whatever the user does.
LEMMA UserStep ==
    IOInv /\ UserEdits /\ edits < MaxEdits /\ edits' = edits + 1 => IOInv'
<1> SUFFICES ASSUME IOInv, UserEdits, edits < MaxEdits, edits' = edits + 1
             PROVE  IOInv'
  OBVIOUS
<1>1. PICK p \in Document :
        \/ \E c \in Content, inPlace \in BOOLEAN : OobWrite(p, c, inPlace)
        \/ OobMkdir(p) \/ OobRemove(p)
        \/ \E q \in Document : OobRename(p, q)
  BY DEF UserEdits
<1>2. CASE \E c \in Content, inPlace \in BOOLEAN : OobWrite(p, c, inPlace)
  <2>1. PICK c \in Content, inPlace \in BOOLEAN : OobWrite(p, c, inPlace)
    BY <1>2
  <2>2. PICK replaced \in BOOLEAN : replaced = ~inPlace
    OBVIOUS
  <2>3. c \in Node
    BY DEF Node
  <2> QED
    BY <2>1, <2>2, <2>3, EditStep DEF OobWrite
<1>3. CASE OobMkdir(p)
  <2>1. Dir \in Node
    BY DEF Node
  <2> QED
    BY <1>3, <2>1, EditStep DEF OobMkdir
<1>4. CASE OobRemove(p)
  <2>1. Absent \in Node
    BY DEF Node
  <2> QED
    BY <1>4, <2>1, EditStep DEF OobRemove
<1>5. CASE \E q \in Document : OobRename(p, q)
  BY <1>5, RenameStep
<1> QED
  BY <1>1, <1>2, <1>3, <1>4, <1>5

-----------------------------------------------------------------------------
LEMMA IOInvSteps == IOInv /\ [Next]_vars => IOInv'
<1> SUFFICES ASSUME IOInv, [Next]_vars
             PROVE  IOInv'
  OBVIOUS
<1>1. CASE Serve /\ UNCHANGED user
  BY <1>1, LookStep, WalkStep, MkdiratStep, OpenStep, WriteStep, UnlinkStep, PruneStep
     DEF Serve
<1>2. CASE (Crash \/ Restart) /\ UNCHANGED user
  BY <1>2, ProcessStep
<1>3. CASE Receive /\ edits' = 0 /\ files' = {Target}' /\ dirs' = Above(Target)'
  BY <1>3, ReceiveStep
<1>4. CASE UserEdits /\ edits < MaxEdits /\ edits' = edits + 1
  BY <1>4, UserStep
<1>5. CASE UNCHANGED vars
  <2>1. UNCHANGED <<fs, before, pc, req, at, held, seen>> /\ UNCHANGED user
    BY <1>5 DEF vars, user
  <2>2. TypeOK' /\ Methods' /\ Position' /\ Places' /\ HeldNode'
    BY <2>1 DEF IOInv, TypeOK, Methods, Position, Places, HeldNode, Way, Target, Below, user
  <2> QED
    BY <2>1, <2>2, SameFiles DEF IOInv
<1> QED
  BY <1>1, <1>2, <1>3, <1>4, <1>5 DEF Next

\* The invariant holds in every state.
THEOREM IOInvHolds == Spec => []IOInv
<1>1. Init => IOInv
  BY InitIO
<1>2. IOInv /\ [Next]_vars => IOInv'
  BY IOInvSteps
<1> QED
  BY <1>1, <1>2, PTL DEF Spec

\* Every variable keeps its type, between any two calls.
THEOREM IOTypeCorrect == Spec => []TypeOK
<1>1. IOInv => TypeOK
  BY DEF IOInv
<1> QED
  BY <1>1, IOInvHolds, PTL

\* No request touches, in any of its calls, more than its target and the
\* directories above that, wherever the user edits and moves files between two
\* calls of the mkdirat() walk, the write or the pruning.
THEOREM RequestsAreConfined == Spec => []Confined
<1>1. IOInv => Confined
  BY DEF IOInv
<1> QED
  BY <1>1, IOInvHolds, PTL

\* A crash leaves at the target, or where the user has moved that, the old document,
\* none for a DELETE, or what a PUT may have written until then.
THEOREM CrashDamageIsBounded == Spec => []CrashDamage
<1>1. IOInv => CrashDamage
  BY DEF IOInv, Damage, CrashDamage
<1> QED
  BY <1>1, IOInvHolds, PTL

-----------------------------------------------------------------------------
(***************************************************************************)
(* Without edits in between, the disk at each call is a function of what   *)
(* it was when the request came and of how far the handler has got.        *)
(***************************************************************************)
\* The tree with p and the directories above it made.
Made(p) == [q \in Path |-> IF q = p \/ q \in Above(p) THEN Dir ELSE before[q]]

\* The tree without the target and without the directories between p and it.
Left(p) == [q \in Path |->
              IF q = Target \/ (q \in Above(Target) /\ q # p /\ q \notin Above(p))
              THEN Absent ELSE before[q]]

\* What a write of the body may leave in the file.
Written == {req.body} \cup (IF MayFail THEN Partial[req.body] ELSE {})

MatchedBefore == req.ifMatch \in {Nil, before[Target]}

Making ==
    /\ pc \in {"walk", "mkdirat"} => fs = Made(at)
    /\ pc = "mkdirat" => fs[Below] = Absent
    /\ pc = "openat" => fs = Made(Below)
    /\ pc = "open" => fs = Made(Parent(Target))
    /\ pc = "write" => fs = WithFile(before, Target, Empty)
    /\ pc \in {"stat2", "etag2"} => \E c \in Written : fs = WithFile(before, Target, c)

Pruning ==
    pc = "prune" =>
        /\ before[Target] \in Content
        /\ fs = Left(at)
        /\ \A q \in Above(Target) : q # at /\ q \notin Above(at) => q \in Prunable(before, Target)

\* The walk is where it says it is, and the file is the target.
InPlace ==
    /\ pc \in Walking => held = at
    /\ pc = "write" => held = Target

Exact ==
    edits = 0 =>
        /\ InPlace /\ Closed(before)
        /\ pc \in {"stat", "etag", "read", "match", "unlink"} => fs = before
        /\ pc \in {"etag", "read", "match", "unlink"} => seen = before[Target]
        /\ pc \in (Putting \cup Deleting) \ {"match"} => MatchedBefore
        /\ Making /\ Pruning

\* What a walk in its place looks at is the next parent of the target.
LEMMA EntryIsBelow ==
    ASSUME IOInv, pc \in Walking, held = at
    PROVE  Entry = Below /\ Found = fs[Below]
<1> DEFINE n == Len(at)
<1>1. /\ n \in 0..(Len(Target) - 1) /\ Len(Target) \in Nat /\ Len(Below) = n + 1
      /\ Target \in Seq(STRING) /\ at \in Seq(STRING) /\ Below \in Seq(STRING)
      /\ at \in Path /\ at \in Above(Target)
  BY AtBelow, AtWork, PathAssumption DEF IOInv, Position, Walking, Document
<1>2. \A j \in 1..Len(Target) : Target[j] \in STRING
  BY <1>1, ElementOfSeq
<1>3. \A j \in 1..(n + 1) : Below[j] = Target[j]
  BY <1>1, <1>2, SubSeqProperties DEF Below
<1>4. \A j \in 1..n : at[j] = Target[j]
  <2>1. PICK i \in 0..(Len(Target) - 1) : at = SubSeq(Target, 1, i)
    BY <1>1 DEF Above
  <2>2. Len(at) = i /\ \A j \in 1..i : at[j] = Target[j]
    BY <1>1, <1>2, <2>1, SubSeqProperties
  <2> QED
    BY <2>2
<1>5. /\ Entry \in Seq(STRING) /\ Len(Entry) = n + 1
      /\ \A j \in 1..n : Entry[j] = at[j]
      /\ Entry[n + 1] = Target[n + 1]
  BY <1>1, <1>2, AppendProperties DEF Entry
<1>6. ASSUME NEW j \in 1..Len(Entry) PROVE Entry[j] = Below[j]
  <2>1. j \in 1..n \/ j = n + 1
    BY <1>1, <1>5
  <2> QED
    BY <1>1, <1>3, <1>4, <1>5, <2>1
<1>7. Entry = Below
  BY <1>1, <1>5, <1>6, SeqEqual
<1>8. held # Nil
  BY <1>1, StorageIOAssumption
<1> QED
  BY <1>7, <1>8 DEF Found

\* What is above a path is its parent and what is above that.
LEMMA AboveIs ==
    ASSUME NEW p \in Document
    PROVE  Above(p) = {Parent(p)} \cup Above(Parent(p))
<1>1. Above(p) \subseteq {Parent(p)} \cup Above(Parent(p))
  BY AboveParent DEF Document
<1>2. {Parent(p)} \cup Above(Parent(p)) \subseteq Above(p)
  BY ParentAbove, AboveTransitive DEF Document
<1> QED
  BY <1>1, <1>2

\* Making the next parent.
LEMMA MadeNext ==
    ASSUME NEW p \in Document, before \in Tree
    PROVE  Made(p) = [Made(Parent(p)) EXCEPT ![p] = Dir]
<1>1. Above(p) = {Parent(p)} \cup Above(Parent(p))
  BY AboveIs
<1> QED
  BY <1>1 DEF Made, Document

\* Making the file.
LEMMA MadeFile ==
    ASSUME NEW p \in Document, before \in Tree, NEW c \in Content
    PROVE  /\ [Made(Parent(p)) EXCEPT ![p] = c] = WithFile(before, p, c)
           /\ \A d \in Content : [WithFile(before, p, d) EXCEPT ![p] = c] = WithFile(before, p, c)
<1>1. Above(p) = {Parent(p)} \cup Above(Parent(p))
  BY AboveIs
<1> QED
  BY <1>1 DEF Made, WithFile, Document

\* Where a document or a directory was, nothing had to be made above it.
LEMMA MadeNothing ==
    ASSUME NEW p \in Document, before \in Tree, Closed(before), before[p] # Absent
    PROVE  Made(Parent(p)) = before
<1>1. \A q \in Above(p) : before[q] = Dir
  BY DEF Closed, Document
<1>2. Above(p) = {Parent(p)} \cup Above(Parent(p))
  BY AboveIs
<1> QED
  BY <1>1, <1>2 DEF Made, Tree

(***************************************************************************)
(* The answers a request may get: it is refused and nothing has changed,   *)
(* the disk was full, a DELETE got no descriptor once it had removed its   *)
(* document, or the method has done what it is for.                        *)
(***************************************************************************)
Refused ==
    /\ fs' = before
    /\ out'.status \in {400, 404, 412, 500}
    /\ out'.status = 412 => ~MatchedBefore
DiskFull ==
    /\ MayFail /\ out'.status = 500
    /\ fs'[Target] = before[Target]
UnlinkedOnly ==
    /\ req.method = "DELETE" /\ MayFail /\ out'.status = 500 /\ MatchedBefore
    /\ fs' = [before EXCEPT ![Target] = Absent]
PutDone ==
    /\ req.method = "PUT" /\ out'.status \in {200, 201} /\ MatchedBefore
    /\ \E c \in Written : fs' = WithFile(before, Target, c)
DeleteDone ==
    /\ req.method = "DELETE" /\ out'.status = 200 /\ MatchedBefore
    /\ fs' = WithoutFile(before, Target)
GetDone ==
    /\ req.method = "GET" /\ out'.status = 200 /\ MatchedBefore
    /\ fs' = before /\ out'.version = before[Target] /\ out'.body = before[Target]

Answers == Refused \/ DiskFull \/ UnlinkedOnly \/ PutDone \/ DeleteDone \/ GetDone

\* Exact at a call, with edits = 0.
LEMMA ExactNow ==
    ASSUME Exact, edits = 0
    PROVE  /\ InPlace /\ Closed(before) /\ Making /\ Pruning
           /\ pc \in {"stat", "etag", "read", "match", "unlink"} => fs = before
           /\ pc \in {"etag", "read", "match", "unlink"} => seen = before[Target]
           /\ pc \in (Putting \cup Deleting) \ {"match"} => MatchedBefore
  BY DEF Exact

\* A call that ends the request leaves nothing to be exact about.
LEMMA ExactAtEnd ==
    ASSUME Exact, edits = 0, UNCHANGED <<before, req>>, pc' \in {"idle", "down", "spin"}
    PROVE  Exact'
<1>1. Closed(before)'
  BY ExactNow DEF Closed
<1> QED
  BY <1>1 DEF Exact, InPlace, Making, Pruning, Putting, Deleting, Walking

LEMMA GetExact ==
    ASSUME IOInv, Exact, edits = 0, Stat \/ GetEtag \/ Read, UNCHANGED user
    PROVE  Exact' /\ (pc' = "idle" => Answers)
<1>1. /\ UNCHANGED <<fs, before, req, at, held>>
      /\ pc \in {"stat", "etag", "read"}
      /\ pc = "read" => UNCHANGED seen
      /\ pc # "read" => seen' = fs[Target]
  BY DEF Stat, GetEtag, Read
<1>2. /\ Target \in Path /\ req \in Request /\ (req.method = "GET" => req.ifMatch = Nil)
      /\ Target' = Target
  BY <1>1, AtWork DEF IOInv, Methods, Target
<1>3. /\ Closed(before) /\ fs = before
      /\ pc \in {"etag", "read"} => seen = before[Target]
  BY <1>1, ExactNow
<1>4. \/ pc = "stat" /\ pc' \in {"match", "etag", "idle"}
      \/ pc = "etag" /\ pc' \in {"read", "idle"}
      \/ pc = "read" /\ pc' \in {"idle", "spin"}
  BY <1>1 DEF Stat, GetEtag, Read, Goto, Fail, Reply
<1>5. Exact'
  <2>1. CASE pc' \in {"idle", "spin"}
    BY <1>1, <1>3, <2>1, ExactAtEnd
  <2>2. CASE pc' \in {"match", "etag", "read"}
    <3>1. Closed(before)' /\ (seen = before[Target])' /\ (fs = before)'
      BY <1>1, <1>2, <1>3, <1>4, <2>2 DEF Closed
    <3> QED
      BY <1>1, <1>3, <2>2, <3>1 DEF Exact, InPlace, Making, Pruning, Putting, Deleting, Walking
  <2> QED
    BY <1>4, <2>1, <2>2
<1>6. ASSUME pc' = "idle" PROVE Answers
  <2>1. CASE Stat
    <3>1. \E status \in {400, 404} : Fail(status)
      BY <1>6, <2>1 DEF Stat, Goto
    <3> QED
      BY <1>1, <1>3, <3>1 DEF Fail, Reply, Answers, Refused
  <2>2. CASE GetEtag
    <3>1. Fail(500)
      BY <1>6, <2>2 DEF GetEtag, Goto
    <3> QED
      BY <1>1, <1>3, <3>1 DEF Fail, Reply, Answers, Refused
  <2>3. CASE Read
    <3>1. CASE Fail(500)
      BY <1>1, <1>3, <3>1 DEF Fail, Reply, Answers, Refused
    <3>2. CASE Reply(200, seen, fs[Target])
      <4>1. req.method = "GET"
        BY <2>3 DEF IOInv, Methods, Read
      <4> QED
        BY <1>1, <1>2, <1>3, <3>2, <4>1, <2>3 DEF Read, Reply, Answers, GetDone, MatchedBefore
    <3> QED
      BY <1>6, <2>3, <3>1, <3>2 DEF Read, Goto
  <2> QED
    BY <2>1, <2>2, <2>3
<1> QED
  BY <1>5, <1>6

LEMMA MatchExact ==
    ASSUME IOInv, Exact, edits = 0, Match, UNCHANGED user
    PROVE  Exact' /\ (pc' = "idle" => Answers)
<1>1. UNCHANGED <<fs, before, req, at, held, seen>> /\ pc = "match"
  BY DEF Match
<1>2. /\ Target \in Path /\ Target' = Target /\ req \in Request /\ at = <<>> /\ held = <<>>
      /\ fs \in Tree /\ before \in Tree
  BY <1>1, AtWork DEF IOInv, Methods, Target, TypeOK, Position
<1>3. Closed(before) /\ fs = before /\ seen = before[Target]
  BY <1>1, ExactNow
<1>4. CASE pc' = "walk"
  <2>1. MatchedBefore' /\ fs[<<>>] = Dir
    BY <1>1, <1>2, <1>3, <1>4 DEF Match, Goto, Fail, Reply, Die, MatchedBefore
  <2>2. Made(at) = before
    <3>1. Above(<<>>) = {}
      BY DEF Above
    <3> QED
      BY <1>2, <1>3, <2>1, <3>1 DEF Made, Tree
  <2>3. (Closed(before) /\ fs = Made(at))'
    BY <1>1, <1>2, <1>3, <2>2 DEF Closed, Made
  <2> QED
    BY <1>1, <1>2, <1>3, <1>4, <2>1, <2>3 DEF Exact, InPlace, Making, Pruning, Putting, Deleting, Walking
<1>5. CASE pc' = "down"
  BY <1>1, <1>3, <1>5, ExactAtEnd
<1>6. CASE pc' = "idle"
  <2>1. Exact'
    BY <1>1, <1>3, <1>6, ExactAtEnd
  <2>2. Fail(412) \/ Fail(500)
    BY <1>6 DEF Match, Goto, Die
  <2>3. CASE Fail(500)
    BY <1>1, <1>3, <2>1, <2>3 DEF Fail, Reply, Answers, Refused
  <2>4. CASE Fail(412) /\ ~Fail(500)
    <3>1. req.ifMatch # Nil /\ before[Target] # req.ifMatch
      BY <1>1, <1>2, <1>3, <1>6, <2>4, NodeAssumption
         DEF Match, Goto, Die, Request
    <3>2. out'.status = 412
      BY <2>4 DEF Fail, Reply
    <3>3. Refused
      BY <1>1, <1>3, <3>1, <3>2 DEF Refused, MatchedBefore
    <3> QED
      BY <2>1, <3>3 DEF Answers
  <2> QED
    BY <2>2, <2>3, <2>4
<1> QED
  BY <1>4, <1>5, <1>6 DEF Match, Goto, Fail, Reply, Die

LEMMA WalkExact ==
    ASSUME IOInv, Exact, edits = 0, Walk \/ Openat, UNCHANGED user
    PROVE  Exact' /\ (pc' = "idle" => Answers)
<1>1. UNCHANGED <<fs, before, req>> /\ pc \in {"walk", "openat"}
      /\ (pc' \notin {"walk"} => UNCHANGED held)
  BY DEF Walk, Openat, Goto
<1>2. /\ Target \in Document /\ Target \in Path /\ Target' = Target
      /\ at \in Above(Target) /\ at \in Path /\ Below \in Document /\ Parent(Below) = at
      /\ Below = Target \/ Below \in Above(Target)
      /\ fs \in Tree /\ before \in Tree
  BY <1>1, AtWork, AtBelow DEF IOInv, Target, TypeOK, Position, Walking
<1>3. /\ Closed(before) /\ MatchedBefore /\ Making
      /\ held = at /\ Entry = Below /\ Found = fs[Below]
  BY <1>1, ExactNow, EntryIsBelow DEF InPlace, Putting, Walking
<1>4. MatchedBefore' /\ Closed(before)'
  BY <1>1, <1>2, <1>3 DEF MatchedBefore, Closed
<1>5. CASE Walk /\ Below = Target /\ pc' = "open" /\ at' = at
  <2>1. fs = Made(Parent(Target))
    BY <1>2, <1>3, <1>5 DEF Making, Walk
  <2>2. (fs = Made(Parent(Target)))'
    BY <1>1, <1>2, <2>1 DEF Made
  <2> QED
    BY <1>1, <1>3, <1>4, <1>5, <2>2 DEF Exact, InPlace, Making, Pruning, Putting, Deleting, Walking
<1>6. CASE Walk /\ Below # Target /\ fs[Below] = Dir /\ pc' = "openat" /\ at' = at
  <2>1. fs = Made(at)
    BY <1>3, <1>6 DEF Making, Walk
  <2>2. Made(Below) = [Made(at) EXCEPT ![Below] = Dir]
    BY <1>2, MadeNext
  <2>3. fs = Made(Below)
    BY <1>2, <1>6, <2>1, <2>2 DEF Tree
  <2>4. (fs = Made(Below))'
    BY <1>1, <1>2, <1>6, <2>3 DEF Made, Below
  <2> QED
    BY <1>1, <1>3, <1>4, <1>6, <2>4 DEF Exact, InPlace, Making, Pruning, Putting, Deleting, Walking
<1>7. CASE Walk /\ Below # Target /\ fs[Below] = Absent /\ pc' = "mkdirat" /\ at' = at
  <2>1. fs = Made(at)
    BY <1>3, <1>7 DEF Making, Walk
  <2>2. (fs = Made(at) /\ fs[Below] = Absent)'
    BY <1>1, <1>2, <1>7, <2>1 DEF Made, Below
  <2> QED
    BY <1>1, <1>3, <1>4, <1>7, <2>2 DEF Exact, InPlace, Making, Pruning, Putting, Deleting, Walking
<1>8. CASE Walk /\ Below # Target /\ fs[Below] \in Content /\ Fail(400)
  <2>1. fs = Made(Parent(Below))
    BY <1>2, <1>3, <1>8 DEF Making, Walk
  <2>2. Below \in Path /\ Below \notin Above(Below) /\ Below # Parent(Below)
    BY <1>2, AboveType, AboveIs DEF Document
  <2>3. Below \notin Above(Parent(Below))
    BY <1>2, <2>2, AboveIs
  <2>4. before[Below] = fs[Below]
    BY <2>1, <2>2, <2>3 DEF Made
  <2>5. fs = before
    BY <1>2, <1>3, <1>8, <2>1, <2>4, MadeNothing, NodeAssumption
  <2>6. pc' = "idle" /\ out'.status = 400
    BY <1>8 DEF Fail, Reply
  <2> QED
    BY <1>1, <1>3, <2>5, <2>6, ExactAtEnd DEF Answers, Refused
<1>9. CASE Openat
  <2>1. fs = Made(Below) /\ pc = "openat"
    BY <1>3, <1>9 DEF Making, Openat
  <2>2. fs[Below] = Dir
    BY <1>2, <2>1 DEF Made, Document
  <2>3. CASE MayFail /\ Fail(500)
    <3>1. Target \notin Above(Below) /\ Target # Below
      BY <1>2, <2>1, AboveTransitive, AtWork DEF IOInv, Position
    <3>2. fs'[Target] = before[Target]
      BY <1>1, <1>2, <2>1, <3>1 DEF Made
    <3>3. pc' = "idle" /\ out'.status = 500
      BY <2>3 DEF Fail, Reply
    <3> QED
      BY <1>1, <2>3, <3>2, <3>3, ExactAtEnd DEF Answers, DiskFull
  <2>4. CASE pc' = "walk" /\ at' = Below /\ held' = Below
    <3>1. (fs = Made(at))'
      BY <1>1, <1>2, <2>1, <2>4 DEF Made
    <3> QED
      BY <1>1, <1>3, <1>4, <2>4, <3>1 DEF Exact, InPlace, Making, Pruning, Putting, Deleting, Walking
  <2> QED
    BY <1>3, <1>9, <2>2, <2>3, <2>4, NodeAssumption DEF Openat, Goto
<1> QED
  BY <1>3, <1>5, <1>6, <1>7, <1>8, <1>9 DEF Walk, Goto

LEMMA MkdiratExact ==
    ASSUME IOInv, Exact, edits = 0, Mkdirat, UNCHANGED user
    PROVE  Exact' /\ (pc' = "idle" => Answers)
<1>1. UNCHANGED <<before, req, at, held>> /\ pc = "mkdirat"
  BY DEF Mkdirat
<1>2. /\ Target \in Document /\ Target \in Path /\ Target' = Target
      /\ Target \notin Above(Target)
      /\ at \in Above(Target) /\ Below \in Document /\ Parent(Below) = at
      /\ Below' = Below
      /\ fs \in Tree /\ before \in Tree
  BY <1>1, AtWork, AtBelow DEF IOInv, Target, Below, TypeOK, Position, Walking
<1>3. /\ Closed(before) /\ MatchedBefore
      /\ fs = Made(at) /\ fs[Below] = Absent
      /\ held = at /\ Entry = Below /\ Found = fs[Below]
  BY <1>1, ExactNow, EntryIsBelow DEF InPlace, Putting, Walking, Making
<1>4. MatchedBefore' /\ Closed(before)'
  BY <1>1, <1>2, <1>3 DEF MatchedBefore, Closed
<1>5. CASE fs' = [fs EXCEPT ![Below] = Dir] /\ pc' = "openat"
  <2>1. fs' = Made(Below)
    BY <1>2, <1>3, <1>5, MadeNext
  <2>2. (fs = Made(Below))'
    BY <1>1, <1>2, <2>1 DEF Made
  <2> QED
    BY <1>1, <1>3, <1>4, <1>5, <2>2 DEF Exact, InPlace, Making, Pruning, Putting, Deleting, Walking
<1>6. CASE MayFail /\ Fail(500) /\ UNCHANGED fs
  <2>1. at # Target /\ Target \notin Above(at)
    BY <1>2, AboveTransitive
  <2>2. fs'[Target] = before[Target]
    BY <1>2, <1>3, <1>6, <2>1 DEF Made
  <2>3. pc' = "idle" /\ out'.status = 500
    BY <1>6 DEF Fail, Reply
  <2> QED
    BY <1>1, <1>3, <1>6, <2>2, <2>3, ExactAtEnd DEF Answers, DiskFull
<1>7. held # Nil
  BY <1>1, <1>3, StorageIOAssumption DEF IOInv, TypeOK
<1> QED
  BY <1>3, <1>5, <1>6, <1>7 DEF Mkdirat, Goto

LEMMA OpenExact ==
    ASSUME IOInv, Exact, edits = 0, Open, UNCHANGED user
    PROVE  Exact' /\ (pc' = "idle" => Answers)
<1>1. UNCHANGED <<before, req, at>> /\ pc = "open"
  BY DEF Open
<1>2. /\ Target \in Document /\ Target \in Path /\ Target' = Target
      /\ Target \notin Above(Target)
      /\ Parent(Target) \in Above(Target) /\ Parent(Target) \in Path
      /\ fs \in Tree /\ before \in Tree
  BY <1>1, AtWork, ParentAbove DEF IOInv, Target, TypeOK
<1>3. /\ Closed(before) /\ MatchedBefore
      /\ fs = Made(Parent(Target))
  BY <1>1, ExactNow DEF Putting, Walking, Making
<1>4. MatchedBefore' /\ Closed(before)'
  BY <1>1, <1>2, <1>3 DEF MatchedBefore, Closed
<1>5. CASE fs' = [fs EXCEPT ![Target] = Empty] /\ pc' = "write" /\ held' = Target
  <2>1. fs' = WithFile(before, Target, Empty)
    BY <1>2, <1>3, <1>5, MadeFile, NodeAssumption
  <2>2. (fs = WithFile(before, Target, Empty))'
    BY <1>1, <1>2, <2>1 DEF WithFile
  <2> QED
    BY <1>1, <1>2, <1>4, <1>5, <2>2 DEF Exact, InPlace, Making, Pruning, Putting, Deleting, Walking
<1>6. CASE Fail(500) /\ UNCHANGED <<fs, held>>
  <2>1. fs[Parent(Target)] = Dir
    BY <1>2, <1>3 DEF Made
  <2>2. Target # Parent(Target) /\ Target \notin Above(Parent(Target))
    BY <1>2, AboveTransitive
  <2>3. fs[Target] = before[Target]
    BY <1>2, <1>3, <2>2 DEF Made
  <2>4. pc' = "idle" /\ out'.status = 500
    BY <1>6 DEF Fail, Reply
  <2>5. fs[Target] = Dir \/ MayFail
    BY <1>6, <2>1, <2>4 DEF Open, Goto
  <2>6. CASE fs[Target] = Dir
    <3>1. fs' = before
      BY <1>2, <1>3, <1>6, <2>3, <2>6, MadeNothing, NodeAssumption
    <3> QED
      BY <1>1, <1>3, <1>6, <2>4, <3>1, ExactAtEnd DEF Answers, Refused
  <2>7. CASE MayFail
    BY <1>1, <1>3, <1>6, <2>3, <2>4, <2>7, ExactAtEnd DEF Answers, DiskFull
  <2> QED
    BY <2>5, <2>6, <2>7
<1> QED
  BY <1>5, <1>6 DEF Open, Goto

LEMMA WriteExact ==
    ASSUME IOInv, Exact, edits = 0, Write \/ Stat2 \/ PutEtag, UNCHANGED user
    PROVE  Exact' /\ (pc' = "idle" => Answers)
<1>1. UNCHANGED <<before, req, at, held, seen>> /\ pc \in {"write", "stat2", "etag2"}
  BY DEF Write, Stat2, PutEtag
<1>2. /\ Target \in Document /\ Target \in Path /\ Target' = Target
      /\ req.method = "PUT" /\ req.body \in Content
      /\ fs \in Tree /\ before \in Tree
  BY <1>1, AtWork DEF IOInv, Target, TypeOK, Methods, Putting
<1>3. Closed(before) /\ MatchedBefore /\ Making /\ InPlace
  BY <1>1, ExactNow DEF Putting, Walking
<1>4. MatchedBefore' /\ Closed(before)' /\ Written' = Written
  BY <1>1, <1>2, <1>3 DEF MatchedBefore, Closed, Written
<1>5. CASE Write
  <2>1. PICK c \in Written : fs' = [fs EXCEPT ![Target] = c]
    <3>1. held = Target /\ Target # Nil
      BY <1>2, <1>3, <1>5, StorageIOAssumption DEF Write, InPlace
    <3> QED
      BY <1>5, <3>1 DEF Write, Written
  <2>2. c \in Content
    BY <1>2, StorageIOAssumption DEF Written
  <2>3. fs' = WithFile(before, Target, c)
    BY <1>2, <1>3, <1>5, <2>1, <2>2, MadeFile, NodeAssumption DEF Making, Write
  <2>4. (\E d \in Written : fs = WithFile(before, Target, d))'
    BY <1>1, <1>2, <1>4, <2>3 DEF WithFile
  <2>5. pc' = "stat2"
    BY <1>5 DEF Write, Goto
  <2> QED
    BY <1>1, <1>3, <1>4, <2>4, <2>5 DEF Exact, InPlace, Making, Pruning, Putting, Deleting, Walking
<1>6. CASE Stat2 \/ PutEtag
  <2>1. PICK c \in Written : fs = WithFile(before, Target, c)
    BY <1>3, <1>6 DEF Stat2, PutEtag, Making
  <2>2. c \in Content
    BY <1>2, StorageIOAssumption DEF Written
  <2>3. fs[Target] = c /\ fs[Target] # Absent /\ fs' = fs
    BY <1>2, <1>6, <2>1, <2>2, NodeAssumption DEF WithFile, Stat2, PutEtag
  <2>4. CASE Stat2
    <3>1. (\E d \in Written : fs = WithFile(before, Target, d))'
      BY <1>1, <1>2, <1>4, <2>1, <2>3 DEF WithFile
    <3>2. pc' = "etag2"
      BY <2>3, <2>4 DEF Stat2, Goto
    <3> QED
      BY <1>1, <1>3, <1>4, <3>1, <3>2 DEF Exact, InPlace, Making, Pruning, Putting, Deleting, Walking
  <2>5. CASE PutEtag
    <3>1. CASE pc' = "down"
      BY <1>1, <3>1, ExactAtEnd
    <3>2. CASE pc' = "idle" /\ out'.status \in {200, 201}
      <4>1. PutDone
        BY <1>2, <1>3, <2>1, <2>3, <3>2 DEF PutDone
      <4> QED
        BY <1>1, <3>2, <4>1, ExactAtEnd DEF Answers
    <3> QED
      BY <2>5, <3>1, <3>2 DEF PutEtag, Reply, Die
  <2> QED
    BY <1>6, <2>4, <2>5
<1> QED
  BY <1>5, <1>6

LEMMA UnlinkExact ==
    ASSUME IOInv, Exact, edits = 0, DeleteEtag \/ Unlink, UNCHANGED user
    PROVE  Exact' /\ (pc' = "idle" => Answers)
<1>1. UNCHANGED <<before, req, held, seen>> /\ pc \in {"etag", "unlink"}
  BY DEF DeleteEtag, Unlink
<1>2. /\ Target \in Document /\ Target \in Path /\ Target' = Target
      /\ Target \notin Above(Target)
      /\ fs \in Tree /\ before \in Tree
      /\ (pc = "unlink" => req.method = "DELETE")
  BY <1>1, AtWork DEF IOInv, Target, TypeOK, Methods, Deleting
<1>3. Closed(before) /\ fs = before /\ seen = before[Target]
  BY <1>1, ExactNow
<1>4. Closed(before)'
  BY <1>1, <1>3 DEF Closed
<1>5. CASE DeleteEtag
  <2>1. UNCHANGED <<fs, at>>
    BY <1>5 DEF DeleteEtag
  <2>2. CASE pc' = "down"
    BY <1>1, <1>3, <2>2, ExactAtEnd
  <2>3. CASE pc' = "idle"
    <3>1. Fail(412) /\ ~MatchedBefore
      BY <1>3, <1>5, <2>3 DEF DeleteEtag, Goto, Die, MatchedBefore
    <3>2. out'.status = 412
      BY <3>1 DEF Fail, Reply
    <3>3. Refused
      BY <1>3, <2>1, <3>1, <3>2 DEF Refused
    <3> QED
      BY <1>1, <1>3, <2>3, <3>3, ExactAtEnd DEF Answers
  <2>4. CASE pc' = "unlink"
    <3>1. MatchedBefore
      BY <1>3, <1>5, <2>4 DEF DeleteEtag, Fail, Reply, Die, MatchedBefore
    <3>2. (MatchedBefore /\ fs = before /\ seen = before[Target])'
      BY <1>1, <1>2, <1>3, <2>1, <3>1 DEF MatchedBefore
    <3> QED
      BY <1>1, <1>3, <1>4, <2>4, <3>2 DEF Exact, InPlace, Making, Pruning, Putting, Deleting, Walking
  <2> QED
    BY <1>5, <2>2, <2>3, <2>4 DEF DeleteEtag, Goto, Fail, Reply, Die
<1>6. CASE Unlink
  <2>1. MatchedBefore
    BY <1>6, ExactNow DEF Unlink, Deleting
  <2>2. CASE fs[Target] \in Content /\ fs' = [fs EXCEPT ![Target] = Absent]
             /\ at' = Parent(Target) /\ pc' = "prune"
    <3>1. Above(Target) = {Parent(Target)} \cup Above(Parent(Target))
      BY <1>2, AboveIs
    <3>2. fs' = Left(Parent(Target))
      BY <1>2, <1>3, <2>2, <3>1 DEF Left, Tree
    <3>3. (/\ before[Target] \in Content /\ fs = Left(at)
           /\ \A q \in Above(Target) :
                q # at /\ q \notin Above(at) => q \in Prunable(before, Target))'
      BY <1>1, <1>2, <1>3, <2>2, <3>1, <3>2 DEF Left
    <3>4. MatchedBefore'
      BY <1>1, <1>2, <2>1 DEF MatchedBefore
    <3> QED
      BY <1>1, <1>3, <1>4, <2>2, <3>3, <3>4 DEF Exact, InPlace, Making, Pruning, Putting, Deleting, Walking
  <2>3. CASE fs[Target] \notin Content /\ Fail(500) /\ UNCHANGED <<fs, at>>
    <3>1. pc' = "idle" /\ out'.status = 500
      BY <2>3 DEF Fail, Reply
    <3> QED
      BY <1>1, <1>3, <2>3, <3>1, ExactAtEnd DEF Answers, Refused
  <2>4. CASE MayFail /\ Fail(500) /\ fs' = [fs EXCEPT ![Target] = Absent]
    <3>1. pc' = "idle" /\ out'.status = 500
      BY <2>4 DEF Fail, Reply
    <3>2. UnlinkedOnly
      BY <1>2, <1>3, <1>6, <2>1, <2>4, <3>1 DEF UnlinkedOnly, Unlink
    <3> QED
      BY <1>1, <3>1, <3>2, ExactAtEnd DEF Answers
  <2> QED
    BY <1>6, <2>2, <2>3, <2>4 DEF Unlink, Goto
<1> QED
  BY <1>5, <1>6

LEMMA PruneExact ==
    ASSUME IOInv, Exact, edits = 0, Prune, UNCHANGED user
    PROVE  Exact' /\ (pc' = "idle" => Answers)
<1>1. UNCHANGED <<before, req, held, seen>> /\ pc = "prune"
  BY DEF Prune
<1>2. /\ Target \in Document /\ Target \in Path /\ Target' = Target
      /\ Target \notin Above(Target) /\ Above(Target) \subseteq Path
      /\ at \in Above(Target) /\ at \in Path /\ at \notin Above(at)
      /\ fs \in Tree /\ before \in Tree /\ req.method = "DELETE"
  BY <1>1, AtWork, AboveType DEF IOInv, Target, TypeOK, Position, Methods, Deleting
<1>3. /\ Closed(before) /\ MatchedBefore
      /\ before[Target] \in Content /\ fs = Left(at)
      /\ \A q \in Above(Target) : q # at /\ q \notin Above(at) => q \in Prunable(before, Target)
  BY <1>1, ExactNow DEF Pruning, Deleting
<1>4. MatchedBefore' /\ Closed(before)'
  BY <1>1, <1>2, <1>3 DEF MatchedBefore, Closed
<1>5. at # Target /\ before[at] = Dir /\ fs[at] = Dir
  BY <1>2, <1>3, NodeAssumption DEF Closed, Left
<1>6. CASE /\ at # <<>> /\ EmptyDir(fs, at) /\ pc' = "prune"
           /\ fs' = [fs EXCEPT ![at] = Absent] /\ at' = Parent(at)
  <2>1. at \in Document /\ Above(at) = {Parent(at)} \cup Above(Parent(at))
    BY <1>2, <1>6, AboveIs DEF Document
  <2>2. fs' = Left(Parent(at))
    BY <1>2, <1>3, <1>6, <2>1 DEF Left
  <2>3. at \in Prunable(before, Target)
    <3> SUFFICES ASSUME NEW r \in Path, at \in Above(r), before[r] # Absent
                 PROVE  r = Target \/ r \in Above(Target)
      BY <1>2, <1>6 DEF Prunable
    <3>1. fs[r] = Absent
      BY <1>6 DEF EmptyDir
    <3> QED
      BY <1>3, <3>1 DEF Left
  <2>4. (/\ before[Target] \in Content /\ fs = Left(at)
         /\ \A q \in Above(Target) :
              q # at /\ q \notin Above(at) => q \in Prunable(before, Target))'
    <3>1. \A q \in Above(Target) :
             q # Parent(at) /\ q \notin Above(Parent(at)) => q \in Prunable(before, Target)
      BY <1>3, <2>1, <2>3
    <3>2. Left(Parent(at)) = Left(at)'
      BY <1>1, <1>2, <1>6 DEF Left
    <3> QED
      BY <1>1, <1>2, <1>3, <1>6, <2>2, <3>1, <3>2
  <2> QED
    BY <1>1, <1>3, <1>4, <1>6, <2>4 DEF Exact, InPlace, Making, Pruning, Putting, Deleting, Walking
<1>7. CASE at = <<>> \/ (fs[at] = Dir /\ ~EmptyDir(fs, at))
  <2>1. fs' = fs /\ pc' = "idle" /\ out'.status = 200
    BY <1>5, <1>7 DEF Prune, Reply, EmptyDir
  <2>2. \A q \in Above(Target) :
           q \in Prunable(before, Target) <=> q # at /\ q \notin Above(at)
    <3>1. CASE at = <<>>
      <4>1. Above(at) = {}
        BY <3>1 DEF Above
      <4>2. at \notin Prunable(before, Target)
        BY <3>1 DEF Prunable
      <4> QED
        BY <1>3, <4>1, <4>2
    <3>2. CASE ~EmptyDir(fs, at)
      <4>1. PICK r \in Path : at \in Above(r) /\ fs[r] # Absent
        BY <1>5, <3>2 DEF EmptyDir
      <4>2. r # at /\ r \notin Above(at)
        BY <1>2, <4>1, AboveTransitive, AboveType
      <4>3. r # Target /\ r \notin Above(Target) /\ before[r] # Absent
        BY <1>3, <4>1, <4>2 DEF Left
      <4>4. \A q \in Above(at) \cup {at} : q \in Above(r)
        BY <4>1, AboveTransitive
      <4>5. \A q \in Above(at) \cup {at} : q \notin Prunable(before, Target)
        BY <4>3, <4>4 DEF Prunable
      <4> QED
        BY <1>3, <4>5
    <3> QED
      BY <1>7, <3>1, <3>2
  <2>3. Prunable(before, Target) \subseteq Above(Target)
    BY DEF Prunable
  <2>4. fs = WithoutFile(before, Target)
    BY <1>3, <2>2, <2>3 DEF Left, WithoutFile
  <2>5. DeleteDone
    BY <1>2, <1>3, <2>1, <2>4 DEF DeleteDone
  <2> QED
    BY <1>1, <1>3, <2>1, <2>5, ExactAtEnd DEF Answers
<1> QED
  BY <1>5, <1>6, <1>7 DEF Prune, Goto

-----------------------------------------------------------------------------
LEMMA ServeExact ==
    ASSUME IOInv, Exact, edits = 0, Serve, UNCHANGED user
    PROVE  Exact' /\ (pc' = "idle" => Answers)
  BY GetExact, MatchExact, WalkExact, MkdiratExact, OpenExact, WriteExact, UnlinkExact, PruneExact
     DEF Serve

LEMMA ExactSteps == IOInv /\ Exact /\ [Next]_vars => Exact'
<1> SUFFICES ASSUME IOInv, Exact, [Next]_vars, edits' = 0
             PROVE  Exact'
  BY DEF Exact
<1>1. CASE Serve /\ UNCHANGED user
  BY <1>1, ServeExact DEF user
<1>2. CASE (Crash \/ Restart) /\ UNCHANGED user
  <2>1. UNCHANGED <<before, req>> /\ pc' \in {"idle", "down"} /\ edits = 0
    BY <1>2 DEF Crash, Restart, user
  <2> QED
    BY <2>1, ExactNow, ExactAtEnd
<1>3. CASE Receive
  <2>1. UNCHANGED fs /\ before' = fs /\ pc' = "stat"
    BY <1>3 DEF Receive, Take
  <2>2. Closed(before)'
    BY <2>1 DEF IOInv, TreeClosed, Closed
  <2> QED
    BY <2>1, <2>2 DEF Exact, InPlace, Making, Pruning, Putting, Deleting, Walking
<1>4. CASE UNCHANGED vars
  BY <1>4 DEF vars, Exact, InPlace, Making, Pruning, MatchedBefore, Made, Left, Written, Target, Below,
              Closed, WithFile, Prunable
<1>5. ~(edits' = edits + 1)
  BY DEF IOInv, TypeOK
<1> QED
  BY <1>1, <1>2, <1>3, <1>4, <1>5 DEF Next

\* Exact holds in every state.
THEOREM ExactHolds == Spec => [](IOInv /\ Exact)
<1>1. Init => IOInv /\ Exact
  <2> SUFFICES ASSUME Init PROVE Exact
    BY InitIO
  <2>1. IOInv /\ before = fs /\ pc = "idle"
    BY InitIO DEF Init
  <2>2. Closed(before)
    BY <2>1 DEF IOInv, TreeClosed
  <2> QED
    BY <2>1, <2>2 DEF Exact, InPlace, Making, Pruning, Putting, Deleting, Walking
<1>2. IOInv /\ Exact /\ [Next]_vars => (IOInv /\ Exact)'
  BY IOInvSteps, ExactSteps
<1> QED
  BY <1>1, <1>2, PTL DEF Spec

\* Whatever ends a request, with nobody editing, is one of the answers.
LEMMA AnsweredAnswers ==
    IOInv /\ Exact /\ [Next]_vars /\ Undisturbed => Answers
<1> SUFFICES ASSUME IOInv, Exact, [Next]_vars, Undisturbed
             PROVE  Answers
  OBVIOUS
<1>1. pc # "idle" /\ pc' = "idle" /\ out' # out /\ edits = 0
  BY DEF Undisturbed, Answered
<1>2. Next
  BY <1>1 DEF vars
<1>3. Serve /\ UNCHANGED user
  BY <1>1, <1>2 DEF Next, Crash, Restart, Receive, Take, UserEdits, OobWrite, OobMkdir, OobRemove, OobRename, Edit
<1> QED
  BY <1>1, <1>3, ServeExact

\* Without edits the calls of a request add up to one step: the one Storage takes for it.
THEOREM RequestsAreAtomic == Spec => AtomicUnlessFull
<1>1. IOInv /\ Exact /\ [Next]_vars =>
        [Undisturbed /\ ~(MayFail /\ out'.status = 500) =>
         CASE req.method = "PUT" /\ out'.status \in {200, 201} ->
                \E c \in {req.body} \cup (IF MayFail THEN Partial[req.body] ELSE {}) :
                   fs' = WithFile(before, Target, c)
           [] req.method = "DELETE" /\ out'.status = 200 ->
                fs' = WithoutFile(before, Target)
           [] OTHER -> fs' = before]_vars
  <2> SUFFICES ASSUME IOInv, Exact, [Next]_vars, Undisturbed, ~(MayFail /\ out'.status = 500)
               PROVE  CASE req.method = "PUT" /\ out'.status \in {200, 201} ->
                             \E c \in Written : fs' = WithFile(before, Target, c)
                        [] req.method = "DELETE" /\ out'.status = 200 ->
                             fs' = WithoutFile(before, Target)
                        [] OTHER -> fs' = before
    BY DEF Written
  <2>1. Refused \/ PutDone \/ DeleteDone \/ GetDone
    BY AnsweredAnswers DEF Answers, DiskFull, UnlinkedOnly
  <2>2. CASE Refused
    <3>1. out'.status \notin {200, 201} /\ fs' = before
      BY <2>2 DEF Refused
    <3> QED
      BY <3>1
  <2>3. CASE PutDone
    BY <2>3 DEF PutDone
  <2>4. CASE DeleteDone
    BY <2>4 DEF DeleteDone
  <2>5. CASE GetDone
    BY <2>5 DEF GetDone
  <2> QED
    BY <2>1, <2>2, <2>3, <2>4, <2>5
<1> QED
  BY <1>1, ExactHolds, PTL DEF Spec, AtomicUnlessFull

\* No update is lost: with nobody editing, a conditional request succeeds on the version
\* it names only, and is answered 412 on another one only.
THEOREM ConditionsHoldInIO == Spec => ConditionalIO
<1>1. IOInv /\ Exact /\ [Next]_vars =>
        [Undisturbed /\ req.ifMatch # Nil =>
         /\ out'.status \in {200, 201} => before[Target] = req.ifMatch
         /\ out'.status = 412 => before[Target] # req.ifMatch]_vars
  <2> SUFFICES ASSUME IOInv, Exact, [Next]_vars, Undisturbed, req.ifMatch # Nil
               PROVE  /\ out'.status \in {200, 201} => before[Target] = req.ifMatch
                      /\ out'.status = 412 => before[Target] # req.ifMatch
    OBVIOUS
  <2>1. Answers
    BY AnsweredAnswers
  <2>2. out'.status \in {200, 201} => MatchedBefore
    BY <2>1 DEF Answers, Refused, DiskFull, UnlinkedOnly, PutDone, DeleteDone, GetDone
  <2>3. out'.status = 412 => ~MatchedBefore
    BY <2>1 DEF Answers, Refused, DiskFull, UnlinkedOnly, PutDone, DeleteDone, GetDone
  <2> QED
    BY <2>2, <2>3 DEF MatchedBefore
<1> QED
  BY <1>1, ExactHolds, PTL DEF Spec, ConditionalIO

\* With nobody editing, an error is answered only if the document is as it was, or if a
\* DELETE whose condition held has removed it and found no descriptor to go on with.
THEOREM ErrorsKeepDocuments == Spec => ErrorKeepsDocument
<1>1. IOInv /\ Exact /\ [Next]_vars =>
        [Undisturbed /\ out'.status >= 400 =>
         \/ fs'[Target] = before[Target]
         \/ /\ req.method = "DELETE" /\ out'.status = 500 /\ MayFail
            /\ req.ifMatch \in {Nil, before[Target]}
            /\ fs' = [before EXCEPT ![Target] = Absent]]_vars
  <2> SUFFICES ASSUME IOInv, Exact, [Next]_vars, Undisturbed, out'.status >= 400
               PROVE  fs'[Target] = before[Target] \/ UnlinkedOnly
    BY DEF UnlinkedOnly, MatchedBefore
  <2>1. Answers
    BY AnsweredAnswers
  <2> QED
    BY <2>1 DEF Answers, Refused, DiskFull, PutDone, DeleteDone, GetDone
<1> QED
  BY <1>1, ExactHolds, PTL DEF Spec, ErrorKeepsDocument

\* With nobody editing, a GET answers with what was there and with the ETag of that,
\* although it opens the file twice.
THEOREM GetsAreConsistent == Spec => GetIsConsistent
<1>1. IOInv /\ Exact /\ [Next]_vars =>
        [Undisturbed /\ req.method = "GET" /\ out'.status = 200 =>
         out'.body = out'.version /\ out'.body = before[Target]]_vars
  <2> SUFFICES ASSUME IOInv, Exact, [Next]_vars, Undisturbed, req.method = "GET",
                      out'.status = 200
               PROVE  out'.body = out'.version /\ out'.body = before[Target]
    OBVIOUS
  <2>1. Answers
    BY AnsweredAnswers
  <2>2. ~Refused /\ ~DiskFull /\ ~UnlinkedOnly
    BY DEF Refused, DiskFull, UnlinkedOnly
  <2>3. ~PutDone /\ ~DeleteDone
    BY DEF PutDone, DeleteDone
  <2> QED
    BY <2>1, <2>2, <2>3 DEF Answers, GetDone
<1> QED
  BY <1>1, ExactHolds, PTL DEF Spec, GetIsConsistent
=============================================================================
