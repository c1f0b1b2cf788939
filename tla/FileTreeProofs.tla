--------------------------- MODULE FileTreeProofs ---------------------------
(***************************************************************************)
(* What FileTree's operators do to a tree, for every set of paths.         *)
(***************************************************************************)
EXTENDS FileTree, SequenceTheorems, WellFoundedInduction, TLAPS

\* The directories a path lies in are paths too, other than itself.
LEMMA AboveType ==
    ASSUME NEW p \in Path
    PROVE  Above(p) \subseteq Path /\ p \notin Above(p)
<1>1. p \in Seq(STRING) /\ \A i \in 0..Len(p) : SubSeq(p, 1, i) \in Path
  BY PathAssumption
<1>2. Len(p) \in Nat
  BY <1>1, LenProperties
<1> SUFFICES ASSUME NEW q \in Above(p)
             PROVE  q \in Path /\ q # p
  OBVIOUS
<1>3. PICK i \in 0..(Len(p) - 1) : q = SubSeq(p, 1, i)
  BY DEF Above
<1>4. i \in 0..Len(p)
  BY <1>2
<1>5. Len(q) = i
  <2>1. \A j \in 1..i : p[j] \in STRING
    BY <1>1, <1>2, ElementOfSeq
  <2> QED
    BY <1>1, <1>2, <1>3, <2>1, SubSeqProperties
<1> QED
  BY <1>1, <1>2, <1>3, <1>4, <1>5

\* A directory above a directory above p is above p.
LEMMA AboveTransitive ==
    ASSUME NEW p \in Path, NEW q \in Above(p), NEW r \in Above(q)
    PROVE  r \in Above(p)
<1>1. p \in Seq(STRING) /\ Len(p) \in Nat
  BY PathAssumption, LenProperties
<1>2. PICK i \in 0..(Len(p) - 1) : q = SubSeq(p, 1, i)
  BY DEF Above
<1>3. Len(q) = i
  <2>1. \A j \in 1..i : p[j] \in STRING
    BY <1>1, <1>2, ElementOfSeq
  <2> QED
    BY <1>1, <1>2, <2>1, SubSeqProperties
<1>4. PICK j \in 0..(i - 1) : r = SubSeq(q, 1, j)
  BY <1>3 DEF Above
<1>5. SubSeq(q, 1, j) = SubSeq(p, 1, j)
  BY <1>1, <1>2, <1>3, <1>4
<1>6. j \in 0..(Len(p) - 1) /\ r = SubSeq(p, 1, j)
  BY <1>1, <1>2, <1>4, <1>5
<1> QED
  BY <1>6 DEF Above

\* A path lies in its parent, and in what that lies in.
LEMMA AboveParent ==
    ASSUME NEW p \in Path, NEW q \in Above(p)
    PROVE  q = Parent(p) \/ q \in Above(Parent(p))
<1>1. p \in Seq(STRING) /\ Len(p) \in Nat
  BY PathAssumption, LenProperties
<1>2. PICK i \in 0..(Len(p) - 1) : q = SubSeq(p, 1, i)
  BY DEF Above
<1>3. Len(Parent(p)) = Len(p) - 1
  <2> DEFINE n == Len(p) - 1
  <2>1. n \in Nat /\ \A j \in 1..n : p[j] \in STRING
    BY <1>1, <1>2, ElementOfSeq
  <2> HIDE DEF n
  <2>2. Len(SubSeq(p, 1, n)) = n
    BY <1>1, <2>1, SubSeqProperties
  <2> QED
    BY <2>2 DEF Parent, n
<1>4. CASE i = Len(p) - 1
  BY <1>2, <1>4 DEF Parent
<1>5. CASE i # Len(p) - 1
  <2>1. i \in 0..(Len(Parent(p)) - 1)
    BY <1>1, <1>2, <1>3, <1>5
  <2>2. q = SubSeq(Parent(p), 1, i)
    BY <1>1, <1>2, <1>5 DEF Parent
  <2> QED
    BY <2>1, <2>2 DEF Above
<1> QED
  BY <1>4, <1>5

-----------------------------------------------------------------------------
\* Creating a file and its missing parents where no document is in the way
\* leaves every node below directories only.
LEMMA WithFileClosed ==
    ASSUME NEW t \in Tree, NEW p \in Path, NEW c \in Content, Closed(t),
           \A q \in Above(p) : t[q] \notin Content,
           t[p] # Dir
    PROVE  WithFile(t, p, c) \in Tree /\ Closed(WithFile(t, p, c))
<1> DEFINE u == WithFile(t, p, c)
<1>1. u \in Tree
  BY DEF WithFile, Tree, Node
<1> SUFFICES ASSUME NEW r \in Path, u[r] # Absent, NEW q \in Above(r)
             PROVE  u[q] = Dir
  BY <1>1 DEF Closed
<1>2. q \in Path
  BY AboveType
<1>3. CASE r = p \/ r \in Above(p)
  <2>1. q \in Above(p)
    BY <1>3, AboveTransitive
  <2>2. q # p
    BY <2>1, AboveType
  <2> QED
    BY <1>2, <2>1, <2>2 DEF WithFile
<1>4. CASE r # p /\ r \notin Above(p)
  <2>1. t[r] # Absent
    BY <1>4 DEF WithFile
  <2>2. t[q] = Dir
    BY <2>1 DEF Closed
  <2>3. q # p
    BY <2>2
  <2> QED
    BY <1>2, <2>2, <2>3 DEF WithFile
<1> QED
  BY <1>3, <1>4

\* Removing a document and the directories it leaves empty takes away no
\* directory with something else below it.
LEMMA WithoutFileClosed ==
    ASSUME NEW t \in Tree, NEW p \in Path, Closed(t), t[p] \in Content
    PROVE  WithoutFile(t, p) \in Tree /\ Closed(WithoutFile(t, p))
<1> DEFINE u == WithoutFile(t, p)
<1>1. u \in Tree
  BY DEF WithoutFile, Tree, Node
<1> SUFFICES ASSUME NEW r \in Path, u[r] # Absent, NEW q \in Above(r)
             PROVE  u[q] = Dir
  BY <1>1 DEF Closed
<1>2. q \in Path /\ q # r
  BY AboveType
<1>3. r # p /\ r \notin Prunable(t, p) /\ t[r] # Absent
  BY DEF WithoutFile
<1>4. t[q] = Dir
  BY <1>3 DEF Closed
<1>5. q # p
  BY <1>4, NodeAssumption
<1>6. q \notin Prunable(t, p)
  <2> SUFFICES ASSUME q \in Prunable(t, p)
               PROVE  FALSE
    OBVIOUS
  <2>1. r \in Above(p)
    BY <1>3 DEF Prunable
  <2>2. r # <<>>
    BY PathAssumption DEF Above
  <2>3. \A s \in Path : r \in Above(s) /\ t[s] # Absent => s = p \/ s \in Above(p)
    BY AboveTransitive DEF Prunable
  <2> QED
    BY <1>3, <2>1, <2>2, <2>3 DEF Prunable
<1> QED
  BY <1>2, <1>4, <1>5, <1>6 DEF WithoutFile

\* Every directory that is empty once p is removed was empty before.
LEMMA WithoutFileLeavesNoEmptyDir ==
    ASSUME NEW t \in Tree, NEW p \in Path, Closed(t), t[p] \in Content,
           NEW q \in Path \ {<<>>}, EmptyDir(WithoutFile(t, p), q)
    PROVE  EmptyDir(t, q)
<1>1. t[q] = Dir /\ q # p /\ q \notin Prunable(t, p)
  BY NodeAssumption DEF EmptyDir, WithoutFile
<1>2. ASSUME NEW r \in Path, q \in Above(r), t[r] # Absent
      PROVE  FALSE
  <2>1. r = p \/ r \in Prunable(t, p)
    BY <1>2 DEF EmptyDir, WithoutFile
  <2>2. r = p \/ r \in Above(p)
    BY <2>1 DEF Prunable
  <2>3. q \in Above(p)
    BY <1>2, <2>2, AboveTransitive
  <2>4. PICK s \in Path : q \in Above(s) /\ t[s] # Absent /\ s # p /\ s \notin Above(p)
    BY <1>1, <2>3 DEF Prunable
  <2>5. WithoutFile(t, p)[s] = t[s]
    BY <2>4 DEF WithoutFile, Prunable
  <2> QED
    BY <2>4, <2>5 DEF EmptyDir
<1> QED
  BY <1>1, <1>2 DEF EmptyDir

\* No directory is empty once a file is created but those that were before.
LEMMA WithFileLeavesNoEmptyDir ==
    ASSUME NEW t \in Tree, NEW p \in Path, NEW c \in Content,
           NEW q \in Path, EmptyDir(WithFile(t, p, c), q)
    PROVE  EmptyDir(t, q)
<1>1. q \notin Above(p)
  BY NodeAssumption DEF EmptyDir, WithFile
<1>2. t[q] = Dir
  BY <1>1, NodeAssumption DEF EmptyDir, WithFile
<1>3. ASSUME NEW r \in Path, q \in Above(r)
      PROVE  t[r] = Absent
  BY <1>3, NodeAssumption DEF EmptyDir, WithFile
<1> QED
  BY <1>2, <1>3 DEF EmptyDir

\* Creating a file touches no other document, if none is in the way.
LEMMA WithFileFrame ==
    ASSUME NEW t \in Tree, NEW p \in Path, NEW c \in Content, NEW r \in Path,
           \A q \in Above(p) : t[q] \notin Content,
           r # p,
           {t[r], WithFile(t, p, c)[r]} \cap Content # {}
    PROVE  WithFile(t, p, c)[r] = t[r]
  BY NodeAssumption DEF WithFile

\* Removing a document touches no other one.
LEMMA WithoutFileFrame ==
    ASSUME NEW t \in Tree, NEW p \in Path, NEW r \in Path, Closed(t),
           t[p] \in Content,
           r # p,
           {t[r], WithoutFile(t, p)[r]} \cap Content # {}
    PROVE  WithoutFile(t, p)[r] = t[r]
<1>1. t[r] \in Content
  BY NodeAssumption DEF WithoutFile
<1>2. r \notin Above(p)
  BY <1>1, NodeAssumption DEF Closed
<1> QED
  BY <1>2 DEF WithoutFile, Prunable
-----------------------------------------------------------------------------
(***************************************************************************)
(* Induction, from the order of the natural numbers being well-founded, as *)
(* sets rather than predicates: first-order, and so within the reach of    *)
(* the provers.                                                            *)
(***************************************************************************)
LEMMA LeastNumber ==
    ASSUME NEW T \in SUBSET Nat, T # {}
    PROVE  \E m \in T : \A n \in T : m <= n
<1> DEFINE R == OpToRel(<, Nat)
<1>1. IsWellFoundedOn(R, Nat)
  BY NatLessThanWellFounded
<1>2. \A m, n \in Nat : <<n, m>> \in R <=> n < m
  BY DEF OpToRel
<1> HIDE DEF R
<1>3. PICK m \in T : \A n \in T : ~(<<n, m>> \in R)
  BY <1>1, WFMin
<1>4. \A n \in T : ~(n < m)
  BY <1>2, <1>3
<1> QED
  BY <1>4

LEMMA Induction ==
    ASSUME NEW S \in SUBSET Nat, 0 \in S, \A n \in S : n + 1 \in S
    PROVE  S = Nat
<1> SUFFICES ASSUME S # Nat PROVE FALSE
  OBVIOUS
<1>1. PICK m \in Nat \ S : \A n \in Nat \ S : m <= n
  BY LeastNumber
<1>2. m # 0 /\ m - 1 \in Nat /\ m - 1 \in S
  BY <1>1
<1> QED
  BY <1>1, <1>2

\* The walk of readdir_r() over the names: one step of the loop of Entries.
EntriesStep(t, p, found, i) ==
    IF i = 0 THEN <<>>
    ELSE IF Append(p, NameOrder[i]) \in Path /\ t[Append(p, NameOrder[i])] # Absent
         THEN Append(found[i - 1], NameOrder[i])
         ELSE found[i - 1]

\* The recursion of Entries has a solution on the first n names.
LEMMA EntriesExist ==
    ASSUME NEW t, NEW p
    PROVE  \E f : f = [i \in 0..Len(NameOrder) |-> EntriesStep(t, p, f, i)]
<1> DEFINE Solves(f, n) == \A i \in 0..n : f[i] = EntriesStep(t, p, f, i)
           S == {n \in Nat : \E f : Solves(f, n)}
<1>1. 0 \in S
  <2>1. Solves([i \in {0} |-> <<>>], 0)
    BY DEF EntriesStep
  <2> QED
    BY <2>1
<1>2. ASSUME NEW n \in S PROVE n + 1 \in S
  <2>1. PICK f : Solves(f, n)
    OBVIOUS
  <2> DEFINE g == [i \in 0..(n + 1) |-> IF i <= n THEN f[i] ELSE EntriesStep(t, p, f, i)]
  <2>2. \A i \in 0..(n + 1) : EntriesStep(t, p, g, i) = EntriesStep(t, p, f, i)
    <3>1. \A i \in 0..(n + 1) : i # 0 => g[i - 1] = f[i - 1]
      OBVIOUS
    <3> HIDE DEF g
    <3> QED
      BY <3>1 DEF EntriesStep
  <2>3. \A i \in 0..(n + 1) : g[i] = EntriesStep(t, p, f, i)
    BY <2>1
  <2> HIDE DEF g
  <2>4. Solves(g, n + 1)
    BY <2>2, <2>3
  <2> QED
    BY <2>4
<1> HIDE DEF S
<1>3. S = Nat
  <2>1. S \in SUBSET Nat
    BY DEF S
  <2> QED
    BY <1>1, <1>2, <2>1, Induction
<1>4. Len(NameOrder) \in Nat
  BY PathAssumption, LenProperties
<1>5. PICK f : Solves(f, Len(NameOrder))
  BY <1>3, <1>4 DEF S
<1> DEFINE h == [i \in 0..Len(NameOrder) |-> f[i]]
<1>6. \A i \in 0..Len(NameOrder) : EntriesStep(t, p, h, i) = EntriesStep(t, p, f, i)
  <2>1. \A i \in 0..Len(NameOrder) : i # 0 => h[i - 1] = f[i - 1]
    BY <1>4
  <2> HIDE DEF h
  <2> QED
    BY <2>1 DEF EntriesStep
<1>7. h = [i \in 0..Len(NameOrder) |-> EntriesStep(t, p, h, i)]
  BY <1>5, <1>6
<1> QED
  BY <1>7

\* The entries of a folder are nodes one level below it.
LEMMA EntriesAreBelow ==
    ASSUME NEW t, NEW p \in Path
    PROVE  \A i \in DOMAIN Entries(t, p) :
              /\ Entries(t, p)[i] \in STRING
              /\ Append(p, Entries(t, p)[i]) \in Path
<1> DEFINE Loop(f) == [i \in 0..Len(NameOrder) |-> EntriesStep(t, p, f, i)]
           found == CHOOSE f : f = Loop(f)
           Below == {n \in STRING : Append(p, n) \in Path}
<1>1. Entries(t, p) = found[Len(NameOrder)]
  BY DEF Entries, EntriesStep
<1>2. found = Loop(found)
  BY EntriesExist
<1> HIDE DEF found
<1>3. \A i \in 0..Len(NameOrder) : found[i] = EntriesStep(t, p, found, i)
  BY <1>2
<1>4. Len(NameOrder) \in Nat /\ \A i \in 1..Len(NameOrder) : NameOrder[i] \in STRING
  BY PathAssumption, LenProperties, ElementOfSeq
<1> DEFINE S == {n \in Nat : n <= Len(NameOrder) => found[n] \in Seq(Below)}
<1>5. 0 \in S
  <2>1. found[0] = <<>>
    BY <1>3, <1>4 DEF EntriesStep
  <2> HIDE DEF Below
  <2> QED
    BY <2>1, EmptySeq
<1>6. ASSUME NEW n \in S PROVE n + 1 \in S
  <2> SUFFICES ASSUME n + 1 <= Len(NameOrder) PROVE found[n + 1] \in Seq(Below)
    OBVIOUS
  <2>1. found[n] \in Seq(Below) /\ n + 1 \in 0..Len(NameOrder) /\ n + 1 # 0 /\ n + 1 \in 1..Len(NameOrder)
    BY <1>4
  <2> DEFINE name == NameOrder[n + 1]
  <2>2. found[n + 1] = IF Append(p, name) \in Path /\ t[Append(p, name)] # Absent
                       THEN Append(found[n], name) ELSE found[n]
    <3>1. found[n + 1] = EntriesStep(t, p, found, n + 1) /\ n + 1 - 1 = n
      BY <1>3, <2>1
    <3> QED
      BY <2>1, <3>1 DEF EntriesStep
  <2>3. Append(p, name) \in Path => name \in Below
    BY <1>4, <2>1
  <2> HIDE DEF name, Below
  <2> QED
    BY <2>1, <2>2, <2>3, AppendProperties
<1> HIDE DEF S
<1>7. Len(NameOrder) \in S
  <2>1. S \in SUBSET Nat
    BY DEF S
  <2> QED
    BY <1>4, <1>5, <1>6, <2>1, Induction
<1>8. Entries(t, p) \in Seq(Below)
  BY <1>1, <1>4, <1>7 DEF S
<1> QED
  BY <1>8, ElementOfSeq, LenProperties

-----------------------------------------------------------------------------
(***************************************************************************)
(* Moving a node: paths as concatenations.                                 *)
(***************************************************************************)
\* A path is above another one if that goes on from it.
LEMMA AboveIsConcat ==
    ASSUME NEW x \in Seq(STRING), NEW y \in Seq(STRING)
    PROVE  y \in Above(x) <=> \E z \in Seq(STRING) : z # <<>> /\ x = y \o z
<1>1. Len(x) \in Nat /\ Len(y) \in Nat
  BY LenProperties
<1>2. ASSUME y \in Above(x)
      PROVE  \E z \in Seq(STRING) : z # <<>> /\ x = y \o z
  <2>1. PICK i \in 0..(Len(x) - 1) : y = SubSeq(x, 1, i)
    BY <1>2 DEF Above
  <2> DEFINE z == SubSeq(x, i + 1, Len(x))
  <2>2. \A j \in (i + 1)..Len(x) : x[j] \in STRING
    BY <1>1, <2>1, ElementOfSeq
  <2>3. z \in Seq(STRING) /\ Len(z) = Len(x) - i
    BY <1>1, <2>1, <2>2, SubSeqProperties
  <2>4. z # <<>>
    BY <1>1, <2>1, <2>3
  <2>5. y \o z = SubSeq(x, 1, Len(x))
    BY <1>1, <2>1, ConcatAdjacentSubSeq
  <2> QED
    BY <2>3, <2>4, <2>5, SubSeqFull
<1>3. ASSUME NEW z \in Seq(STRING), z # <<>>, x = y \o z
      PROVE  y \in Above(x)
  <2>1. /\ Len(z) \in Nat \ {0} /\ Len(x) = Len(y) + Len(z)
        /\ \A j \in 1..Len(x) : x[j] = IF j <= Len(y) THEN y[j] ELSE z[j - Len(y)]
    BY <1>3, EmptySeq, ConcatProperties
  <2> DEFINE w == SubSeq(x, 1, Len(y))
  <2>2. \A j \in 1..Len(y) : x[j] \in STRING
    BY <1>1, <2>1, ElementOfSeq
  <2>3. w \in Seq(STRING) /\ Len(w) = Len(y) /\ \A j \in 1..Len(y) : w[j] = x[j]
    BY <1>1, <2>2, SubSeqProperties
  <2>4. \A j \in 1..Len(w) : w[j] = y[j]
    BY <1>1, <2>1, <2>3
  <2>5. w = y
    BY <2>3, <2>4, SeqEqual
  <2>6. Len(y) \in 0..(Len(x) - 1)
    BY <1>1, <2>1
  <2> QED
    BY <2>5, <2>6 DEF Above
<1> QED
  BY <1>2, <1>3

\* The same for Under, which is reflexive.
LEMMA UnderIsConcat ==
    ASSUME NEW x \in Seq(STRING), NEW y \in Seq(STRING)
    PROVE  Under(y, x) <=> \E z \in Seq(STRING) : x = y \o z
<1>1. y \o <<>> = y /\ <<>> \in Seq(STRING)
  BY ConcatEmptySeq, EmptySeq
<1> QED
  BY <1>1, AboveIsConcat DEF Under

\* What goes on from p goes on from q in the same way once p is q.
LEMMA OntoConcat ==
    ASSUME NEW p \in Seq(STRING), NEW q \in Seq(STRING), NEW s \in Seq(STRING)
    PROVE  Onto(p, q, p \o s) = q \o s
<1>1. Len(p) \in Nat /\ Len(s) \in Nat
  BY LenProperties
<1> DEFINE x == p \o s
           w == SubSeq(x, Len(p) + 1, Len(x))
<1>2. /\ x \in Seq(STRING) /\ Len(x) = Len(p) + Len(s)
      /\ \A j \in 1..(Len(p) + Len(s)) : x[j] = IF j <= Len(p) THEN p[j] ELSE s[j - Len(p)]
  BY ConcatProperties
<1>3. \A j \in (Len(p) + 1)..Len(x) : x[j] \in STRING
  BY <1>1, <1>2, ElementOfSeq
<1>4. w \in Seq(STRING) /\ Len(w) = Len(s) /\ \A j \in 1..Len(s) : w[j] = x[Len(p) + j]
  <2>1. /\ w \in Seq(STRING)
        /\ Len(w) = IF Len(p) + 1 <= Len(x) THEN Len(x) - (Len(p) + 1) + 1 ELSE 0
        /\ \A j \in 1..(Len(x) - (Len(p) + 1) + 1) : w[j] = x[(Len(p) + 1) + j - 1]
    BY <1>1, <1>2, <1>3, SubSeqProperties
  <2> QED
    BY <1>1, <1>2, <2>1
<1>5. \A j \in 1..Len(w) : w[j] = s[j]
  BY <1>1, <1>2, <1>4
<1>6. w = s
  BY <1>4, <1>5, SeqEqual
<1> QED
  BY <1>6 DEF Onto

\* A path is above another one if it is shorter and begins it.
LEMMA AboveIsPrefix ==
    ASSUME NEW x \in Seq(STRING), NEW y \in Seq(STRING)
    PROVE  y \in Above(x) <=> Len(y) < Len(x) /\ \A j \in 1..Len(y) : y[j] = x[j]
<1>1. Len(x) \in Nat /\ Len(y) \in Nat /\ \A j \in 1..Len(x) : x[j] \in STRING
  BY LenProperties, ElementOfSeq
<1>2. ASSUME y \in Above(x)
      PROVE  Len(y) < Len(x) /\ \A j \in 1..Len(y) : y[j] = x[j]
  <2>1. PICK i \in 0..(Len(x) - 1) : y = SubSeq(x, 1, i)
    BY <1>2 DEF Above
  <2> QED
    BY <1>1, <2>1, SubSeqProperties
<1>3. ASSUME Len(y) < Len(x), \A j \in 1..Len(y) : y[j] = x[j]
      PROVE  y \in Above(x)
  <2> DEFINE w == SubSeq(x, 1, Len(y))
  <2>1. w \in Seq(STRING) /\ Len(w) = Len(y) /\ \A j \in 1..Len(y) : w[j] = x[j]
    BY <1>1, <1>3, SubSeqProperties
  <2>2. w = y
    BY <1>3, <2>1, SeqEqual
  <2>3. Len(y) \in 0..(Len(x) - 1)
    BY <1>1, <1>3
  <2> QED
    BY <2>2, <2>3 DEF Above
<1> QED
  BY <1>2, <1>3

\* What lies below q lies in the same order below p.
LEMMA AboveCarries ==
    ASSUME NEW p \in Seq(STRING), NEW q \in Seq(STRING), NEW s \in Seq(STRING),
           NEW e \in Seq(STRING), q \o s \in Above(q \o e)
    PROVE  p \o s \in Above(p \o e)
<1>1. Len(p) \in Nat /\ Len(q) \in Nat /\ Len(s) \in Nat /\ Len(e) \in Nat
  BY LenProperties
<1>2. PICK qs \in Seq(STRING), qe \in Seq(STRING), ps \in Seq(STRING), pe \in Seq(STRING) :
         qs = q \o s /\ qe = q \o e /\ ps = p \o s /\ pe = p \o e
  BY ConcatProperties
<1>3. /\ Len(qs) = Len(q) + Len(s) /\ Len(qe) = Len(q) + Len(e)
      /\ Len(ps) = Len(p) + Len(s) /\ Len(pe) = Len(p) + Len(e)
  BY <1>2, ConcatProperties
<1>4. /\ \A j \in 1..Len(s) : qs[Len(q) + j] = s[j]
      /\ \A j \in 1..Len(e) : qe[Len(q) + j] = e[j]
  BY <1>1, <1>2, ConcatProperties
<1>5. /\ \A j \in 1..Len(ps) : ps[j] = IF j <= Len(p) THEN p[j] ELSE s[j - Len(p)]
      /\ \A j \in 1..Len(pe) : pe[j] = IF j <= Len(p) THEN p[j] ELSE e[j - Len(p)]
  BY <1>1, <1>2, <1>3, ConcatProperties
<1>6. Len(qs) < Len(qe) /\ \A j \in 1..Len(qs) : qs[j] = qe[j]
  BY <1>2, AboveIsPrefix
<1>7. Len(s) < Len(e)
  BY <1>1, <1>3, <1>6
<1>8. \A j \in 1..Len(s) : s[j] = e[j]
  <2> SUFFICES ASSUME NEW j \in 1..Len(s) PROVE s[j] = e[j]
    OBVIOUS
  <2>1. Len(q) + j \in 1..Len(qs) /\ j \in 1..Len(e)
    BY <1>1, <1>3, <1>7
  <2> QED
    BY <1>4, <1>6, <2>1
<1>9. Len(ps) < Len(pe)
  BY <1>1, <1>3, <1>7
<1>10. \A j \in 1..Len(ps) : ps[j] = pe[j]
  <2> SUFFICES ASSUME NEW j \in 1..Len(ps) PROVE ps[j] = pe[j]
    OBVIOUS
  <2>1. j \in 1..Len(pe) /\ (j > Len(p) => j - Len(p) \in 1..Len(s))
    BY <1>1, <1>3, <1>9
  <2> QED
    BY <1>1, <1>5, <1>8, <2>1
<1> QED
  BY <1>2, <1>9, <1>10, AboveIsPrefix

\* Concatenation is associative.
LEMMA ConcatsAssociate ==
    ASSUME NEW a \in Seq(STRING), NEW b \in Seq(STRING), NEW c \in Seq(STRING)
    PROVE  (a \o b) \o c = a \o (b \o c)
<1>1. Len(a) \in Nat /\ Len(b) \in Nat /\ Len(c) \in Nat
  BY LenProperties
<1>2. PICK ab \in Seq(STRING), bc \in Seq(STRING) : ab = a \o b /\ bc = b \o c
  BY ConcatProperties
<1>3. PICK x \in Seq(STRING), y \in Seq(STRING) : x = ab \o c /\ y = a \o bc
  BY ConcatProperties
<1>4. /\ Len(ab) = Len(a) + Len(b) /\ Len(bc) = Len(b) + Len(c)
      /\ \A j \in 1..(Len(a) + Len(b)) : ab[j] = IF j <= Len(a) THEN a[j] ELSE b[j - Len(a)]
      /\ \A j \in 1..(Len(b) + Len(c)) : bc[j] = IF j <= Len(b) THEN b[j] ELSE c[j - Len(b)]
  BY <1>2, ConcatProperties
<1>5. /\ Len(x) = Len(ab) + Len(c) /\ Len(y) = Len(a) + Len(bc)
      /\ \A j \in 1..(Len(ab) + Len(c)) : x[j] = IF j <= Len(ab) THEN ab[j] ELSE c[j - Len(ab)]
      /\ \A j \in 1..(Len(a) + Len(bc)) : y[j] = IF j <= Len(a) THEN a[j] ELSE bc[j - Len(a)]
  BY <1>3, ConcatProperties
<1>6. Len(x) = Len(y)
  BY <1>1, <1>4, <1>5
<1>7. ASSUME NEW j \in 1..Len(x) PROVE x[j] = y[j]
  <2>1. /\ j \in Nat /\ j >= 1
        /\ j \in 1..(Len(ab) + Len(c)) /\ j \in 1..(Len(a) + Len(bc))
    BY <1>1, <1>4, <1>5
  <2>2. /\ x[j] = IF j <= Len(ab) THEN ab[j] ELSE c[j - Len(ab)]
        /\ y[j] = IF j <= Len(a) THEN a[j] ELSE bc[j - Len(a)]
    BY <1>5, <2>1
  <2>3. CASE j <= Len(a)
    <3>1. j \in 1..(Len(a) + Len(b)) /\ j <= Len(ab)
      BY <1>1, <1>4, <2>1, <2>3
    <3> QED
      BY <1>4, <2>2, <2>3, <3>1
  <2>4. CASE j > Len(a) /\ j <= Len(a) + Len(b)
    <3>1. /\ j \in 1..(Len(a) + Len(b)) /\ j <= Len(ab)
          /\ j - Len(a) \in 1..(Len(b) + Len(c)) /\ j - Len(a) <= Len(b)
      BY <1>1, <1>4, <2>1, <2>4
    <3>2. ab[j] = b[j - Len(a)]
      BY <1>1, <1>4, <2>1, <2>4, <3>1
    <3>3. bc[j - Len(a)] = b[j - Len(a)]
      BY <1>4, <3>1
    <3> QED
      BY <1>1, <2>1, <2>2, <2>4, <3>1, <3>2, <3>3
  <2>5. CASE j > Len(a) + Len(b)
    <3>1. /\ ~(j <= Len(ab)) /\ ~(j <= Len(a))
          /\ j - Len(a) \in 1..(Len(b) + Len(c)) /\ ~(j - Len(a) <= Len(b))
          /\ (j - Len(a)) - Len(b) = j - Len(ab)
      BY <1>1, <1>4, <2>1, <2>5
    <3>2. bc[j - Len(a)] = c[(j - Len(a)) - Len(b)]
      BY <1>4, <3>1
    <3> QED
      BY <2>2, <3>1, <3>2
  <2> QED
    BY <1>1, <2>1, <2>3, <2>4, <2>5
<1>8. x = y
  BY <1>6, <1>7, SeqEqual
<1> QED
  BY <1>2, <1>3, <1>8

\* The path h, and on from there.
Further(h, s) == h \o s

\* A path that is moved, and goes on, comes from where it was.
LEMMA OntoGoesOn ==
    ASSUME NEW p \in Seq(STRING), NEW q \in Seq(STRING), NEW h \in Seq(STRING),
           Under(p, h), NEW s \in Seq(STRING)
    PROVE  /\ Under(q, Further(Onto(p, q, h), s))
           /\ Onto(q, p, Further(Onto(p, q, h), s)) = Further(h, s)
<1>1. PICK e \in Seq(STRING) : h = p \o e
  BY UnderIsConcat
<1>2. PICK qe \in Seq(STRING) : qe = q \o e
  BY ConcatProperties
<1>3. PICK es \in Seq(STRING) : es = e \o s
  BY ConcatProperties
<1>4. Onto(p, q, h) = qe
  <2>1. Onto(p, q, p \o e) = q \o e
    BY OntoConcat
  <2> QED
    BY <1>1, <1>2, <2>1
<1>5. \A a \in Seq(STRING) : (a \o e) \o s = a \o es
  <2> SUFFICES ASSUME NEW a \in Seq(STRING) PROVE (a \o e) \o s = a \o es
    OBVIOUS
  <2>1. (a \o e) \o s = a \o (e \o s)
    BY ConcatsAssociate
  <2> QED
    BY <1>3, <2>1
<1>6. qe \o s = q \o es /\ h \o s = p \o es
  BY <1>1, <1>2, <1>5
<1>7. Onto(q, p, q \o es) = p \o es
  BY OntoConcat
<1>8. qe \o s \in Seq(STRING)
  BY ConcatProperties
<1>9. Under(q, qe \o s)
  BY <1>6, <1>8, UnderIsConcat
<1>10. Further(Onto(p, q, h), s) = qe \o s
  BY <1>4 DEF Further
<1>11. Further(h, s) = p \o es
  BY <1>6 DEF Further
<1>12. Onto(q, p, qe \o s) = p \o es
  BY <1>6, <1>7
<1> QED
  BY <1>9, <1>10, <1>11, <1>12

\* The same for the path itself.
LEMMA OntoGoesBack ==
    ASSUME NEW p \in Seq(STRING), NEW q \in Seq(STRING), NEW h \in Seq(STRING), Under(p, h)
    PROVE  Under(q, Onto(p, q, h)) /\ Onto(q, p, Onto(p, q, h)) = h
<1>1. PICK e \in Seq(STRING) : h = p \o e
  BY UnderIsConcat
<1>2. PICK qe \in Seq(STRING) : qe = q \o e
  BY ConcatProperties
<1>3. Onto(p, q, h) = qe /\ Onto(q, p, qe) = h
  BY <1>1, <1>2, OntoConcat
<1> QED
  BY <1>2, <1>3, UnderIsConcat

\* Of two paths above a third one is above the other.
LEMMA AboveComparable ==
    ASSUME NEW r \in Path, NEW q, Under(q, r), NEW w \in Above(r)
    PROVE  Under(q, w) \/ w \in Above(q)
<1>1. r \in Seq(STRING) /\ Len(r) \in Nat /\ \A j \in 1..Len(r) : r[j] \in STRING
  BY PathAssumption, LenProperties, ElementOfSeq
<1>2. PICK j \in 0..(Len(r) - 1) : w = SubSeq(r, 1, j)
  BY DEF Above
<1>3. PICK i \in 0..Len(r) : q = SubSeq(r, 1, i)
  <2>1. CASE q = r
    BY <1>1, <2>1, SubSeqFull
  <2>2. CASE q \in Above(r)
    BY <1>1, <2>2 DEF Above
  <2> QED
    BY <2>1, <2>2 DEF Under
<1>4. Len(w) = j /\ Len(q) = i
  BY <1>1, <1>2, <1>3, SubSeqProperties
<1>5. CASE i < j
  <2>1. SubSeq(w, 1, i) = q /\ i \in 0..(Len(w) - 1)
    BY <1>1, <1>2, <1>3, <1>4, <1>5
  <2> QED
    BY <2>1 DEF Under, Above
<1>6. CASE i = j
  BY <1>2, <1>3, <1>6 DEF Under
<1>7. CASE j < i
  <2>1. SubSeq(q, 1, j) = w /\ j \in 0..(Len(q) - 1)
    BY <1>1, <1>2, <1>3, <1>4, <1>7
  <2> QED
    BY <2>1 DEF Above
<1> QED
  BY <1>2, <1>3, <1>5, <1>6, <1>7

\* Moving a node with all below it to where nothing is or over a file.
LEMMA MovedClosed ==
    ASSUME NEW t \in Tree, Closed(t), NEW p \in Path, NEW q \in Path \ {<<>>},
           t[Parent(q)] = Dir, Parent(q) \in Path, t[q] # Dir, ~Under(p, q)
    PROVE  Moved(t, p, q) \in Tree /\ Closed(Moved(t, p, q))
<1> DEFINE u == Moved(t, p, q)
<1>1. u \in Tree
  BY DEF Moved, Tree, Node
<1> SUFFICES ASSUME NEW r \in Path, u[r] # Absent, NEW w \in Above(r)
             PROVE  u[w] = Dir
  BY <1>1 DEF Closed
<1>2. w \in Path
  BY AboveType
<1>3. p \in Seq(STRING) /\ q \in Seq(STRING) /\ r \in Seq(STRING) /\ w \in Seq(STRING)
  BY <1>2, PathAssumption
<1>4. CASE Under(q, r) /\ Under(q, w)
  <2>1. PICK s \in Seq(STRING) : w = q \o s
    BY <1>3, <1>4, UnderIsConcat
  <2>2. PICK e \in Seq(STRING) : r = q \o e
    BY <1>3, <1>4, UnderIsConcat
  <2>3. Onto(q, p, w) = p \o s
    BY <1>3, <2>1, OntoConcat
  <2>4. Onto(q, p, r) = p \o e
    BY <1>3, <2>2, OntoConcat
  <2>5. p \o e \in Path /\ t[p \o e] # Absent
    BY <1>4, <2>4 DEF Moved
  <2>6. p \o s \in Above(p \o e)
    BY <1>3, <2>1, <2>2, AboveCarries
  <2>7. p \o s \in Path /\ t[p \o s] = Dir
    BY <2>5, <2>6, AboveType DEF Closed
  <2> QED
    BY <1>2, <1>4, <2>3, <2>7 DEF Moved
<1>5. CASE Under(q, r) /\ ~Under(q, w)
  <2>1. w \in Above(q)
    BY <1>5, AboveComparable
  <2>2. t[w] = Dir
    <3>1. w = Parent(q) \/ w \in Above(Parent(q))
      BY <2>1, AboveParent
    <3> QED
      BY <3>1, NodeAssumption DEF Closed
  <2>3. ~Under(p, w)
    BY <2>1, AboveTransitive DEF Under
  <2> QED
    BY <1>2, <1>5, <2>2, <2>3 DEF Moved
<1>6. CASE ~Under(q, r)
  <2>1. ~Under(p, r) /\ t[r] # Absent
    BY <1>6 DEF Moved
  <2>2. ~Under(q, w) /\ ~Under(p, w)
    BY <1>6, <2>1, AboveTransitive DEF Under
  <2>3. t[w] = Dir
    BY <2>1 DEF Closed
  <2> QED
    BY <1>2, <2>2, <2>3 DEF Moved
<1> QED
  BY <1>4, <1>5, <1>6
=============================================================================
