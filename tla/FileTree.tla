------------------------------ MODULE FileTree ------------------------------
(***************************************************************************)
(* One user's storage root on disk, as the POSIX calls of the storage      *)
(* handler see it: a tree of nodes named by paths.  A path is the sequence *)
(* of names below the root; <<>> is the root (/home/USER/storage) itself.  *)
(* A node is Absent, a directory (Dir) or a regular file, represented by   *)
(* its content.                                                            *)
(***************************************************************************)
EXTENDS Naturals, Sequences

CONSTANTS
    Path,       \* the paths that may occur, closed under prefixes
    NameOrder,  \* the order in which readdir_r() returns names
    Content,    \* the contents a file may have
    Empty,      \* the content of a file of length 0
    Absent,     \* no node
    Dir         \* a directory

ASSUME PathAssumption ==
    /\ <<>> \in Path
    /\ NameOrder \in Seq(STRING)
    /\ \A p \in Path :
         /\ p \in Seq(STRING)
         /\ \A i \in 0..Len(p) : SubSeq(p, 1, i) \in Path

ASSUME OrderAssumption ==
    \A p \in Path : \A i \in 1..Len(p) : \E j \in 1..Len(NameOrder) : p[i] = NameOrder[j]

\* The kernel takes no path longer than PATH_MAX.
ASSUME DepthAssumption ==
    \E longest \in Path : \A p \in Path : Len(p) <= Len(longest)

ASSUME NodeAssumption ==
    /\ Empty \in Content
    /\ Absent # Dir
    /\ Absent \notin Content
    /\ Dir \notin Content

Node == Content \cup {Absent, Dir}
Tree == [Path -> Node]

\* The proper prefixes of a path: the directories it lies in.
Above(p) == {SubSeq(p, 1, i) : i \in 0..(Len(p) - 1)}

\* The directory a path other than the root lies in.
Parent(p) == SubSeq(p, 1, Len(p) - 1)

\* The names of p's entries in tree t, in readdir_r() order.
Entries(t, p) ==
    LET found[i \in 0..Len(NameOrder)] ==   \* those among the first i names
          IF i = 0 THEN <<>>
          ELSE IF Append(p, NameOrder[i]) \in Path /\ t[Append(p, NameOrder[i])] # Absent
               THEN Append(found[i - 1], NameOrder[i])
               ELSE found[i - 1]
    IN  found[Len(NameOrder)]

\* p is a directory without entries.
EmptyDir(t, p) == t[p] = Dir /\ \A q \in Path : p \in Above(q) => t[q] = Absent

(***************************************************************************)
(* What mkdirat() for the missing parents, then open(O_CREAT | O_TRUNC)    *)
(* and write() leave behind.                                               *)
(***************************************************************************)
WithFile(t, p, c) ==
    [q \in Path |-> IF q = p THEN c ELSE IF q \in Above(p) THEN Dir ELSE t[q]]

(***************************************************************************)
(* The directories that unlinkat(AT_REMOVEDIR), called for the parent of   *)
(* p, then its parent and so on below the root until a call fails with     *)
(* ENOTEMPTY, removes once p is unlinked: those with nothing below them    *)
(* but p and p's own parents.                                              *)
(***************************************************************************)
Prunable(t, p) ==
    {q \in Above(p) \ {<<>>} :
        \A r \in Path : q \in Above(r) /\ t[r] # Absent => r = p \/ r \in Above(p)}

\* Bug: empty parents left behind.
WithoutFile_unpruned(t, p) == [t EXCEPT ![p] = Absent]

\* What unlink() of p and the removal of its empty parents leave behind.
WithoutFile(t, p) ==
    [q \in Path |-> IF q = p \/ q \in Prunable(t, p) THEN Absent ELSE t[q]]

(***************************************************************************)
(* What rename(p, q) leaves behind: what was at p, with all below it, is   *)
(* at q.                                                                   *)
(***************************************************************************)
Under(p, r) == r = p \/ p \in Above(r)

\* The path r, which is under p, once p is q.
Onto(p, q, r) == q \o SubSeq(r, Len(p) + 1, Len(r))

Moved(t, p, q) ==
    [r \in Path |->
        IF Under(q, r)
        THEN IF Onto(q, p, r) \in Path THEN t[Onto(q, p, r)] ELSE Absent
        ELSE IF Under(p, r) THEN Absent ELSE t[r]]

\* Every node lies in directories only: a document is never also a folder.
Closed(t) == \A p \in Path : t[p] # Absent => \A q \in Above(p) : t[q] = Dir
=============================================================================
