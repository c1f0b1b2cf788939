---------------------------- MODULE StorageProofs ---------------------------
(***************************************************************************)
(* Theorems about Storage, for every set of paths, contents and types.     *)
(***************************************************************************)
EXTENDS Storage, FileTreeProofs

\* TypeOK's second half, of one node's attributes.
MetaOK(m) ==
    /\ m = [etag |-> m.etag, mime |-> m.mime, charset |-> m.charset]
    /\ m.mime \in Mime \cup {Nil}
    /\ m.charset \in Charset \cup {Nil}

MetasOK(x) == /\ x = [p \in Path |-> x[p]]
              /\ \A p \in Path : MetaOK(x[p])

LEMMA TypeOKDef == TypeOK <=> fs \in Tree /\ MetasOK(xattr)
  BY DEF TypeOK, MetasOK, MetaOK

LEMMA NoMetaOK == MetaOK(NoMeta)
  BY DEF MetaOK, NoMeta

\* get_etag() sets no attribute but etags.
LEMMA SetEtagsFrame ==
    ASSUME NEW t, NEW x, NEW p, MetasOK(x)
    PROVE  /\ MetasOK(set_etags(t, x, p))
           /\ \A q \in Path : /\ set_etags(t, x, p)[q].mime = x[q].mime
                              /\ set_etags(t, x, p)[q].charset = x[q].charset
<1> DEFINE y == set_etags(t, x, p)
<1>1. y = [q \in Path |-> y[q]]
  BY DEF set_etags
<1>2. ASSUME NEW q \in Path
      PROVE  MetaOK(y[q]) /\ y[q].mime = x[q].mime /\ y[q].charset = x[q].charset
  <2> DEFINE e == get_etag(t, x, q)
  <2>1. y[q] = x[q] \/ y[q] = [x[q] EXCEPT !.etag = e]
    BY DEF set_etags
  <2>2. MetaOK(x[q])
    BY DEF MetasOK
  <2> HIDE DEF e, y
  <2> QED
    BY <2>1, <2>2 DEF MetaOK
<1> QED
  BY <1>1, <1>2 DEF MetasOK

\* What PUT stores is a type.
LEMMA ContentTypeToXattrOK ==
    ASSUME NEW m, MetaOK(m), NEW type \in ContentType
    PROVE  MetaOK(content_type_to_xattr(m, type))
<1> DEFINE mime    == type.mime
           charset == IF type.charset = Nil THEN UTF8 ELSE type.charset
<1>1. mime \in Mime /\ charset \in Charset
  BY TypeAssumption DEF ContentType
<1>2. content_type_to_xattr(m, type) = [m EXCEPT !.mime = mime, !.charset = charset]
  BY DEF content_type_to_xattr
<1> HIDE DEF mime, charset
<1>3. content_type_to_xattr(m, type) = [etag |-> m.etag, mime |-> mime, charset |-> charset]
  BY <1>2 DEF MetaOK
<1> QED
  BY <1>1, <1>3 DEF MetaOK

-----------------------------------------------------------------------------
(***************************************************************************)
(* Each handler's effect on the disk: none, the creation of a file where   *)
(* no document is in the way, or the removal of a document.                *)
(***************************************************************************)
IInv == TypeOK /\ TreeClosed

Stored(r) ==
    /\ r.path \in Path /\ r.body \in Content
    /\ \A q \in Above(r.path) : fs[q] \notin Content
    /\ fs[r.path] # Dir
    /\ fs' = WithFile(fs, r.path, r.body)

Deleted(r) ==
    /\ r.path \in Path
    /\ fs[r.path] \in Content
    /\ fs' = WithoutFile(fs, r.path)

LEMMA TouchedOK ==
    ASSUME NEW p, MetasOK(xattr)
    PROVE  /\ MetasOK(Touched(p))
           /\ \A q \in Path : /\ Touched(p)[q].mime = xattr[q].mime
                              /\ Touched(p)[q].charset = xattr[q].charset
  BY SetEtagsFrame DEF Touched

\* GET and HEAD leave the tree and the types as they are.
LEMMA GetOrHeadFrame ==
    ASSUME NEW r, MetasOK(xattr), handle_get_or_head(r)
    PROVE  /\ fs' = fs /\ MetasOK(xattr')
           /\ \A q \in Path : /\ xattr'[q].mime = xattr[q].mime
                              /\ xattr'[q].charset = xattr[q].charset
           /\ reply'.request = r
  BY TouchedOK DEF handle_get_or_head, get_not_found, serve_directory,
                   not_modified, serve_file_head, Refuse, Answer

SameType(q) == xattr'[q].mime = xattr[q].mime /\ xattr'[q].charset = xattr[q].charset

\* A request that is refused, and one that only reads.
Unchanged == fs' = fs /\ \A q \in Path : SameType(q)

LEMMA MatchedOK ==
    ASSUME NEW p, NEW im, MetasOK(xattr)
    PROVE  /\ MetasOK(Matched(p, im))
           /\ \A q \in Path : /\ Matched(p, im)[q].mime = xattr[q].mime
                              /\ Matched(p, im)[q].charset = xattr[q].charset
  BY TouchedOK DEF Matched

\* A PUT that is not refused stores its document and that document's type.
LEMMA PutDocumentEffect ==
    ASSUME NEW r, r.path \in Path, r.body \in Content, r.type \in Type \cup {Nil},
           MetasOK(xattr),
           ~non_directory_parent(r.path), ~cannot_open(r.path),
           put_document(r)
    PROVE  /\ Stored(r)
           /\ MetasOK(xattr')
           /\ \A q \in Path \ {r.path} : SameType(q)
           /\ reply'.request = r
           /\ reply'.status \in {200, 201}
<1> DEFINE sent    == IF r.type = Nil THEN OctetStream ELSE r.type
           matched == Matched(r.path, r.ifMatch)
           meta    == content_type_to_xattr(matched[r.path], sent)
           stored  == [matched EXCEPT ![r.path] = meta]
<1>1. /\ fs' = WithFile(fs, r.path, r.body)
      /\ xattr' = set_etags(fs', stored, r.path)
      /\ reply'.request = r /\ reply'.status \in {200, 201}
  BY DEF put_document, Answer
<1>2. Stored(r)
  BY <1>1 DEF Stored, non_directory_parent, cannot_open
<1>3. /\ MetasOK(stored)
      /\ \A q \in Path \ {r.path} : stored[q] = matched[q]
  <2>1. sent \in ContentType
    BY TypeAssumption, StorageAssumption DEF ContentType
  <2>2. MetaOK(meta)
    BY <2>1, MatchedOK, ContentTypeToXattrOK DEF MetasOK
  <2> HIDE DEF meta
  <2> QED
    BY <2>2, MatchedOK DEF MetasOK
<1> HIDE DEF stored
<1>4. /\ MetasOK(xattr')
      /\ \A q \in Path \ {r.path} : SameType(q)
  BY <1>1, <1>3, SetEtagsFrame, MatchedOK DEF SameType
<1> QED
  BY <1>1, <1>2, <1>4

LEMMA PutEffect ==
    ASSUME NEW p \in Path, NEW im, NEW inm, NEW c \in Content,
           NEW type \in Type \cup {Nil}, MetasOK(xattr),
           storage_handle_put(p, im, inm, c, type)
    PROVE  LET r == Request("PUT", p, FALSE, im, inm, c, type) IN
           /\ MetasOK(xattr')
           /\ reply'.request = r
           /\ \/ Unchanged
              \/ /\ Stored(r) /\ reply'.status \in {200, 201}
                 /\ \A q \in Path \ {p} : SameType(q)
<1> DEFINE r == Request("PUT", p, FALSE, im, inm, c, type)
<1> DEFINE Goal == /\ MetasOK(xattr')
                   /\ reply'.request = r
                   /\ \/ Unchanged
                      \/ /\ Stored(r) /\ reply'.status \in {200, 201}
                         /\ \A q \in Path \ {p} : SameType(q)
<1> SUFFICES Goal
  OBVIOUS
<1>1. ASSUME ~non_directory_parent(p), ~cannot_open(p), put_document(r)
      PROVE  Goal
  <2>1. r.path = p /\ r.body = c /\ r.type = type
    BY DEF Request
  <2> HIDE DEF r
  <2>2. /\ Stored(r) /\ MetasOK(xattr')
        /\ \A q \in Path \ {r.path} : SameType(q)
        /\ reply'.request = r
        /\ reply'.status \in {200, 201}
    BY <1>1, <2>1, PutDocumentEffect
  <2> QED
    BY <2>1, <2>2
<1>2. ASSUME NEW status, Refuse(r, status), xattr' = Matched(p, im)
      PROVE  Goal
  <2>1. fs' = fs /\ reply'.request = r
    BY <1>2 DEF Refuse, Answer
  <2>2. MetasOK(xattr') /\ \A q \in Path : SameType(q)
    BY <1>2, MatchedOK DEF SameType
  <2> QED
    BY <2>1, <2>2 DEF Unchanged
<1> HIDE DEF Goal
<1> QED
  BY <1>1, <1>2 DEF storage_handle_put

LEMMA DeleteEffect ==
    ASSUME NEW p \in Path, NEW im, MetasOK(xattr), fs \in Tree,
           storage_handle_delete(p, im)
    PROVE  LET r == Request("DELETE", p, FALSE, im, Nil, Nil, Nil) IN
           /\ MetasOK(xattr')
           /\ reply'.request = r
           /\ \/ Unchanged
              \/ /\ Deleted(r) /\ reply'.status = 200
                 /\ \A q \in Path : fs'[q] # Absent => SameType(q)
<1> DEFINE r == Request("DELETE", p, FALSE, im, Nil, Nil, Nil)
<1> DEFINE Goal == /\ MetasOK(xattr')
                   /\ reply'.request = r
                   /\ \/ Unchanged
                      \/ /\ Deleted(r) /\ reply'.status = 200
                         /\ \A q \in Path : fs'[q] # Absent => SameType(q)
<1> SUFFICES Goal
  OBVIOUS
<1>1. ASSUME fs[p] \in Content, delete_document(r)
      PROVE  Goal
  <2>1. r.path = p
    BY DEF Request
  <2> HIDE DEF r
  <2>2. /\ Deleted(r) /\ reply'.request = r /\ reply'.status = 200
        /\ \A q \in Path : fs'[q] # Absent => SameType(q)
    BY <1>1, <2>1 DEF delete_document, Deleted, Answer, SameType
  <2>3. MetasOK(xattr')
    BY <1>1, NoMetaOK DEF delete_document, MetasOK
  <2> QED
    BY <2>2, <2>3
<1>2. ASSUME NEW status, Refuse(r, status), xattr' = xattr \/ xattr' = Touched(p)
      PROVE  Goal
  <2>1. fs' = fs /\ reply'.request = r
    BY <1>2 DEF Refuse, Answer
  <2>2. MetasOK(xattr') /\ \A q \in Path : SameType(q)
    BY <1>2, TouchedOK DEF SameType
  <2> QED
    BY <2>1, <2>2 DEF Unchanged
<1> HIDE DEF Goal
<1> QED
  BY <1>1, <1>2 DEF storage_handle_delete

\* A node made where its parent is a directory, in place of no node or of a
\* document, leaves the tree closed; so does taking away a node with
\* nothing below it.
LEMMA EditClosed ==
    ASSUME NEW p \in Path, NEW n \in Node, fs \in Tree, TreeClosed,
           fs' = [fs EXCEPT ![p] = n],
           \/ /\ p # <<>> => fs[Parent(p)] = Dir
              /\ fs[p] # Dir
           \/ n = Absent /\ (fs[p] \in Content \/ EmptyDir(fs, p))
    PROVE  fs' \in Tree /\ TreeClosed'
<1>1. fs' \in Tree
  BY DEF Tree
<1> SUFFICES ASSUME NEW r \in Path, fs'[r] # Absent, NEW q \in Above(r)
             PROVE  fs'[q] = Dir
  BY <1>1 DEF TreeClosed, Closed
<1>2. q \in Path /\ q # r
  BY AboveType
<1>3. CASE r = p
  <2>1. p # <<>>
    BY <1>3 DEF Above
  <2>2. Parent(p) \in Path
    BY <2>1, PathAssumption, LenProperties DEF Parent
  <2>3. fs[Parent(p)] = Dir
    BY <1>3, <2>1 DEF Tree
  <2>4. fs[q] = Dir
    BY <1>3, <2>2, <2>3, AboveParent, NodeAssumption DEF TreeClosed, Closed
  <2> QED
    BY <1>2, <1>3, <2>4 DEF Tree
<1>4. CASE r # p
  <2>1. fs[r] # Absent /\ fs[q] = Dir
    BY <1>4 DEF Tree, TreeClosed, Closed
  <2>2. q # p
    BY <2>1, NodeAssumption DEF EmptyDir
  <2> QED
    BY <1>2, <2>1, <2>2 DEF Tree
<1> QED
  BY <1>3, <1>4

-----------------------------------------------------------------------------
(***************************************************************************)
(* What one step may do, whichever handler or edit it is.                  *)
(***************************************************************************)
Served == /\ \/ Unchanged
             \/ /\ Stored(reply'.request) /\ reply'.status \in {200, 201}
                /\ reply'.request.method = "PUT"
                /\ \A q \in Path \ {Target} : SameType(q)
             \/ /\ Deleted(reply'.request) /\ reply'.status = 200
                /\ reply'.request.method = "DELETE"
                /\ \A q \in Path : fs'[q] # Absent => SameType(q)

Edited == /\ OutOfBand /\ reply' = NoReply
          /\ fs' \in Tree /\ TreeClosed'

LEMMA NextEffect ==
    ASSUME IInv, Next
    PROVE  MetasOK(xattr') /\ (Served \/ Edited)
<1> USE TypeOKDef DEF IInv
<1>1. ASSUME NEW p \in Path, NEW folder \in BOOLEAN, NEW inm,
             storage_handle_get(p, folder, inm)
      PROVE  MetasOK(xattr') /\ Served
  BY <1>1, GetOrHeadFrame DEF storage_handle_get, Served, Unchanged, SameType
<1>2. ASSUME NEW p \in Path, NEW folder \in BOOLEAN, NEW inm,
             storage_handle_head(p, folder, inm)
      PROVE  MetasOK(xattr') /\ Served
  <2>1. CASE xattr' = xattr /\ fs' = fs
    BY <2>1 DEF Served, Unchanged, SameType
  <2>2. ASSUME NEW r, handle_get_or_head(r)
        PROVE  MetasOK(xattr') /\ Served
    BY <2>2, GetOrHeadFrame DEF Served, Unchanged, SameType
  <2> QED
    BY <1>2, <2>1, <2>2 DEF storage_handle_head, Refuse
<1>3. ASSUME NEW p, NEW method, refuse_folder(method, p)
      PROVE  MetasOK(xattr') /\ Served
  BY <1>3 DEF refuse_folder, Refuse, Served, Unchanged, SameType
<1>4. ASSUME NEW p \in Path, NEW im, NEW inm, NEW c \in Content,
             NEW type \in Type \cup {Nil},
             storage_handle_put(p, im, inm, c, type)
      PROVE  MetasOK(xattr') /\ Served
  <2> DEFINE r == Request("PUT", p, FALSE, im, inm, c, type)
  <2>1. r.method = "PUT" /\ r.path = p
    BY DEF Request
  <2> HIDE DEF r
  <2>2. /\ MetasOK(xattr')
        /\ reply'.request = r
        /\ \/ Unchanged
           \/ /\ Stored(r) /\ reply'.status \in {200, 201}
              /\ \A q \in Path \ {p} : SameType(q)
    BY <1>4, PutEffect DEF r
  <2> QED
    BY <2>1, <2>2 DEF Served, Target
<1>5. ASSUME NEW p \in Path, NEW im, storage_handle_delete(p, im)
      PROVE  MetasOK(xattr') /\ Served
  <2> DEFINE r == Request("DELETE", p, FALSE, im, Nil, Nil, Nil)
  <2>1. r.method = "DELETE"
    BY DEF Request
  <2> HIDE DEF r
  <2>2. /\ MetasOK(xattr')
        /\ reply'.request = r
        /\ \/ Unchanged
           \/ /\ Deleted(r) /\ reply'.status = 200
              /\ \A q \in Path : fs'[q] # Absent => SameType(q)
    BY <1>5, DeleteEffect DEF r
  <2> QED
    BY <2>1, <2>2 DEF Served
<1>6. ASSUME NEW p \in Path, NEW c \in Content, NEW inPlace, OobWrite(p, c, inPlace)
      PROVE  MetasOK(xattr') /\ Edited
  <2>1. MetasOK(xattr')
    BY <1>6, NoMetaOK DEF OobWrite, MetasOK
  <2>2. c \in Node
    BY DEF Node
  <2> QED
    BY <1>6, <2>1, <2>2, EditClosed DEF OobWrite, OobStep, Edited
<1>7. ASSUME NEW p \in Path, OobMkdir(p)
      PROVE  MetasOK(xattr') /\ Edited
  <2>1. Dir \in Node
    BY DEF Node
  <2> QED
    BY <1>7, <2>1, EditClosed, NodeAssumption DEF OobMkdir, OobStep, Edited
<1>8. ASSUME NEW p \in Path, OobRemove(p)
      PROVE  MetasOK(xattr') /\ Edited
  <2>1. MetasOK(xattr')
    BY <1>8, NoMetaOK DEF OobRemove, MetasOK
  <2>2. Absent \in Node
    BY DEF Node
  <2> QED
    BY <1>8, <2>1, <2>2, EditClosed DEF OobRemove, OobStep, Edited
<1> QED
  BY <1>1, <1>2, <1>3, <1>4, <1>5, <1>6, <1>7, <1>8 DEF Next, Document

\* The inductive invariant: TypeOK gives the lemmas about trees their domain,
\* TreeClosed the absence of documents above documents.
LEMMA InitIInv == Init => IInv
<1> SUFFICES ASSUME Init
             PROVE  IInv
  OBVIOUS
<1>1. MetasOK(xattr)
  BY NoMetaOK DEF Init, MetasOK
<1>2. fs \in Tree
  BY DEF Init, Tree, Node
<1>3. TreeClosed
  <2> SUFFICES ASSUME NEW r \in Path, fs[r] # Absent
               PROVE  \A q \in Above(r) : fs[q] = Dir
    BY DEF TreeClosed, Closed
  <2>1. r = <<>>
    BY DEF Init
  <2> QED
    BY <2>1 DEF Above
<1> QED
  BY <1>1, <1>2, <1>3, TypeOKDef DEF IInv

LEMMA NextIInv == IInv /\ [Next]_vars => IInv'
<1> SUFFICES ASSUME IInv, [Next]_vars
             PROVE  IInv'
  OBVIOUS
<1>1. (TypeOK <=> fs \in Tree /\ MetasOK(xattr))'
  BY TypeOKDef, PTL
<1>2. fs \in Tree /\ TreeClosed
  BY TypeOKDef DEF IInv
<1>3. CASE UNCHANGED vars
  BY <1>3 DEF IInv, TypeOK, TreeClosed, vars
<1>4. CASE Next
  <2>1. MetasOK(xattr') /\ (Served \/ Edited)
    BY <1>4, NextEffect
  <2>2. CASE fs' = fs
    BY <1>1, <1>2, <2>1, <2>2 DEF IInv, TreeClosed
  <2>3. ASSUME NEW r, Stored(r)
        PROVE  fs' \in Tree /\ TreeClosed'
    BY <1>2, <2>3, WithFileClosed DEF Stored, TreeClosed
  <2>4. ASSUME NEW r, Deleted(r)
        PROVE  fs' \in Tree /\ TreeClosed'
    BY <1>2, <2>4, WithoutFileClosed DEF Deleted, TreeClosed
  <2> QED
    BY <1>1, <2>1, <2>2, <2>3, <2>4 DEF IInv, Served, Unchanged, Edited
<1> QED
  BY <1>3, <1>4

\* The disk is always a tree of nodes with attributes of the known types.
THEOREM TypeCorrect == Spec => []TypeOK
  BY InitIInv, NextIInv, PTL DEF Spec, IInv

\* No request and no edit ever puts a document below a document, or leaves
\* one without the directories it lies in.
THEOREM TreeStaysClosed == Spec => []TreeClosed
  BY InitIInv, NextIInv, PTL DEF Spec, IInv

-----------------------------------------------------------------------------
(***************************************************************************)
(* Theorems about steps.                                                   *)
(***************************************************************************)

\* A step of the server is a served request.
LEMMA ServedStep ==
    ASSUME IInv, [Next]_vars, Serves(Methods)
    PROVE  Served
<1>1. CASE Next
  <2>1. Served \/ Edited
    BY <1>1, NextEffect
  <2>2. ~Edited
    BY DEF Edited, Serves, Methods, NoReply, NoRequest, Request
  <2> QED
    BY <2>1, <2>2
<1>2. CASE UNCHANGED vars
  BY <1>2 DEF vars, Served, Unchanged, SameType
<1> QED
  BY <1>1, <1>2

\* No request leaves behind an empty directory that it did not find.
THEOREM NoEmptyFolderIsLeft == Spec => NoEmptyFolderLeft
<1> DEFINE Step == Serves(Methods) =>
                     \A p \in Path \ {<<>>} : EmptyDir(fs', p) => EmptyDir(fs, p)
<1>1. ASSUME IInv, [Next]_vars
      PROVE  Step
  <2> SUFFICES ASSUME Serves(Methods), NEW p \in Path \ {<<>>}, EmptyDir(fs', p)
               PROVE  EmptyDir(fs, p)
    OBVIOUS
  <2>1. fs \in Tree /\ Closed(fs)
    BY <1>1, TypeOKDef DEF IInv, TreeClosed
  <2>2. ASSUME NEW r, Stored(r)
        PROVE  EmptyDir(fs, p)
    BY <2>1, <2>2, WithFileLeavesNoEmptyDir DEF Stored
  <2>3. ASSUME NEW r, Deleted(r)
        PROVE  EmptyDir(fs, p)
    BY <2>1, <2>3, WithoutFileLeavesNoEmptyDir DEF Deleted
  <2>4. CASE Unchanged
    BY <2>4 DEF Unchanged
  <2> QED
    BY <1>1, <2>2, <2>3, <2>4, ServedStep DEF Served
<1> QED
  BY <1>1, InitIInv, NextIInv, PTL DEF Spec, NoEmptyFolderLeft, Step

\* A request changes no document but its target, in content or in type.
THEOREM OnlyTheTargetChanges == Spec => OnlyTargetChanges
<1> DEFINE Frame(p) ==
             \/ p = Target /\ Serves({"PUT", "DELETE"}) /\ Succeeds
             \/ {fs[p], fs'[p]} \cap Content = {}
             \/ /\ fs'[p] = fs[p]
                /\ served_type(fs', xattr', p) = served_type(fs, xattr, p)
           Step == Serves(Methods) => \A p \in Path : Frame(p)
<1>1. ASSUME IInv, [Next]_vars
      PROVE  Step
  <2> SUFFICES ASSUME Serves(Methods), NEW p \in Path
               PROVE  Frame(p)
    OBVIOUS
  <2>1. fs \in Tree /\ Closed(fs)
    BY <1>1, TypeOKDef DEF IInv, TreeClosed
  <2>2. SameType(p) /\ fs'[p] = fs[p] => Frame(p)
    BY DEF SameType, served_type, content_type_from_xattr
  <2>3. CASE Unchanged
    BY <2>2, <2>3 DEF Unchanged
  <2>4. CASE /\ Stored(reply'.request) /\ reply'.status \in {200, 201}
             /\ reply'.request.method = "PUT"
             /\ \A q \in Path \ {Target} : SameType(q)
    <3>1. CASE p = Target
      BY <2>4, <3>1 DEF Serves, Succeeds
    <3>2. CASE p # Target /\ {fs[p], fs'[p]} \cap Content # {}
      <4>1. fs'[p] = fs[p]
        BY <2>1, <2>4, <3>2, WithFileFrame DEF Stored, Target
      <4> QED
        BY <2>2, <2>4, <3>2, <4>1
    <3> QED
      BY <3>1, <3>2
  <2>5. CASE /\ Deleted(reply'.request) /\ reply'.status = 200
             /\ reply'.request.method = "DELETE"
             /\ \A q \in Path : fs'[q] # Absent => SameType(q)
    <3>1. CASE p = Target
      BY <2>5, <3>1 DEF Serves, Succeeds
    <3>2. CASE p # Target /\ {fs[p], fs'[p]} \cap Content # {}
      <4>1. fs'[p] = fs[p]
        BY <2>1, <2>5, <3>2, WithoutFileFrame DEF Deleted, Target
      <4>2. fs'[p] # Absent
        BY <3>2, <4>1, NodeAssumption
      <4> QED
        BY <2>2, <2>5, <4>1, <4>2
    <3> QED
      BY <3>1, <3>2
  <2> QED
    BY <1>1, <2>3, <2>4, <2>5, ServedStep DEF Served
<1> QED
  BY <1>1, InitIInv, NextIInv, PTL DEF Spec, OnlyTargetChanges, Frame, Step

-----------------------------------------------------------------------------
(***************************************************************************)
(* Conditional writes.  They rest on get_etag() never going by an etag it  *)
(* stored earlier: the buffer sizes get_xattr() tries below 41 bytes hold  *)
(* no 40 byte etag.                                                        *)
(***************************************************************************)
LEMMA NoCachedEtag ==
    ASSUME NEW m
    PROVE  cached_etag(m) = Nil
<1>1. BufferSizes(EtagLen + 1) = {32}
  BY DEF BufferSizes, EtagLen
<1>2. ~ \E n \in BufferSizes(EtagLen + 1) : EtagLen <= n
  BY <1>1 DEF EtagLen
<1> QED
  BY <1>2 DEF cached_etag, get_xattr

LEMMA DocumentEtag ==
    ASSUME NEW p \in Path, fs[p] \in Content
    PROVE  Etag(p) = FileDigest(fs[p])
  BY NoCachedEtag, NodeAssumption DEF Etag, get_etag, node_etag

LEMMA RefuseStatus ==
    ASSUME NEW r, NEW status, Refuse(r, status)
    PROVE  reply'.request = r /\ reply'.status = status
  BY DEF Refuse, Answer

WriteOK == /\ Succeeds => Holds(reply'.request)
           /\ reply'.status = 412 => ~Holds(reply'.request)

LEMMA PutWriteOK ==
    ASSUME IInv, NEW p \in Path, NEW im, NEW inm \in {Nil, Star},
           NEW c \in Content, NEW type \in Type \cup {Nil},
           storage_handle_put(p, im, inm, c, type)
    PROVE  WriteOK
<1> DEFINE r == Request("PUT", p, FALSE, im, inm, c, type)
<1>1. r.path = p /\ r.ifMatch = im /\ r.ifNoneMatch = inm
  BY DEF Request
<1>2. fs \in Tree
  BY TypeOKDef DEF IInv
<1> HIDE DEF r
<1>3. CASE put_fails_precondition(p, im, inm) /\ Refuse(r, 412)
  <2>1. ~Holds(r)
    BY <1>1, <1>3, DocumentEtag, NodeAssumption, StorageAssumption
       DEF put_fails_precondition, Holds
  <2> QED
    BY <1>3, <2>1, RefuseStatus DEF WriteOK, Succeeds
<1>4. CASE Refuse(r, 400) \/ Refuse(r, 500)
  BY <1>4, RefuseStatus DEF WriteOK, Succeeds
<1>5. CASE ~put_fails_precondition(p, im, inm) /\ ~cannot_open(p) /\ put_document(r)
  <2>1. fs[p] # Absent => fs[p] \in Content
    BY <1>2, <1>5 DEF cannot_open, Tree, Node
  <2>2. Holds(r)
    BY <1>1, <1>5, <2>1, DocumentEtag DEF put_fails_precondition, Holds
  <2>3. reply'.request = r /\ reply'.status \in {200, 201}
    BY <1>5 DEF put_document, Answer
  <2> QED
    BY <2>2, <2>3 DEF WriteOK
<1> QED
  BY <1>3, <1>4, <1>5 DEF storage_handle_put, r

LEMMA DeleteWriteOK ==
    ASSUME NEW p \in Path, NEW im, storage_handle_delete(p, im)
    PROVE  WriteOK
<1> DEFINE r == Request("DELETE", p, FALSE, im, Nil, Nil, Nil)
<1>1. r.path = p /\ r.ifMatch = im /\ r.ifNoneMatch = Nil
  BY DEF Request
<1> HIDE DEF r
<1>2. CASE fs[p] \in Content /\ im # Nil /\ im # Etag(p) /\ Refuse(r, 412)
  <2>1. ~Holds(r)
    BY <1>1, <1>2, DocumentEtag DEF Holds
  <2> QED
    BY <1>2, <2>1, RefuseStatus DEF WriteOK, Succeeds
<1>3. CASE Refuse(r, 400) \/ Refuse(r, 404)
  BY <1>3, RefuseStatus DEF WriteOK, Succeeds
<1>4. CASE fs[p] \in Content /\ (im = Nil \/ im = Etag(p)) /\ delete_document(r)
  <2>1. Holds(r)
    BY <1>1, <1>4, DocumentEtag DEF Holds
  <2>2. reply'.request = r /\ reply'.status = 200
    BY <1>4 DEF delete_document, Answer
  <2> QED
    BY <2>1, <2>2 DEF WriteOK
<1> QED
  BY <1>2, <1>3, <1>4 DEF storage_handle_delete, r

\* No lost update: conditional writes succeed exactly on what they expect.
THEOREM NoLostUpdate == Spec => ConditionalWrite
<1> DEFINE Step == Serves({"PUT", "DELETE"}) => WriteOK
<1>1. ASSUME IInv, Next
      PROVE  Step
  <2>1. ASSUME NEW r, reply'.request = r, r.method \in {"GET", "HEAD", "none"}
        PROVE  Step
    BY <2>1 DEF Serves
  <2>2. ASSUME NEW p \in Path, NEW folder \in BOOLEAN, NEW inm,
               \/ storage_handle_get(p, folder, inm)
               \/ storage_handle_head(p, folder, inm)
        PROVE  Step
    <3> DEFINE get  == Request("GET", p, folder, Nil, inm, Nil, Nil)
               head == Request("HEAD", p, folder, Nil, inm, Nil, Nil)
    <3>1. get.method = "GET" /\ head.method = "HEAD"
      BY DEF Request
    <3> HIDE DEF get, head
    <3>2. \/ handle_get_or_head(get)
          \/ handle_get_or_head(head)
          \/ Refuse(head, 405)
      BY <2>2 DEF storage_handle_get, storage_handle_head, get, head
    <3>3. reply'.request \in {get, head}
      BY <1>1, <3>2, GetOrHeadFrame, RefuseStatus, TypeOKDef DEF IInv
    <3> QED
      BY <2>1, <3>1, <3>3
  <2>3. ASSUME NEW p, NEW method, refuse_folder(method, p)
        PROVE  Step
    <3>1. PICK r : Refuse(r, 400)
      BY <2>3 DEF refuse_folder
    <3> QED
      BY <3>1, RefuseStatus DEF WriteOK, Succeeds
  <2>4. ASSUME OobStep
        PROVE  Step
    BY <2>4 DEF OobStep, NoReply, NoRequest, Request, Serves
  <2>5. WriteOK => Step
    OBVIOUS
  <2> HIDE DEF Step
  <2> QED
    BY <1>1, <2>2, <2>3, <2>4, <2>5, PutWriteOK, DeleteWriteOK
       DEF Next, Document, OobWrite, OobMkdir, OobRemove
<1> QED
  BY <1>1, InitIInv, NextIInv, PTL DEF Spec, ConditionalWrite, Step, WriteOK

-----------------------------------------------------------------------------
(***************************************************************************)
(* What a PUT stores can be served.                                        *)
(***************************************************************************)
\* get_xattr() reads what fits its largest buffer, and the limits of types
\* and charsets are such sizes.
LEMMA TypesAreRead ==
    ASSUME NEW m, NEW type \in ContentType, Fits(type), type.charset # Nil,
           m.mime = type.mime, m.charset = type.charset
    PROVE  content_type_from_xattr(m) = type
<1>1. type.mime \in Mime /\ type.charset \in Charset /\ type.mime # Nil
  BY TypeAssumption DEF ContentType
<1>2. 128 \in BufferSizes(128) /\ 64 \in BufferSizes(64)
  BY DEF BufferSizes
<1>3. MimeSize[type.mime] + 1 <= 128 /\ CharsetSize[type.charset] + 1 <= 64
  BY <1>1, TypeAssumption DEF Fits
<1>4. /\ get_xattr(m.mime, MimeSize[m.mime] + 1, 128) = type.mime
      /\ get_xattr(m.charset, CharsetSize[m.charset] + 1, 64) = type.charset
  BY <1>2, <1>3 DEF get_xattr
<1>5. content_type_from_xattr(m) = [mime |-> type.mime, charset |-> type.charset]
  BY <1>1, <1>4 DEF content_type_from_xattr
<1> QED
  BY <1>5 DEF ContentType

\* A served type is one.
LEMMA ServedTypeOK ==
    ASSUME NEW t, NEW x, NEW p \in Path, MetasOK(x), t[p] \in Content
    PROVE  served_type(t, x, p) \in ContentType
<1>1. Magic[t[p]] \in ContentType
  BY TypeAssumption DEF ContentType
<1>2. x[p].mime \in Mime \cup {Nil} /\ x[p].charset \in Charset \cup {Nil}
  BY DEF MetasOK, MetaOK
<1>3. content_type_from_xattr(x[p]) \in ContentType \cup {Nil}
  BY <1>2 DEF content_type_from_xattr, get_xattr, ContentType
<1> QED
  BY <1>1, <1>3 DEF served_type

\* The type a PUT that is not refused stores with its document.
LEMMA PutType ==
    ASSUME NEW r, r.path \in Path, r.type \in Type \cup {Nil}, MetasOK(xattr), put_document(r)
    PROVE  LET sent == IF r.type = Nil THEN OctetStream ELSE r.type
           IN  /\ sent \in ContentType
               /\ xattr'[r.path].mime = sent.mime
               /\ xattr'[r.path].charset = IF sent.charset = Nil THEN UTF8 ELSE sent.charset
<1> DEFINE sent    == IF r.type = Nil THEN OctetStream ELSE r.type
           matched == Matched(r.path, r.ifMatch)
           meta    == content_type_to_xattr(matched[r.path], sent)
           stored  == [matched EXCEPT ![r.path] = meta]
<1>1. sent \in ContentType
  BY TypeAssumption, StorageAssumption DEF ContentType
<1>2. xattr' = set_etags(fs', stored, r.path)
  BY DEF put_document
<1>3. /\ meta.mime = sent.mime
      /\ meta.charset = IF sent.charset = Nil THEN UTF8 ELSE sent.charset
      /\ MetaOK(meta)
  <2>1. MetaOK(matched[r.path])
    BY MatchedOK DEF MetasOK
  <2> HIDE DEF matched, sent
  <2>2. MetaOK(meta)
    BY <1>1, <2>1, ContentTypeToXattrOK
  <2> QED
    BY <2>1, <2>2 DEF content_type_to_xattr, MetaOK
<1>4. MetasOK(stored) /\ stored[r.path] = meta
  <2> HIDE DEF meta
  <2> QED
    BY <1>3, MatchedOK DEF MetasOK
<1> HIDE DEF stored
<1>5. xattr'[r.path].mime = meta.mime /\ xattr'[r.path].charset = meta.charset
  BY <1>2, <1>4, SetEtagsFrame
<1> QED
  BY <1>1, <1>3, <1>5

PutOK ==
    Succeeds =>
         LET sent == IF reply'.request.type = Nil THEN OctetStream ELSE reply'.request.type
             type == [sent EXCEPT !.charset = IF @ = Nil THEN UTF8 ELSE @]
         IN  /\ fs'[Target] = reply'.request.body
             /\ Fits(type) => served_type(fs', xattr', Target) = type

LEMMA PutStores ==
    ASSUME IInv, NEW p \in Document, NEW im, NEW inm, NEW c \in Content, NEW type \in Type \cup {Nil},
           storage_handle_put(p, im, inm, c, type)
    PROVE  PutOK
<1> DEFINE r == Request("PUT", p, FALSE, im, inm, c, type)
<1>1. r.path = p /\ r.body = c /\ r.type = type /\ p \in Path
  BY DEF Request, Document
<1> HIDE DEF r
<1>2. ASSUME NEW status \in {400, 412, 500}, Refuse(r, status) PROVE PutOK
  BY <1>2, RefuseStatus DEF PutOK, Succeeds
<1>3. CASE put_document(r)
  <2> DEFINE sent == IF type = Nil THEN OctetStream ELSE type
             full == [sent EXCEPT !.charset = IF @ = Nil THEN UTF8 ELSE @]
  <2>1. /\ sent \in ContentType
        /\ xattr'[p].mime = sent.mime
        /\ xattr'[p].charset = IF sent.charset = Nil THEN UTF8 ELSE sent.charset
    BY <1>1, <1>3, PutType, TypeOKDef DEF IInv
  <2>2. reply'.request = r /\ fs'[p] = c
    BY <1>1, <1>3 DEF put_document, Answer, WithFile
  <2> HIDE DEF sent
  <2>3. /\ full \in ContentType /\ full.charset # Nil
        /\ full.mime = xattr'[p].mime /\ full.charset = xattr'[p].charset
    BY <2>1, TypeAssumption DEF ContentType
  <2> HIDE DEF full
  <2>4. ASSUME Fits(full) PROVE served_type(fs', xattr', p) = full
    <3>1. content_type_from_xattr(xattr'[p]) = full
      BY <2>3, <2>4, TypesAreRead
    <3>2. full # Nil
      BY <2>3, TypeAssumption
    <3> QED
      BY <3>1, <3>2 DEF served_type
  <2>5. LET given == IF reply'.request.type = Nil THEN OctetStream ELSE reply'.request.type
        IN  [given EXCEPT !.charset = IF @ = Nil THEN UTF8 ELSE @] = full
    BY <1>1, <2>2 DEF full, sent
  <2>6. Target = p /\ reply'.request.body = c
    BY <1>1, <2>2 DEF Target
  <2> QED
    BY <2>2, <2>4, <2>5, <2>6 DEF PutOK
<1>4. Refuse(r, 412) \/ Refuse(r, 400) \/ Refuse(r, 500) \/ put_document(r)
  BY DEF storage_handle_put, r
<1> QED
  BY <1>2, <1>3, <1>4

\* Only the handler of PUT answers one with success.
LEMMA PutSteps ==
    ASSUME IInv, Next, Serves({"PUT"}), Succeeds
    PROVE  \E p \in Document : \E im, inm : \E c \in Content, type \in Type \cup {Nil} :
              storage_handle_put(p, im, inm, c, type)
<1>1. ASSUME NEW p \in Path, NEW folder \in BOOLEAN, NEW inm,
             storage_handle_get(p, folder, inm) \/ storage_handle_head(p, folder, inm)
      PROVE  FALSE
  <2> DEFINE get  == Request("GET", p, folder, Nil, inm, Nil, Nil)
             head == Request("HEAD", p, folder, Nil, inm, Nil, Nil)
  <2>1. get.method = "GET" /\ head.method = "HEAD"
    BY DEF Request
  <2> HIDE DEF get, head
  <2>2. handle_get_or_head(get) \/ handle_get_or_head(head) \/ Refuse(head, 405)
    BY <1>1 DEF storage_handle_get, storage_handle_head, get, head
  <2>3. reply'.request \in {get, head}
    BY <2>2, GetOrHeadFrame, RefuseStatus, TypeOKDef DEF IInv
  <2> QED
    BY <2>1, <2>3 DEF Serves
<1>2. ASSUME NEW p, NEW method, refuse_folder(method, p)
      PROVE  FALSE
  <2>1. PICK r : Refuse(r, 400)
    BY <1>2 DEF refuse_folder
  <2> QED
    BY <2>1, RefuseStatus DEF Succeeds
<1>3. ASSUME NEW p, NEW im, storage_handle_delete(p, im)
      PROVE  FALSE
  <2> DEFINE r == Request("DELETE", p, FALSE, im, Nil, Nil, Nil)
  <2>1. r.method = "DELETE"
    BY DEF Request
  <2> HIDE DEF r
  <2>2. Refuse(r, 404) \/ Refuse(r, 400) \/ Refuse(r, 412) \/ delete_document(r)
    BY <1>3 DEF storage_handle_delete, r
  <2>3. reply'.request = r
    BY <2>2, RefuseStatus DEF delete_document, Answer
  <2> QED
    BY <2>1, <2>3 DEF Serves
<1>4. ~OobStep
  BY DEF OobStep, NoReply, NoRequest, Request, Serves
<1> QED
  BY <1>1, <1>2, <1>3, <1>4 DEF Next, OobWrite, OobMkdir, OobRemove

\* A PUT answered with success has stored its document, with the type it is
\* served with from then on if attributes.c can read that back.
THEOREM PutsAreStored == Spec => PutIsStored
<1> DEFINE Step == Serves({"PUT"}) => PutOK
<1>1. ASSUME IInv, Next
      PROVE  Step
  <2> SUFFICES ASSUME Serves({"PUT"}), Succeeds PROVE PutOK
    BY DEF PutOK
  <2> QED
    BY <1>1, PutSteps, PutStores
<1>2. Step <=> (Serves({"PUT"}) /\ Succeeds =>
         LET sent == IF reply'.request.type = Nil THEN OctetStream ELSE reply'.request.type
             type == [sent EXCEPT !.charset = IF @ = Nil THEN UTF8 ELSE @]
         IN  /\ fs'[Target] = reply'.request.body
             /\ Fits(type) => served_type(fs', xattr', Target) = type)
  BY DEF PutOK
<1> HIDE DEF Step
<1> QED
  BY <1>1, <1>2, InitIInv, NextIInv, PTL DEF Spec, PutIsStored
-----------------------------------------------------------------------------
(***************************************************************************)
(* The versions of folders.  Nothing cached is read, so get_etag() and     *)
(* TrueEtag recurse alike; that the recursion has a solution at all, from  *)
(* the deepest folders up, takes an induction over the depth.              *)
(***************************************************************************)
\* One node's version from those of its entries, with nothing cached.
NodeVersion(t, e, p) ==
    IF t[p] = Dir
    THEN FolderDigest([i \in DOMAIN Entries(t, p) |-> e[Append(p, Entries(t, p)[i])]])
    ELSE FileDigest(t[p])

\* A node's version depends on those one level below only.
LEMMA VersionOfEntries ==
    ASSUME NEW t, NEW e, NEW f, NEW p \in Path,
           \A q \in Path : Len(q) = Len(p) + 1 => e[q] = f[q]
    PROVE  NodeVersion(t, e, p) = NodeVersion(t, f, p)
<1>1. \A i \in DOMAIN Entries(t, p) : e[Append(p, Entries(t, p)[i])] = f[Append(p, Entries(t, p)[i])]
  <2> SUFFICES ASSUME NEW i \in DOMAIN Entries(t, p)
               PROVE  e[Append(p, Entries(t, p)[i])] = f[Append(p, Entries(t, p)[i])]
    OBVIOUS
  <2> DEFINE n == Entries(t, p)[i]
  <2>1. p \in Seq(STRING) /\ n \in STRING /\ Append(p, n) \in Path
    BY EntriesAreBelow, PathAssumption
  <2> HIDE DEF n
  <2>2. Len(Append(p, n)) = Len(p) + 1
    BY <2>1, AppendProperties
  <2> QED
    BY <2>1, <2>2 DEF n
<1>2. [i \in DOMAIN Entries(t, p) |-> e[Append(p, Entries(t, p)[i])]]
        = [i \in DOMAIN Entries(t, p) |-> f[Append(p, Entries(t, p)[i])]]
  BY <1>1
<1> QED
  BY <1>2 DEF NodeVersion

LEMMA VersionsExist ==
    ASSUME NEW t
    PROVE  \E e : e = [p \in Path |-> NodeVersion(t, e, p)]
<1>1. PICK longest \in Path : \A p \in Path : Len(p) <= Len(longest)
  BY DepthAssumption
<1> DEFINE depth == Len(longest) + 1
           Solves(e, n) == \A p \in Path : depth <= Len(p) + n => e[p] = NodeVersion(t, e, p)
           S == {n \in Nat : \E e : Solves(e, n)}
<1>2. \A p \in Path : Len(p) \in Nat
  BY PathAssumption, LenProperties
<1>3. depth \in Nat /\ \A p \in Path : Len(p) < depth
  BY <1>1, <1>2
<1> HIDE DEF depth
<1>4. 0 \in S
  <2>1. Solves([p \in Path |-> Absent], 0)
    BY <1>2, <1>3
  <2> QED
    BY <2>1
<1>5. ASSUME NEW n \in S PROVE n + 1 \in S
  <2>1. PICK e : Solves(e, n)
    OBVIOUS
  <2> DEFINE f == [p \in Path |-> NodeVersion(t, e, p)]
  <2>2. ASSUME NEW p \in Path, depth <= Len(p) + (n + 1) PROVE f[p] = NodeVersion(t, f, p)
    <3>1. \A q \in Path : Len(q) = Len(p) + 1 => e[q] = f[q]
      BY <1>2, <1>3, <2>1, <2>2
    <3>2. f[p] = NodeVersion(t, e, p)
      OBVIOUS
    <3> HIDE DEF f
    <3> QED
      BY <3>1, <3>2, VersionOfEntries
  <2> HIDE DEF f
  <2>3. Solves(f, n + 1)
    BY <2>2
  <2> QED
    BY <2>3
<1> HIDE DEF S
<1>6. depth \in S
  <2>1. S \in SUBSET Nat
    BY DEF S
  <2> QED
    BY <1>3, <1>4, <1>5, <2>1, Induction
<1>7. PICK e : \A p \in Path : e[p] = NodeVersion(t, e, p)
  BY <1>2, <1>3, <1>6 DEF S
<1> DEFINE f == [p \in Path |-> e[p]]
<1>8. \A p \in Path : NodeVersion(t, f, p) = NodeVersion(t, e, p)
  <2>1. \A p \in Path : f[p] = e[p]
    OBVIOUS
  <2> HIDE DEF f
  <2> QED
    BY <2>1, VersionOfEntries
<1>9. f = [p \in Path |-> NodeVersion(t, f, p)]
  BY <1>7, <1>8
<1> QED
  BY <1>9

\* The version of a node is that of its content, or of its entries' versions.
LEMMA TrueEtagSolves ==
    ASSUME NEW t
    PROVE  TrueEtag(t) = [p \in Path |-> NodeVersion(t, TrueEtag(t), p)]
<1> DEFINE E == CHOOSE e : e = [p \in Path |-> NodeVersion(t, e, p)]
<1>1. TrueEtag(t) = E
  BY DEF TrueEtag, NodeVersion
<1>2. E = [p \in Path |-> NodeVersion(t, E, p)]
  BY VersionsExist
<1> QED
  BY <1>1, <1>2

\* get_etag() computes every version from what is on disk.
LEMMA EtagIsTrue ==
    ASSUME NEW t, NEW x, NEW p \in Path
    PROVE  get_etag(t, x, p) = TrueEtag(t)[p]
<1> DEFINE E == CHOOSE e : e = [q \in Path |-> node_etag(t, x, q, e)]
           F == CHOOSE e : e = [q \in Path |-> NodeVersion(t, e, q)]
<1>1. \A e : [q \in Path |-> node_etag(t, x, q, e)] = [q \in Path |-> NodeVersion(t, e, q)]
  <2>1. \A e, q : node_etag(t, x, q, e) = NodeVersion(t, e, q)
    BY NoCachedEtag DEF node_etag, NodeVersion
  <2> QED
    BY <2>1, Zenon
<1>2. E = F
  BY <1>1
<1>3. get_etag(t, x, p) = node_etag(t, x, p, E)
  BY DEF get_etag
<1>4. node_etag(t, x, p, E) = NodeVersion(t, E, p)
  BY NoCachedEtag DEF node_etag, NodeVersion
<1>5. TrueEtag(t) = F
  BY DEF TrueEtag, NodeVersion
<1> HIDE DEF E, F
<1>6. TrueEtag(t)[p] = NodeVersion(t, TrueEtag(t), p)
  BY TrueEtagSolves
<1> QED
  BY <1>2, <1>3, <1>4, <1>5, <1>6

\* A path lies in the path without its last name.
LEMMA ParentOfAppend ==
    ASSUME NEW p \in Seq(STRING), NEW n \in STRING
    PROVE  /\ Append(p, n) # <<>>
           /\ Parent(Append(p, n)) = p
           /\ Append(p, n)[Len(Append(p, n))] = n
<1> DEFINE q == Append(p, n)
<1>1. Len(p) \in Nat
  BY LenProperties
<1>2. q \in Seq(STRING) /\ q # <<>> /\ Len(q) = Len(p) + 1
  <2>1. q \in Seq(STRING)
    BY AppendProperties
  <2>2. q # <<>>
    BY AppendProperties
  <2>3. Len(q) = Len(p) + 1
    BY AppendProperties
  <2> QED
    BY <2>1, <2>2, <2>3
<1>3. q[Len(p) + 1] = n
  BY AppendProperties
<1>4. \A i \in 1..Len(p) : q[i] = p[i]
  BY AppendProperties
<1> HIDE DEF q
<1>5. SubSeq(q, 1, Len(p)) = p
  BY <1>1, <1>2, <1>4
<1>6. Len(q) - 1 = Len(p) /\ q[Len(q)] = n
  BY <1>1, <1>2, <1>3
<1>7. Parent(q) = SubSeq(q, 1, Len(p))
  BY <1>6 DEF Parent
<1>8. q # <<>> /\ Parent(q) = p /\ q[Len(q)] = n
  BY <1>2, <1>5, <1>6, <1>7
<1> QED
  BY <1>8 DEF q

\* The names a folder is listed with, and the nodes they are the names of.
NamesIn(t, p) ==
    {NameOrder[i] : i \in {j \in 1..Len(NameOrder) :
        Append(p, NameOrder[j]) \in Path /\ t[Append(p, NameOrder[j])] # Absent}}
NodesIn(t, p) == {q \in Path \ {<<>>} : Parent(q) = p /\ t[q] # Absent}

LEMMA NamesAreNodes ==
    ASSUME NEW t, NEW p \in Path
    PROVE  /\ \A n \in NamesIn(t, p) :
                 Append(p, n) \in NodesIn(t, p) /\ Append(p, n)[Len(Append(p, n))] = n
           /\ \A q \in NodesIn(t, p) : q[Len(q)] \in NamesIn(t, p) /\ q = Append(p, q[Len(q)])
<1>1. ASSUME NEW q \in NodesIn(t, p)
      PROVE  q[Len(q)] \in NamesIn(t, p) /\ q = Append(p, q[Len(q)])
  <2>1. q \in Seq(STRING) /\ Len(q) \in Nat /\ q # <<>> /\ p = SubSeq(q, 1, Len(q) - 1)
    BY PathAssumption, LenProperties DEF Parent, NodesIn
  <2>2. Len(q) # 0
    BY <2>1, EmptySeq
  <2>3. q = Append(p, q[Len(q)])
    BY <2>1, <2>2
  <2>4. PICK j \in 1..Len(NameOrder) : q[Len(q)] = NameOrder[j]
    BY <2>1, <2>2, OrderAssumption DEF NodesIn
  <2> QED
    BY <2>3, <2>4 DEF NamesIn, NodesIn
<1>2. ASSUME NEW n \in NamesIn(t, p)
      PROVE  Append(p, n) \in NodesIn(t, p) /\ Append(p, n)[Len(Append(p, n))] = n
  <2>1. p \in Seq(STRING) /\ n \in STRING /\ Append(p, n) \in Path /\ t[Append(p, n)] # Absent
    BY PathAssumption DEF NamesIn
  <2> DEFINE q == Append(p, n)
  <2>2. q # <<>> /\ Parent(q) = p /\ q[Len(q)] = n
    BY <2>1, ParentOfAppend
  <2> HIDE DEF q
  <2> QED
    BY <2>1, <2>2 DEF q, NodesIn
<1> QED
  BY <1>1, <1>2

\* A folder is listed with its nodes and their versions.
LEMMA ListingIsTrue ==
    ASSUME NEW p \in Path
    PROVE  Listing(p) = {[name |-> q[Len(q)], folder |-> fs[q] = Dir, version |-> TrueEtag(fs)[q]] :
                            q \in NodesIn(fs, p)}
<1> DEFINE entry(n) == [name |-> n, folder |-> fs[Append(p, n)] = Dir, version |-> Etag(Append(p, n))]
           line(q) == [name |-> q[Len(q)], folder |-> fs[q] = Dir, version |-> TrueEtag(fs)[q]]
<1>1. Listing(p) = {entry(n) : n \in NamesIn(fs, p)}
  BY DEF Listing, NamesIn
<1>2. \A n \in NamesIn(fs, p) : entry(n) = line(Append(p, n))
  <2>1. \A q \in NodesIn(fs, p) : Etag(q) = TrueEtag(fs)[q]
    BY EtagIsTrue DEF Etag, NodesIn
  <2> QED
    BY <2>1, NamesAreNodes
<1>3. \A q \in NodesIn(fs, p) : line(q) = entry(q[Len(q)])
  BY <1>2, NamesAreNodes
<1> HIDE DEF entry, line
<1>4. {entry(n) : n \in NamesIn(fs, p)} = {line(q) : q \in NodesIn(fs, p)}
  BY <1>2, <1>3, NamesAreNodes
<1> QED
  BY <1>1, <1>4 DEF line

VersionOK ==
    /\ Serves({"GET", "HEAD", "PUT"}) /\ Succeeds => reply'.version = TrueEtag(fs')[Target]
    /\ Serves({"GET"}) /\ Succeeds /\ reply'.request.folder =>
          reply'.body = {[name |-> q[Len(q)], folder |-> fs[q] = Dir, version |-> TrueEtag(fs)[q]] :
                            q \in {r \in Path \ {<<>>} : Parent(r) = Target /\ fs[r] # Absent}}
    /\ Serves({"GET", "HEAD"}) /\ reply'.status = 304 =>
          reply'.request.ifNoneMatch = TrueEtag(fs)[Target]

LEMMA ReadVersionOK ==
    ASSUME NEW p \in Path, NEW folder, NEW inm, NEW method \in {"GET", "HEAD"},
           handle_get_or_head(Request(method, p, folder, Nil, inm, Nil, Nil))
    PROVE  VersionOK
<1> DEFINE r == Request(method, p, folder, Nil, inm, Nil, Nil)
<1>1. r.path = p /\ r.folder = folder /\ r.ifNoneMatch = inm /\ r.method = method
  BY DEF Request
<1>2. Etag(p) = TrueEtag(fs)[p]
  BY EtagIsTrue DEF Etag
<1> HIDE DEF r
<1>3. CASE get_not_found(r)
  <2>1. reply'.status = 404
    BY <1>3, RefuseStatus DEF get_not_found
  <2> QED
    BY <2>1 DEF VersionOK, Succeeds
<1>4. CASE serve_directory(r)
  <2>1. /\ reply'.request = r /\ reply'.status = 200 /\ reply'.version = Etag(p)
        /\ reply'.body = Listing(p) /\ fs' = fs
    BY <1>1, <1>4 DEF serve_directory, Answer
  <2>2. Listing(p) = {[name |-> q[Len(q)], folder |-> fs[q] = Dir, version |-> TrueEtag(fs)[q]] :
                         q \in {s \in Path \ {<<>>} : Parent(s) = p /\ fs[s] # Absent}}
    BY ListingIsTrue DEF NodesIn
  <2> QED
    BY <1>1, <1>2, <2>1, <2>2 DEF VersionOK, Target
<1>5. CASE not_modified(r)
  <2>1. reply'.request = r /\ reply'.status = 304 /\ r.ifNoneMatch = Etag(p)
    BY <1>1, <1>5, RefuseStatus DEF not_modified
  <2> QED
    BY <1>1, <1>2, <2>1 DEF VersionOK, Target, Succeeds
<1>6. CASE serve_file_head(r)
  <2>1. /\ reply'.request = r /\ reply'.status = 200 /\ reply'.version = Etag(p) /\ fs' = fs
        /\ r.method = "HEAD" \/ ~r.folder
    BY <1>1, <1>6 DEF serve_file_head, Answer
  <2> QED
    BY <1>1, <1>2, <2>1 DEF VersionOK, Target, Serves
<1> QED
  BY <1>3, <1>4, <1>5, <1>6 DEF handle_get_or_head, r

LEMMA PutVersionOK ==
    ASSUME IInv, Next, Serves({"PUT"})
    PROVE  VersionOK
<1> SUFFICES ASSUME Succeeds PROVE reply'.version = TrueEtag(fs')[Target]
  BY DEF VersionOK, Serves
<1>1. PICK p \in Document : \E im, inm : \E c \in Content, type \in Type \cup {Nil} :
              storage_handle_put(p, im, inm, c, type)
  BY PutSteps
<1>2. PICK im, inm, c, type : storage_handle_put(p, im, inm, c, type)
  BY <1>1
<1> DEFINE r == Request("PUT", p, FALSE, im, inm, c, type)
<1>3. r.path = p
  BY DEF Request
<1>4. put_document(r)
  <2>1. Refuse(r, 412) \/ Refuse(r, 400) \/ Refuse(r, 500) \/ put_document(r)
    BY <1>2 DEF storage_handle_put
  <2> HIDE DEF r
  <2> QED
    BY <2>1, RefuseStatus DEF Succeeds
<1> HIDE DEF r
<1>5. PICK x : reply'.request = r /\ reply'.version = get_etag(fs', x, p)
  BY <1>3, <1>4 DEF put_document, Answer
<1> QED
  BY <1>3, <1>5, EtagIsTrue DEF Target, Document

\* No version the server hands out or confirms is out of date, however the
\* files are edited: of a document, of a folder, and of every entry listed.
THEOREM NoVersionIsStale == Spec => VersionsAreCurrent
<1>1. ASSUME IInv, Next
      PROVE  VersionOK
  <2>1. ASSUME ~Serves({"GET", "HEAD", "PUT"}) PROVE VersionOK
    BY <2>1 DEF VersionOK, Serves
  <2>2. ASSUME NEW p \in Path, NEW folder \in BOOLEAN, NEW inm,
               \/ storage_handle_get(p, folder, inm)
               \/ storage_handle_head(p, folder, inm)
        PROVE  VersionOK
    <3>1. ASSUME NEW r, Refuse(r, 405) PROVE VersionOK
      BY <3>1, RefuseStatus DEF VersionOK, Succeeds
    <3> QED
      BY <2>2, <3>1, ReadVersionOK DEF storage_handle_get, storage_handle_head
  <2>3. ASSUME NEW p, NEW method, refuse_folder(method, p)
        PROVE  VersionOK
    <3>1. PICK r : Refuse(r, 400)
      BY <2>3 DEF refuse_folder
    <3> QED
      BY <3>1, RefuseStatus DEF VersionOK, Succeeds
  <2>4. ASSUME OobStep
        PROVE  VersionOK
    BY <2>1, <2>4 DEF OobStep, NoReply, NoRequest, Request, Serves
  <2>5. ASSUME NEW p, NEW im, storage_handle_delete(p, im)
        PROVE  VersionOK
    <3> DEFINE r == Request("DELETE", p, FALSE, im, Nil, Nil, Nil)
    <3>1. r.method = "DELETE"
      BY DEF Request
    <3> HIDE DEF r
    <3>2. Refuse(r, 404) \/ Refuse(r, 400) \/ Refuse(r, 412) \/ delete_document(r)
      BY <2>5 DEF storage_handle_delete, r
    <3>3. reply'.request = r
      BY <3>2, RefuseStatus DEF delete_document, Answer
    <3> QED
      BY <2>1, <3>1, <3>3 DEF Serves
  <2>6. ASSUME NEW p, NEW im, NEW inm, NEW c, NEW type,
               storage_handle_put(p, im, inm, c, type)
        PROVE  VersionOK
    <3> DEFINE r == Request("PUT", p, FALSE, im, inm, c, type)
    <3>1. r.method = "PUT"
      BY DEF Request
    <3> HIDE DEF r
    <3>2. Refuse(r, 412) \/ Refuse(r, 400) \/ Refuse(r, 500) \/ put_document(r)
      BY <2>6 DEF storage_handle_put, r
    <3>3. reply'.request = r
      BY <3>2, RefuseStatus DEF put_document, Answer
    <3> QED
      BY <1>1, <3>1, <3>3, PutVersionOK DEF Serves
  <2> QED
    BY <1>1, <2>2, <2>3, <2>4, <2>5, <2>6 DEF Next, OobWrite, OobMkdir, OobRemove
<1> QED
  BY <1>1, InitIInv, NextIInv, PTL DEF Spec, VersionsAreCurrent, VersionOK
-----------------------------------------------------------------------------
(***************************************************************************)
(* The refinement.  Without edits every directory but the root has a       *)
(* document somewhere below it, so that directories are no state of their  *)
(* own.                                                                    *)
(***************************************************************************)
Populated(t) ==
    /\ t[<<>>] = Dir
    /\ \A d \in Path \ {<<>>} : t[d] = Dir => \E q \in Path : d \in Above(q) /\ t[q] \in Content

LEMMA WithFilePopulated ==
    ASSUME NEW t \in Tree, NEW p \in Document, NEW c \in Content, Populated(t),
           \A q \in Above(p) : t[q] \notin Content, t[p] # Dir
    PROVE  Populated(WithFile(t, p, c))
<1> DEFINE u == WithFile(t, p, c)
<1>1. p \in Path /\ <<>> \in Path
  BY PathAssumption DEF Document
<1>2. u[<<>>] = Dir
  BY <1>1 DEF WithFile, Document, Populated
<1> SUFFICES ASSUME NEW d \in Path \ {<<>>}, u[d] = Dir
             PROVE  \E q \in Path : d \in Above(q) /\ u[q] \in Content
  BY <1>2 DEF Populated
<1>3. CASE d \in Above(p)
  BY <1>1, <1>3 DEF WithFile
<1>4. CASE d \notin Above(p)
  <2>1. t[d] = Dir
    BY <1>4, NodeAssumption DEF WithFile
  <2>2. PICK q \in Path : d \in Above(q) /\ t[q] \in Content
    BY <2>1 DEF Populated
  <2>3. u[q] \in Content
    BY <2>2 DEF WithFile
  <2> QED
    BY <2>2, <2>3
<1> QED
  BY <1>3, <1>4

LEMMA WithoutFilePopulated ==
    ASSUME NEW t \in Tree, NEW p \in Document, Closed(t), Populated(t), t[p] \in Content
    PROVE  Populated(WithoutFile(t, p))
<1> DEFINE u == WithoutFile(t, p)
<1>1. p \in Path /\ <<>> \in Path /\ p # <<>>
  BY PathAssumption DEF Document
<1>2. u[<<>>] = Dir
  BY <1>1 DEF WithoutFile, Prunable, Populated
<1> SUFFICES ASSUME NEW d \in Path \ {<<>>}, u[d] = Dir,
                    \A q \in Path : d \in Above(q) => u[q] \notin Content
             PROVE  FALSE
  BY <1>2 DEF Populated
<1>3. t[d] = Dir /\ d # p /\ d \notin Prunable(t, p)
  BY NodeAssumption DEF WithoutFile
<1>4. ASSUME NEW q \in Path, d \in Above(q), t[q] \in Content PROVE q = p
  <2>1. u[q] \notin Content
    BY <1>4
  <2>2. q \notin Prunable(t, p)
    <3>1. \A r \in Above(p) : t[r] = Dir
      BY <1>1, NodeAssumption DEF Closed
    <3> QED
      BY <1>4, <3>1, NodeAssumption DEF Prunable
  <2> QED
    BY <1>4, <2>1, <2>2 DEF WithoutFile
<1>5. d \in Above(p)
  BY <1>3, <1>4 DEF Populated
<1>6. ASSUME NEW r \in Path, d \in Above(r), t[r] # Absent PROVE r = p \/ r \in Above(p)
  <2>1. CASE t[r] \in Content
    BY <1>4, <1>6, <2>1
  <2>2. CASE t[r] = Dir
    <3>1. r # <<>>
      BY <1>6 DEF Above
    <3>2. PICK q \in Path : r \in Above(q) /\ t[q] \in Content
      BY <2>2, <3>1 DEF Populated
    <3>3. d \in Above(q)
      BY <1>6, <3>2, AboveTransitive
    <3> QED
      BY <1>4, <3>2, <3>3
  <2> QED
    BY <1>6, <2>1, <2>2 DEF Tree, Node
<1> QED
  BY <1>3, <1>5, <1>6 DEF Prunable

\* The inductive invariant of the refinement.
DiskInv == IInv /\ Populated(fs)

LEMMA NextPopulated ==
    ASSUME ~OutOfBand, DiskInv, [Next]_vars
    PROVE  Populated(fs')
<1>1. fs \in Tree /\ Closed(fs) /\ Populated(fs)
  BY TypeOKDef DEF DiskInv, IInv, TreeClosed
<1>2. CASE UNCHANGED vars
  BY <1>1, <1>2 DEF vars
<1>3. CASE Next
  <2>1. Served
    BY <1>3, NextEffect DEF DiskInv, Edited
  <2>2. ASSUME NEW r, Stored(r) PROVE Populated(fs')
    <3>1. r.path # <<>>
      BY <1>1, <2>2 DEF Stored, Populated
    <3> QED
      BY <1>1, <2>2, <3>1, WithFilePopulated DEF Stored, Document
  <2>3. ASSUME NEW r, Deleted(r) PROVE Populated(fs')
    <3>1. r.path # <<>>
      BY <1>1, <2>3, NodeAssumption DEF Deleted, Populated
    <3> QED
      BY <1>1, <2>3, <3>1, WithoutFilePopulated DEF Deleted, Document
  <2> QED
    BY <1>1, <2>1, <2>2, <2>3 DEF Served, Unchanged
<1> QED
  BY <1>2, <1>3

\* Documents and folders of DocStore are files and directories.
LEMMA DocsAreFiles ==
    ASSUME DiskInv, NEW p \in Path
    PROVE  /\ Docs!Exists(p) <=> fs[p] \in Content
           /\ Docs!IsFolder(p) <=> fs[p] = Dir
           /\ Docs!Possible(p) <=> fs[p] # Dir /\ \A q \in Above(p) : fs[q] \notin Content
<1>1. /\ fs \in Tree /\ Closed(fs) /\ Populated(fs) /\ MetasOK(xattr)
  BY TypeOKDef DEF DiskInv, IInv, TreeClosed
<1>2. ASSUME NEW q \in Path PROVE Docs!Exists(q) <=> fs[q] \in Content
  <2>1. ASSUME fs[q] \in Content PROVE DocsOnDisk[q] # Absent
    <3>1. served_type(fs, xattr, q) \in ContentType
      BY <1>1, <2>1, ServedTypeOK
    <3>2. DocsOnDisk[q] = [body |-> fs[q], type |-> served_type(fs, xattr, q)]
      BY <2>1 DEF DocsOnDisk
    <3>3. DocsOnDisk[q] \in [body : Content, type : ContentType]
      BY <2>1, <3>1, <3>2
    <3> QED
      BY <3>3, StorageAssumption
  <2>2. ASSUME fs[q] \notin Content PROVE DocsOnDisk[q] = Absent
    BY <2>2 DEF DocsOnDisk
  <2> QED
    BY <2>1, <2>2 DEF Docs!Exists
<1>3. \A q : Docs!Above(q) = Above(q)
  BY DEF Docs!Above, Above
<1>4. Docs!IsFolder(p) <=> p = <<>> \/ \E q \in Path : p \in Above(q) /\ fs[q] \in Content
  BY <1>2, <1>3 DEF Docs!IsFolder
<1>5. Docs!IsFolder(p) <=> fs[p] = Dir
  <2>1. ASSUME NEW q \in Path, p \in Above(q), fs[q] \in Content PROVE fs[p] = Dir
    BY <1>1, <2>1, NodeAssumption DEF Closed
  <2> QED
    BY <1>1, <1>4, <2>1 DEF Populated
<1>6. Docs!Possible(p) <=> fs[p] # Dir /\ \A q \in Above(p) : fs[q] \notin Content
  BY <1>2, <1>3, <1>5, AboveType DEF Docs!Possible
<1> QED
  BY <1>2, <1>5, <1>6

\* The names of a folder's entries in the order of readdir_r() are those of
\* the paths below it.
LEMMA ListingIsMembers ==
    ASSUME DiskInv, NEW p \in Path
    PROVE  {[name |-> e.name, folder |-> e.folder] : e \in Listing(p)} = Docs!Members(p)
<1> DEFINE names == NamesIn(fs, p)
           entry(n) == [name |-> n, folder |-> fs[Append(p, n)] = Dir]
           kids == NodesIn(fs, p)
           member(q) == [name |-> q[Len(q)], folder |-> fs[q] = Dir]
<1>1. {[name |-> e.name, folder |-> e.folder] : e \in Listing(p)} = {entry(n) : n \in names}
  <2> DEFINE full(n) == [name |-> n, folder |-> fs[Append(p, n)] = Dir, version |-> Etag(Append(p, n))]
  <2>1. Listing(p) = {full(n) : n \in names}
    BY DEF Listing, NamesIn
  <2>2. \A n : [name |-> full(n).name, folder |-> full(n).folder] = entry(n)
    OBVIOUS
  <2> HIDE DEF full, names, entry
  <2> QED
    BY <2>1, <2>2
<1>2. fs \in Tree
  BY TypeOKDef DEF DiskInv, IInv
<1>3. Docs!Members(p) = {member(q) : q \in kids}
  <2>1. \A q \in Path : Docs!Exists(q) \/ Docs!IsFolder(q) <=> fs[q] # Absent
    BY <1>2, DocsAreFiles, NodeAssumption DEF Tree, Node
  <2>2. \A q \in kids : ~Docs!Exists(q) <=> fs[q] = Dir
    BY <1>2, DocsAreFiles, NodeAssumption DEF Tree, Node, NodesIn
  <2>3. \A q : Docs!Parent(q) = Parent(q)
    BY DEF Docs!Parent, Parent
  <2>4. {r \in Path : r # <<>> /\ p = Docs!Parent(r) /\ (Docs!Exists(r) \/ Docs!IsFolder(r))} = kids
    BY <2>1, <2>3 DEF NodesIn
  <2>5. \A q \in kids : (~Docs!Exists(q)) = (fs[q] = Dir)
    BY <2>2 DEF Docs!Exists
  <2>6. Docs!Members(p) = {[name |-> q[Len(q)], folder |-> ~Docs!Exists(q)] : q \in kids}
    BY <2>4 DEF Docs!Members
  <2> QED
    BY <2>5, <2>6
<1>4. \A q \in kids : q[Len(q)] \in names /\ q = Append(p, q[Len(q)])
  BY NamesAreNodes
<1>5. \A n \in names : Append(p, n) \in kids /\ Append(p, n)[Len(Append(p, n))] = n
  BY NamesAreNodes
<1> HIDE DEF names, kids
<1>6. {entry(n) : n \in names} = {member(q) : q \in kids}
  <2>1. \A n \in names : entry(n) = member(Append(p, n))
    BY <1>5
  <2>2. \A q \in kids : member(q) = entry(q[Len(q)])
    BY <1>4
  <2> HIDE DEF entry, member
  <2> QED
    BY <1>4, <1>5, <2>1, <2>2
<1> QED
  BY <1>1, <1>3, <1>6

\* What the client of a document's request sees is what DocStore answers.
LEMMA DocumentAnswer ==
    ASSUME NEW r, NEW status, NEW version, NEW body, NEW type,
           ~r.folder, Answer(r, status, version, body, type)
    PROVE  /\ Docs!Respond(r, status, version, body, type)
           /\ WithoutFolderVersions'.request = r /\ WithoutFolderVersions'.type = type
BY DEF Answer, WithoutFolderVersions, Docs!Respond

\* In answers to folder requests, DocStore leaves out versions.
LEMMA FolderAnswer ==
    ASSUME NEW r, NEW status, NEW version, NEW body, NEW type,
           r.folder, Answer(r, status, version, body, type)
    PROVE  /\ ~(r.method = "GET" /\ status = 200) => Docs!Respond(r, status, Nil, body, type)
           /\ r.method = "GET" /\ status = 200 =>
                Docs!Respond(r, status, Nil, {[name |-> e.name, folder |-> e.folder] : e \in body}, type)
           /\ WithoutFolderVersions'.request = r
<1>1. reply' = [request |-> r, status |-> status, version |-> version, body |-> body, type |-> type]
  BY DEF Answer
<1>2. WithoutFolderVersions' =
        [reply' EXCEPT !.version = Nil,
                       !.body = IF reply'.request.method = "GET" /\ reply'.status = 200
                                THEN {[name |-> e.name, folder |-> e.folder] : e \in @}
                                ELSE @]
  BY <1>1 DEF WithoutFolderVersions
<1> DEFINE short == {[name |-> e.name, folder |-> e.folder] : e \in body}
<1>3. WithoutFolderVersions' =
        [request |-> r, status |-> status, version |-> Nil,
         body |-> IF r.method = "GET" /\ status = 200 THEN short ELSE body, type |-> type]
  BY <1>1, <1>2
<1> HIDE DEF short
<1>4. /\ ~(r.method = "GET" /\ status = 200) => Docs!Respond(r, status, Nil, body, type)
      /\ r.method = "GET" /\ status = 200 => Docs!Respond(r, status, Nil, short, type)
      /\ WithoutFolderVersions'.request = r
  BY <1>3 DEF Docs!Respond
<1> QED
  BY <1>4 DEF short

\* A request that changes neither files nor types changes no document.
LEMMA DocsUnchanged ==
    ASSUME Unchanged
    PROVE  DocsOnDisk' = DocsOnDisk
<1>1. \A p \in Path : fs'[p] = fs[p] /\ served_type(fs', xattr', p) = served_type(fs, xattr, p)
  BY DEF Unchanged, SameType, served_type, content_type_from_xattr
<1>2. fs' = fs
  BY DEF Unchanged
<1> QED
  BY <1>1, <1>2 DEF DocsOnDisk

LEMMA DocsRefuse ==
    ASSUME NEW r, r.folder \in BOOLEAN, NEW status, Unchanged, Refuse(r, status),
           r.folder => ~(r.method = "GET" /\ status = 200)
    PROVE  /\ \A statuses : status \in statuses => Docs!Refuse(r, statuses)
           /\ WithoutFolderVersions'.request = r
<1>1. Answer(r, status, Nil, Nil, Nil)
  BY DEF Refuse
<1>2. Docs!Respond(r, status, Nil, Nil, Nil) /\ WithoutFolderVersions'.request = r
  BY <1>1, DocumentAnswer, FolderAnswer
<1> QED
  BY <1>2, DocsUnchanged DEF Docs!Refuse

LEMMA DocVersion ==
    ASSUME DiskInv, NEW p \in Path, fs[p] \in Content
    PROVE  /\ DocsOnDisk[p].body = fs[p]
           /\ DocsOnDisk[p].type = served_type(fs, xattr, p)
           /\ [c \in Content |-> FileDigest(c)][DocsOnDisk[p].body] = Etag(p)
  BY DocumentEtag DEF DocsOnDisk

\* GET and HEAD.
LEMMA ReadImplements ==
    ASSUME DiskInv, NEW p \in Path, NEW folder \in BOOLEAN, NEW inm, NEW method \in {"GET", "HEAD"},
           handle_get_or_head(Request(method, p, folder, Nil, inm, Nil, Nil))
    PROVE  Docs!Next
<1> DEFINE r == Request(method, p, folder, Nil, inm, Nil, Nil)
<1>1. r.path = p /\ r.folder = folder /\ r.ifNoneMatch = inm /\ r.method = method
  BY DEF Request
<1>2. handle_get_or_head(r)
  OBVIOUS
<1> HIDE DEF r
<1>3. Unchanged /\ fs \in Tree
  BY <1>2, GetOrHeadFrame, TypeOKDef DEF DiskInv, IInv, Unchanged, SameType
<1>4. /\ Docs!Exists(p) <=> fs[p] \in Content
      /\ Docs!IsFolder(p) <=> fs[p] = Dir
  BY DocsAreFiles
<1>5. fs[p] \in Content \/ fs[p] = Dir \/ fs[p] = Absent
  BY <1>3 DEF Tree, Node
<1> DEFINE OK == Docs!Read(r) /\ WithoutFolderVersions'.request = r
<1>6. ASSUME get_not_found(r) PROVE OK
  <2>1. Docs!Refuse(r, {404}) /\ WithoutFolderVersions'.request = r
    BY <1>1, <1>3, <1>6, DocsRefuse DEF get_not_found
  <2>2. IF folder THEN ~Docs!IsFolder(p) ELSE ~Docs!Exists(p)
    BY <1>1, <1>4, <1>6, NodeAssumption DEF get_not_found
  <2> QED
    BY <1>1, <2>1, <2>2 DEF Docs!Read
<1>7. ASSUME serve_directory(r) PROVE OK
  <2>1. Answer(r, 200, Etag(p), Listing(p), Nil) /\ folder /\ method = "GET" /\ fs[p] = Dir
    BY <1>1, <1>7 DEF serve_directory
  <2>2. Docs!Respond(r, 200, Nil, Docs!Members(p), Nil) /\ WithoutFolderVersions'.request = r
    <3>1. r.folder /\ r.method = "GET"
      BY <1>1, <2>1
    <3>2. /\ Docs!Respond(r, 200, Nil, {[name |-> e.name, folder |-> e.folder] : e \in Listing(p)}, Nil)
          /\ WithoutFolderVersions'.request = r
      BY <2>1, <3>1, FolderAnswer
    <3> QED
      BY <3>2, ListingIsMembers
  <2> QED
    BY <1>1, <1>3, <1>4, <2>1, <2>2, DocsUnchanged DEF Docs!Read
<1>8. ASSUME not_modified(r) PROVE OK
  <2>1. /\ Refuse(r, 304) /\ fs[p] # Absent /\ (folder <=> fs[p] = Dir)
        /\ inm = Etag(p) /\ (method = "HEAD" \/ ~folder)
    BY <1>1, <1>8 DEF not_modified
  <2>2. Docs!Refuse(r, {304}) /\ WithoutFolderVersions'.request = r
    BY <1>1, <1>3, <2>1, DocsRefuse
  <2>3. CASE folder
    BY <1>1, <1>4, <2>1, <2>2, <2>3 DEF Docs!Read
  <2>4. CASE ~folder
    <3>1. fs[p] \in Content
      BY <1>5, <2>1, <2>4
    <3>2. [c \in Content |-> FileDigest(c)][DocsOnDisk[p].body] = inm
      BY <2>1, <3>1, DocVersion
    <3> QED
      BY <1>1, <1>4, <2>2, <2>4, <3>1, <3>2 DEF Docs!Read
  <2> QED
    BY <2>3, <2>4
<1>9. ASSUME serve_file_head(r) PROVE OK
  <2>1. /\ fs[p] # Absent /\ (folder <=> fs[p] = Dir) /\ inm # Etag(p) /\ (method = "HEAD" \/ ~folder)
        /\ Answer(r, 200, Etag(p), IF method = "GET" THEN fs[p] ELSE Nil,
                  IF folder THEN Nil ELSE served_type(fs, xattr, p))
    BY <1>1, <1>9 DEF serve_file_head
  <2>2. CASE folder
    <3>1. method = "HEAD"
      BY <2>1, <2>2
    <3>2. Docs!Respond(r, 200, Nil, Nil, Nil) /\ WithoutFolderVersions'.request = r
      BY <1>1, <2>1, <2>2, <3>1, FolderAnswer
    <3> QED
      BY <1>1, <1>3, <1>4, <2>1, <2>2, <3>1, <3>2, DocsUnchanged DEF Docs!Read
  <2>3. CASE ~folder
    <3>1. fs[p] \in Content
      BY <1>5, <2>1, <2>3
    <3> DEFINE version == [c \in Content |-> FileDigest(c)][DocsOnDisk[p].body]
    <3>2. /\ version = Etag(p) /\ DocsOnDisk[p].body = fs[p]
          /\ DocsOnDisk[p].type = served_type(fs, xattr, p)
      BY <3>1, DocVersion
    <3>3. /\ Docs!Respond(r, 200, version, IF method = "GET" THEN DocsOnDisk[p].body ELSE Nil, DocsOnDisk[p].type)
          /\ WithoutFolderVersions'.request = r
      BY <1>1, <2>1, <2>3, <3>2, DocumentAnswer
    <3> QED
      BY <1>1, <1>3, <1>4, <2>1, <2>3, <3>1, <3>2, <3>3, DocsUnchanged DEF Docs!Read
  <2> QED
    BY <2>2, <2>3
<1>10. OK
  BY <1>2, <1>6, <1>7, <1>8, <1>9 DEF handle_get_or_head
<1> QED
  BY <1>1, <1>10 DEF Docs!Next

\* A document's version is as the client expects it, or none is expected.
LEMMA ExpectedHolds ==
    ASSUME DiskInv, NEW r, r.path \in Path
    PROVE  Docs!Expected(r) <=>
             /\ r.ifMatch # Nil => fs[r.path] \in Content /\ r.ifMatch = Etag(r.path)
             /\ r.ifNoneMatch # Nil => fs[r.path] \notin Content
<1>1. Docs!Exists(r.path) <=> fs[r.path] \in Content
  BY DocsAreFiles
<1>2. fs[r.path] \in Content => [c \in Content |-> FileDigest(c)][DocsOnDisk[r.path].body] = Etag(r.path)
  BY DocVersion
<1> QED
  BY <1>1, <1>2 DEF Docs!Expected

\* The documents after a PUT: the one it stores is new, with some type.
LEMMA DocsStored ==
    ASSUME DiskInv, MetasOK(xattr'), NEW r, Stored(r), \A q \in Path \ {r.path} : SameType(q)
    PROVE  \E type \in ContentType :
              DocsOnDisk' = [DocsOnDisk EXCEPT ![r.path] = [body |-> r.body, type |-> type]]
<1>1. /\ r.path \in Path /\ r.body \in Content /\ fs \in Tree
      /\ fs' = WithFile(fs, r.path, r.body) /\ \A q \in Above(r.path) : fs[q] \notin Content
  BY TypeOKDef DEF Stored, DiskInv, IInv
<1> DEFINE type == served_type(fs', xattr', r.path)
<1>2. fs'[r.path] = r.body
  BY <1>1 DEF WithFile
<1>3. type \in ContentType
  BY <1>1, <1>2, ServedTypeOK
<1>4. ASSUME NEW q \in Path \ {r.path}, {fs[q], fs'[q]} \cap Content # {}
      PROVE  fs'[q] = fs[q]
  BY <1>1, <1>4, WithFileFrame
<1>5. \A q \in Path \ {r.path} : served_type(fs, xattr', q) = served_type(fs, xattr, q)
  BY DEF SameType, served_type, content_type_from_xattr
<1>6. \A q \in Path \ {r.path} : fs'[q] = fs[q] => served_type(fs', xattr', q) = served_type(fs, xattr, q)
  BY <1>5 DEF served_type
<1>7. DocsOnDisk' = [DocsOnDisk EXCEPT ![r.path] = [body |-> r.body, type |-> type]]
  <2>1. DocsOnDisk' = [q \in Path |-> IF fs'[q] \in Content
                                      THEN [body |-> fs'[q], type |-> served_type(fs', xattr', q)]
                                      ELSE Absent]
    BY DEF DocsOnDisk
  <2>2. DocsOnDisk'[r.path] = [body |-> r.body, type |-> type]
    BY <1>1, <1>2, <2>1
  <2>3. ASSUME NEW q \in Path \ {r.path} PROVE DocsOnDisk'[q] = DocsOnDisk[q]
    <3> HIDE DEF type
    <3>1. CASE fs'[q] = fs[q]
      BY <1>6, <2>1, <3>1 DEF DocsOnDisk
    <3>2. CASE fs'[q] # fs[q]
      BY <1>4, <2>1, <3>2 DEF DocsOnDisk
    <3> QED
      BY <3>1, <3>2
  <2> HIDE DEF type
  <2>4. DocsOnDisk = [q \in Path |-> DocsOnDisk[q]] /\ DocsOnDisk' = [q \in Path |-> DocsOnDisk'[q]]
    BY <2>1 DEF DocsOnDisk
  <2> QED
    BY <2>2, <2>3, <2>4
<1> QED
  BY <1>3, <1>7

LEMMA DocsDeleted ==
    ASSUME DiskInv, NEW r, Deleted(r), \A q \in Path : fs'[q] # Absent => SameType(q)
    PROVE  DocsOnDisk' = [DocsOnDisk EXCEPT ![r.path] = Absent]
<1>1. /\ r.path \in Path /\ fs \in Tree /\ Closed(fs) /\ fs[r.path] \in Content
      /\ fs' = WithoutFile(fs, r.path)
  BY TypeOKDef DEF Deleted, DiskInv, IInv, TreeClosed
<1>2. fs'[r.path] = Absent
  BY <1>1 DEF WithoutFile
<1>3. ASSUME NEW q \in Path \ {r.path}, {fs[q], fs'[q]} \cap Content # {}
      PROVE  fs'[q] = fs[q] /\ served_type(fs', xattr', q) = served_type(fs, xattr, q)
  <2>1. fs'[q] = fs[q]
    BY <1>1, <1>3, WithoutFileFrame
  <2>2. SameType(q)
    BY <1>3, <2>1, NodeAssumption
  <2> QED
    BY <2>1, <2>2 DEF SameType, served_type, content_type_from_xattr
<1>4. DocsOnDisk' = [q \in Path |-> IF fs'[q] \in Content
                                    THEN [body |-> fs'[q], type |-> served_type(fs', xattr', q)]
                                    ELSE Absent]
  BY DEF DocsOnDisk
<1>5. \A q \in Path \ {r.path} : DocsOnDisk'[q] = DocsOnDisk[q]
  BY <1>3, <1>4 DEF DocsOnDisk
<1>6. DocsOnDisk'[r.path] = Absent
  BY <1>1, <1>2, <1>4, NodeAssumption
<1>7. DocsOnDisk = [q \in Path |-> DocsOnDisk[q]] /\ DocsOnDisk' = [q \in Path |-> DocsOnDisk'[q]]
  BY <1>4 DEF DocsOnDisk
<1> QED
  BY <1>5, <1>6, <1>7

LEMMA PutImplements ==
    ASSUME DiskInv, NEW p \in Document, NEW im, NEW inm \in {Nil, Star},
           NEW c \in Content, NEW type \in Type \cup {Nil},
           storage_handle_put(p, im, inm, c, type)
    PROVE  Docs!Next
<1> DEFINE r == Request("PUT", p, FALSE, im, inm, c, type)
<1>1. /\ r.path = p /\ r.folder = FALSE /\ r.ifMatch = im /\ r.ifNoneMatch = inm /\ r.body = c /\ r.type = type
      /\ r.method = "PUT" /\ p \in Path
  BY DEF Request, Document
<1>2. /\ MetasOK(xattr) /\ fs \in Tree /\ fs[<<>>] = Dir
      /\ fs[p] \in Content \/ fs[p] = Dir \/ fs[p] = Absent
  BY <1>1, TypeOKDef DEF DiskInv, IInv, Populated, Tree, Node
<1>3. /\ MetasOK(xattr')
      /\ \/ Unchanged
         \/ Stored(r) /\ reply'.status \in {200, 201} /\ \A q \in Path \ {p} : SameType(q)
  <2>1. p \in Path
    BY DEF Document
  <2> QED
    BY <1>2, <2>1, PutEffect
<1>4. \/ put_fails_precondition(p, im, inm) /\ Refuse(r, 412)
      \/ non_directory_parent(p) /\ Refuse(r, 400)
      \/ cannot_open(p) /\ Refuse(r, 500)
      \/ /\ ~put_fails_precondition(p, im, inm) /\ ~non_directory_parent(p) /\ ~cannot_open(p)
         /\ put_document(r)
  BY DEF storage_handle_put
<1> HIDE DEF r
<1>5. /\ Docs!Exists(p) <=> fs[p] \in Content
      /\ Docs!Possible(p) <=> ~cannot_open(p) /\ ~non_directory_parent(p)
  BY <1>1, <1>2, DocsAreFiles, NodeAssumption DEF cannot_open, non_directory_parent
<1>6. Docs!Possible(p) => (Docs!Expected(r) <=> ~put_fails_precondition(p, im, inm))
  <2>1. Docs!Possible(p) => fs[p] # Dir
    BY <1>1, DocsAreFiles
  <2>2. Docs!Expected(r) <=>
             /\ im # Nil => fs[p] \in Content /\ im = Etag(p)
             /\ inm # Nil => fs[p] \notin Content
    BY <1>1, ExpectedHolds
  <2> QED
    BY <1>2, <2>1, <2>2, NodeAssumption, StorageAssumption DEF put_fails_precondition
<1> DEFINE OK == Docs!Put(r) /\ WithoutFolderVersions'.request = r
<1>7. ASSUME NEW status \in {400, 412, 500}, Refuse(r, status),
             ~Docs!Possible(p) \/ (status = 412 /\ ~Docs!Expected(r))
      PROVE  OK
  <2>1. Unchanged
    BY <1>3, <1>7, RefuseStatus
  <2>2. /\ \A statuses : status \in statuses => Docs!Refuse(r, statuses)
        /\ WithoutFolderVersions'.request = r
    <3>1. r.folder \in BOOLEAN /\ (r.folder => ~(r.method = "GET" /\ status = 200))
      BY <1>1
    <3> QED
      BY <1>7, <2>1, <3>1, DocsRefuse
  <2>3. Docs!Refuse(r, {400, 412, 500}) /\ (status = 412 => Docs!Refuse(r, {412}))
    BY <2>2
  <2> QED
    BY <1>1, <1>7, <2>2, <2>3 DEF Docs!Put
<1>8. ASSUME ~put_fails_precondition(p, im, inm), Docs!Possible(p), put_document(r)
      PROVE  OK
  <2> DEFINE sent == IF type = Nil THEN OctetStream ELSE type
             stored == [Matched(p, im) EXCEPT ![p] = content_type_to_xattr(@, sent)]
  <2>1. /\ Answer(r, IF fs[p] = Absent THEN 201 ELSE 200, get_etag(fs', stored, p), Nil, sent)
        /\ fs' = WithFile(fs, p, c)
    BY <1>1, <1>8 DEF put_document
  <2> HIDE DEF stored, sent
  <2>2. get_etag(fs', stored, p) = FileDigest(c)
    <3>1. fs'[p] = c
      BY <1>1, <2>1 DEF WithFile
    <3> QED
      BY <3>1, NoCachedEtag, NodeAssumption DEF get_etag, node_etag
  <2>3. Stored(r) /\ \A q \in Path \ {r.path} : SameType(q)
    BY <1>1, <1>2, <1>5, <1>8, PutDocumentEffect
  <2>4. \E t \in ContentType : DocsOnDisk' = [DocsOnDisk EXCEPT ![p] = [body |-> c, type |-> t]]
    BY <1>1, <1>3, <2>3, DocsStored
  <2>5. /\ Docs!Respond(r, IF fs[p] = Absent THEN 201 ELSE 200, FileDigest(c), Nil, sent)
        /\ WithoutFolderVersions'.request = r /\ WithoutFolderVersions'.type = sent
    BY <1>1, <2>1, <2>2, DocumentAnswer
  <2>6. (IF fs[p] = Absent THEN 201 ELSE 200) = (IF Docs!Exists(p) THEN 200 ELSE 201)
    BY <1>2, <1>5, <1>8, NodeAssumption DEF cannot_open
  <2>7. Docs!Respond(r, IF Docs!Exists(p) THEN 200 ELSE 201, [d \in Content |-> FileDigest(d)][c],
                     Nil, WithoutFolderVersions'.type)
    BY <2>5, <2>6
  <2> QED
    BY <1>1, <1>6, <1>8, <2>4, <2>5, <2>7 DEF Docs!Put
<1> HIDE DEF OK
<1>9. OK
  BY <1>4, <1>5, <1>6, <1>7, <1>8
<1> QED
  BY <1>1, <1>9 DEF Docs!Next, OK

LEMMA DeleteImplements ==
    ASSUME DiskInv, NEW p \in Document, NEW im, storage_handle_delete(p, im)
    PROVE  Docs!Next
<1> DEFINE r == Request("DELETE", p, FALSE, im, Nil, Nil, Nil)
<1>1. /\ r.path = p /\ r.folder = FALSE /\ r.ifMatch = im /\ r.ifNoneMatch = Nil
      /\ r.method = "DELETE" /\ p \in Path
  BY DEF Request, Document
<1>2. /\ MetasOK(xattr) /\ fs \in Tree
      /\ fs[p] \in Content \/ fs[p] = Dir \/ fs[p] = Absent
  BY <1>1, TypeOKDef DEF DiskInv, IInv, Tree, Node
<1>3. \/ Unchanged
      \/ Deleted(r) /\ reply'.status = 200 /\ \A q \in Path : fs'[q] # Absent => SameType(q)
  <2>1. p \in Path
    BY DEF Document
  <2> QED
    BY <1>2, <2>1, DeleteEffect
<1>4. \/ fs[p] = Absent /\ Refuse(r, 404)
      \/ fs[p] = Dir /\ Refuse(r, 400)
      \/ fs[p] \in Content /\ ~(im = Nil \/ im = Etag(p)) /\ Refuse(r, 412)
      \/ fs[p] \in Content /\ (im = Nil \/ im = Etag(p)) /\ delete_document(r)
  BY DEF storage_handle_delete
<1> HIDE DEF r
<1>5. /\ Docs!Exists(p) <=> fs[p] \in Content
      /\ Docs!IsFolder(p) <=> fs[p] = Dir
  BY <1>1, DocsAreFiles
<1>6. Docs!Expected(r) <=> (im # Nil => fs[p] \in Content /\ im = Etag(p))
  BY <1>1, ExpectedHolds
<1> DEFINE OK == Docs!Delete(r) /\ WithoutFolderVersions'.request = r
<1>7. ASSUME NEW status \in {400, 404, 412}, Refuse(r, status),
             \/ status = 404 /\ fs[p] = Absent
             \/ status = 400 /\ fs[p] = Dir
             \/ status = 412 /\ fs[p] \in Content /\ ~Docs!Expected(r)
      PROVE  OK
  <2>1. Unchanged
    BY <1>3, <1>7, RefuseStatus
  <2>2. /\ \A statuses : status \in statuses => Docs!Refuse(r, statuses)
        /\ WithoutFolderVersions'.request = r
    <3>1. r.folder \in BOOLEAN /\ (r.folder => ~(r.method = "GET" /\ status = 200))
      BY <1>1
    <3> QED
      BY <1>7, <2>1, <3>1, DocsRefuse
  <2>3. Docs!Refuse(r, {status})
    BY <2>2
  <2> QED
    BY <1>1, <1>5, <1>7, <2>2, <2>3, NodeAssumption DEF Docs!Delete
<1>8. ASSUME fs[p] \in Content, Docs!Expected(r), delete_document(r)
      PROVE  OK
  <2>1. Answer(r, 200, Etag(p), Nil, Nil) /\ fs' = WithoutFile(fs, p)
    BY <1>1, <1>8 DEF delete_document
  <2>2. Deleted(r) /\ \A q \in Path : fs'[q] # Absent => SameType(q)
    BY <1>1, <1>8, <2>1 DEF Deleted, delete_document, SameType
  <2>3. DocsOnDisk' = [DocsOnDisk EXCEPT ![p] = Absent]
    BY <1>1, <2>2, DocsDeleted
  <2>4. [c \in Content |-> FileDigest(c)][DocsOnDisk[p].body] = Etag(p)
    BY <1>1, <1>8, DocVersion
  <2>5. /\ Docs!Respond(r, 200, [c \in Content |-> FileDigest(c)][DocsOnDisk[p].body], Nil, Nil)
        /\ WithoutFolderVersions'.request = r
    BY <1>1, <2>1, <2>4, DocumentAnswer
  <2> QED
    BY <1>1, <1>5, <1>8, <2>3, <2>5 DEF Docs!Delete
<1> HIDE DEF OK
<1>9. OK
  BY <1>4, <1>6, <1>7, <1>8
<1> QED
  BY <1>1, <1>9 DEF Docs!Next, OK

\* What is refused whatever the path: HEAD without --experimental, and writing
\* to a folder.
LEMMA RefusalImplements ==
    ASSUME DiskInv, NEW r, r.path \in Path, r.folder \in BOOLEAN, UNCHANGED xattr,
           \/ r.method = "HEAD" /\ Refuse(r, 405)
           \/ r.method \in {"PUT", "DELETE"} /\ r.folder /\ Refuse(r, 400)
    PROVE  Docs!Next
<1>1. Unchanged
  BY DEF Refuse, Unchanged, SameType
<1>2. CASE r.method = "HEAD" /\ Refuse(r, 405)
  <2>1. Docs!Refuse(r, {405}) /\ WithoutFolderVersions'.request = r
    BY <1>1, <1>2, DocsRefuse
  <2> QED
    BY <1>2, <2>1 DEF Docs!Next, Docs!NotServed
<1>3. CASE r.method \in {"PUT", "DELETE"} /\ r.folder /\ Refuse(r, 400)
  <2>1. Docs!Refuse(r, {400}) /\ WithoutFolderVersions'.request = r
    <3>1. Unchanged /\ Refuse(r, 400) /\ r.method # "GET"
      BY <1>1, <1>3
    <3>2. /\ \A statuses : 400 \in statuses => Docs!Refuse(r, statuses)
          /\ WithoutFolderVersions'.request = r
      BY <3>1, DocsRefuse
    <3> QED
      BY <3>2
  <2> QED
    BY <1>3, <2>1 DEF Docs!Next, Docs!Put, Docs!Delete
<1> QED
  BY <1>2, <1>3

LEMMA NextImplementsDocs ==
    ASSUME ~OutOfBand, DiskInv, [Next]_vars
    PROVE  [Docs!Next]_(Docs!vars)
<1>1. CASE UNCHANGED vars
  <2>1. Unchanged /\ WithoutFolderVersions' = WithoutFolderVersions
    BY <1>1 DEF vars, Unchanged, SameType, WithoutFolderVersions
  <2> QED
    BY <2>1, DocsUnchanged DEF Docs!vars
<1>2. ASSUME NEW p \in Path, NEW folder \in BOOLEAN, NEW inm,
             storage_handle_get(p, folder, inm) \/ storage_handle_head(p, folder, inm)
      PROVE  Docs!Next
  <2> DEFINE r == Request("HEAD", p, folder, Nil, inm, Nil, Nil)
  <2>1. r.path = p /\ r.folder = folder /\ r.method = "HEAD"
    BY DEF Request
  <2>2. \/ handle_get_or_head(Request("GET", p, folder, Nil, inm, Nil, Nil))
        \/ handle_get_or_head(Request("HEAD", p, folder, Nil, inm, Nil, Nil))
        \/ Refuse(r, 405) /\ UNCHANGED xattr
    BY <1>2 DEF storage_handle_get, storage_handle_head
  <2> HIDE DEF r
  <2> QED
    BY <2>1, <2>2, ReadImplements, RefusalImplements
<1>3. ASSUME NEW p \in Path, NEW method \in {"PUT", "DELETE"}, refuse_folder(method, p)
      PROVE  Docs!Next
  <2> DEFINE r == Request(method, p, TRUE, Nil, Nil, Nil, Nil)
  <2>1. r.path = p /\ r.folder = TRUE /\ r.method = method
    BY DEF Request
  <2>2. Refuse(r, 400) /\ UNCHANGED xattr
    BY <1>3 DEF refuse_folder
  <2> HIDE DEF r
  <2> QED
    BY <2>1, <2>2, RefusalImplements
<1>4. CASE Next
  BY <1>2, <1>3, <1>4, PutImplements, DeleteImplements DEF Next, OobWrite, OobMkdir, OobRemove, OobStep
<1> QED
  BY <1>1, <1>4

LEMMA InitImplementsDocs ==
    ASSUME ~OutOfBand, Init
    PROVE  Populated(fs) /\ Docs!Init
<1>1. fs = [p \in Path |-> IF p = <<>> THEN Dir ELSE Absent]
  BY PathAssumption DEF Init
<1>2. Populated(fs)
  BY <1>1, PathAssumption, NodeAssumption DEF Populated
<1>3. DocsOnDisk = [p \in Path |-> Absent]
  BY <1>1, NodeAssumption DEF DocsOnDisk
<1>4. WithoutFolderVersions.request.method = "none"
  <2>1. reply.request = NoRequest /\ reply = NoReply
    BY DEF Init, NoReply
  <2>2. NoRequest.method = "none"
    BY DEF NoRequest, Request
  <2>3. WithoutFolderVersions.request = reply.request
    BY <2>1 DEF WithoutFolderVersions, NoReply
  <2> QED
    BY <2>1, <2>2, <2>3
<1> QED
  BY <1>2, <1>3, <1>4 DEF Docs!Init

\* Unless users edit the files, clients cannot tell the handlers, with their
\* directories, attributes and cached etags, from a map of documents with
\* conditional, atomic updates.
THEOREM DocumentsAreStored ==
    ASSUME ~OutOfBand
    PROVE  Spec => ImplementsDocStore
<1>1. Init => DiskInv
  BY InitIInv, InitImplementsDocs DEF DiskInv
<1>2. DiskInv /\ [Next]_vars => DiskInv'
  BY NextIInv, NextPopulated DEF DiskInv
<1>3. DiskInv /\ [Next]_vars => [Docs!Next]_(Docs!vars)
  BY NextImplementsDocs
<1>4. Init => Docs!Init
  BY InitImplementsDocs
<1> QED
  BY <1>1, <1>2, <1>3, <1>4, PTL DEF Spec, ImplementsDocStore, Docs!Spec
=============================================================================
