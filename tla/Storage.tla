------------------------------ MODULE Storage -------------------------------
(***************************************************************************)
(* src/handler/storage.c: the storage handler, serving GET, HEAD, PUT and  *)
(* DELETE for one user's storage root.                                     *)
(*                                                                         *)
(* rs-serve runs its handlers in one libevent loop, each to its end, so a  *)
(* request is one step here; StorageIO models a request call by call.      *)
(* The user may also edit the files behind the server's back (README.md:   *)
(* "out-of-band"): the Oob actions, enabled by OutOfBand.                  *)
(***************************************************************************)
EXTENDS Attributes

CONSTANTS
    Experimental,   \* the --experimental option: HEAD is served
    OutOfBand,      \* files are also edited without the server
    OctetStream     \* the type of a PUT that names none

Star == "*"                        \* the only If-None-Match a PUT heeds

ASSUME StorageAssumption ==
    /\ Nil # Star
    /\ Experimental \in BOOLEAN
    /\ OutOfBand \in BOOLEAN
    /\ OctetStream \in [mime : Mime, charset : Charset]
    /\ Absent \notin [body : Content, type : ContentType]

VARIABLES
    fs,      \* the tree below the storage root
    xattr,   \* the extended attributes of each node
    reply    \* the last request with its response, an output only

vars == <<fs, xattr, reply>>

Methods == {"GET", "HEAD", "PUT", "DELETE"}

(***************************************************************************)
(* A request names a document, or (with a slash at its end) a folder.      *)
(* Nil stands for a header or body that is not sent, in both directions.   *)
(***************************************************************************)
Request(method, p, folder, im, inm, body, type) ==
    [method |-> method, path |-> p, folder |-> folder, ifMatch |-> im,
     ifNoneMatch |-> inm, body |-> body, type |-> type]

\* No request was made.
NoRequest == Request("none", <<>>, TRUE, Nil, Nil, Nil, Nil)

\* What the client sees: the request it sent, the status, the ETag, the
\* body and the Content-Type of the response.
Answer(request, status, version, body, type) ==
    reply' = [request |-> request, status |-> status, version |-> version,
              body |-> body, type |-> type]

NoReply == [request |-> NoRequest, status |-> 0, version |-> Nil,
            body |-> Nil, type |-> Nil]

Refuse(request, status) ==
    /\ Answer(request, status, Nil, Nil, Nil)
    /\ UNCHANGED fs

Etag(p) == get_etag(fs, xattr, p)
Touched(p) == set_etags(fs, xattr, p)

-----------------------------------------------------------------------------
(***************************************************************************)
(* handle_get_or_head(), serve_directory(), serve_file_head(), serve_file()*)
(***************************************************************************)

\* stat() fails, or finds a document for a folder's path or the reverse.
get_not_found(r) ==
    /\ fs[r.path] = Absent \/ (r.folder <=> fs[r.path] # Dir)
    /\ Refuse(r, 404)
    /\ UNCHANGED xattr

\* One key per entry, a folder's with a slash, and the entry's etag.
Listing(p) ==
    {[name |-> n, folder |-> fs[Append(p, n)] = Dir, version |-> Etag(Append(p, n))] :
        n \in {NameOrder[i] : i \in {j \in 1..Len(NameOrder) :
                 Append(p, NameOrder[j]) \in Path /\ fs[Append(p, NameOrder[j])] # Absent}}}

\* serve_directory() does not look at If-None-Match.
serve_directory(r) ==
    /\ r.method = "GET" /\ r.folder
    /\ fs[r.path] = Dir
    /\ Answer(r, 200, Etag(r.path), Listing(r.path), Nil)
    /\ xattr' = Touched(r.path)
    /\ UNCHANGED fs

\* serve_file_head() finds the version the client has.
not_modified(r) ==
    /\ r.method = "HEAD" \/ ~r.folder
    /\ fs[r.path] # Absent
    /\ r.folder <=> fs[r.path] = Dir
    /\ r.ifNoneMatch = Etag(r.path)
    /\ Refuse(r, 304)
    /\ xattr' = Touched(r.path)

\* The type a document is served with: remembered, or guessed by libmagic.
served_type(t, x, p) ==
    LET remembered == content_type_from_xattr(x[p])
    IN  IF remembered = Nil THEN Magic[t[p]] ELSE remembered

serve_file_head(r) ==
    /\ r.method = "HEAD" \/ ~r.folder
    /\ fs[r.path] # Absent
    /\ r.folder <=> fs[r.path] = Dir
    /\ r.ifNoneMatch # Etag(r.path)
    /\ Answer(r, 200, Etag(r.path),
              IF r.method = "GET" THEN fs[r.path] ELSE Nil,
              IF r.folder THEN Nil ELSE served_type(fs, xattr, r.path))
    /\ xattr' = Touched(r.path)
    /\ UNCHANGED fs

handle_get_or_head(r) ==
    \/ get_not_found(r)
    \/ serve_directory(r)
    \/ not_modified(r)
    \/ serve_file_head(r)

storage_handle_get(p, folder, inm) ==
    handle_get_or_head(Request("GET", p, folder, Nil, inm, Nil, Nil))

storage_handle_head(p, folder, inm) ==
    LET r == Request("HEAD", p, folder, Nil, inm, Nil, Nil) IN
    \/ Experimental /\ handle_get_or_head(r)
    \/ ~Experimental /\ Refuse(r, 405) /\ UNCHANGED xattr

-----------------------------------------------------------------------------
(***************************************************************************)
(* storage_handle_put() and storage_handle_delete().  Both refuse folders. *)
(***************************************************************************)
refuse_folder(method, p) ==
    /\ Refuse(Request(method, p, TRUE, Nil, Nil, Nil, Nil), 400)
    /\ UNCHANGED xattr

\* Evaluating If-Match takes the etag of what exists, and so stores it.
Matched(p, im) == IF im # Nil /\ fs[p] # Absent THEN Touched(p) ELSE xattr

\* Bug: If-Match only looked at if the document exists.
put_fails_precondition_if_exists(p, im, inm) ==
    fs[p] # Absent /\ ((im # Nil /\ im # Etag(p)) \/ inm = Star)

put_fails_precondition(p, im, inm) ==
    \/ im # Nil /\ (fs[p] = Absent \/ im # Etag(p))
    \/ inm = Star /\ fs[p] # Absent

\* Bug: the walk does not look at what it walks through.
non_directory_parent_unchecked(p) == FALSE

\* The walk through the parents meets a document.
non_directory_parent(p) == \E q \in Above(p) : fs[q] \in Content

\* Bug: a directory replaced by a document.
cannot_open_over_folder(p) == fs[<<>>] = Absent

\* The root cannot be opened for that walk, or p not for writing.
cannot_open(p) == fs[<<>>] = Absent \/ fs[p] = Dir

put_document(r) ==
    LET p      == r.path
        type   == IF r.type = Nil THEN OctetStream ELSE r.type
        stored == [Matched(p, r.ifMatch) EXCEPT ![p] = content_type_to_xattr(@, type)]
    IN  /\ fs' = WithFile(fs, p, r.body)
        /\ xattr' = set_etags(fs', stored, p)
        /\ Answer(r, IF fs[p] = Absent THEN 201 ELSE 200,
                  get_etag(fs', stored, p), Nil, type)

storage_handle_put(p, im, inm, c, type) ==
    LET r == Request("PUT", p, FALSE, im, inm, c, type) IN
    \/ /\ put_fails_precondition(p, im, inm)
       /\ Refuse(r, 412)
       /\ xattr' = Matched(p, im)
    \/ /\ ~put_fails_precondition(p, im, inm)
       /\ non_directory_parent(p)
       /\ Refuse(r, 400)
       /\ xattr' = Matched(p, im)
    \/ /\ ~put_fails_precondition(p, im, inm)
       /\ cannot_open(p)
       /\ Refuse(r, 500)
       /\ xattr' = Matched(p, im)
    \/ /\ ~put_fails_precondition(p, im, inm)
       /\ ~non_directory_parent(p) /\ ~cannot_open(p)
       /\ put_document(r)

delete_document(r) ==
    /\ fs' = WithoutFile(fs, r.path)
    /\ xattr' = [q \in Path |-> IF fs'[q] = Absent THEN NoMeta ELSE xattr[q]]
    /\ Answer(r, 200, Etag(r.path), Nil, Nil)

storage_handle_delete(p, im) ==
    LET r == Request("DELETE", p, FALSE, im, Nil, Nil, Nil)
        matches == im = Nil \/ im = Etag(p)
    IN
    \/ fs[p] = Absent /\ Refuse(r, 404) /\ UNCHANGED xattr
    \/ fs[p] = Dir /\ Refuse(r, 400) /\ UNCHANGED xattr
    \/ fs[p] \in Content /\ ~matches /\ Refuse(r, 412) /\ xattr' = Touched(p)
    \/ fs[p] \in Content /\ matches /\ delete_document(r)

-----------------------------------------------------------------------------
(***************************************************************************)
(* Out-of-band edits, one system call each: a file is written in place     *)
(* (keeping its attributes) or replaced by a new one (losing them),        *)
(* removed, and directories are made and removed.                          *)
(***************************************************************************)
OobStep == OutOfBand /\ reply' = NoReply

OobWrite(p, c, inPlace) ==
    /\ OobStep
    /\ p # <<>> /\ fs[Parent(p)] = Dir /\ fs[p] # Dir
    /\ fs' = [fs EXCEPT ![p] = c]
    /\ xattr' = IF inPlace THEN xattr ELSE [xattr EXCEPT ![p] = NoMeta]

OobMkdir(p) ==
    /\ OobStep
    /\ fs[p] = Absent /\ (p # <<>> => fs[Parent(p)] = Dir)
    /\ fs' = [fs EXCEPT ![p] = Dir]
    /\ UNCHANGED xattr

OobRemove(p) ==
    /\ OobStep
    /\ fs[p] \in Content \/ (p # <<>> /\ EmptyDir(fs, p))
    /\ fs' = [fs EXCEPT ![p] = Absent]
    /\ xattr' = [xattr EXCEPT ![p] = NoMeta]

-----------------------------------------------------------------------------
(***************************************************************************)
(* The versions a client may know: any document's, and p's current one.    *)
(***************************************************************************)
KnownVersion(p) ==
    {Nil} \cup {FileDigest(c) : c \in Content}
          \cup (IF fs[p] = Absent THEN {} ELSE {Etag(p)})

Init ==
    /\ fs \in {[p \in Path |-> Absent],
               [p \in Path |-> IF p = <<>> THEN Dir ELSE Absent]}
    /\ fs[<<>>] = Absent => OutOfBand
    /\ xattr = [p \in Path |-> NoMeta]
    /\ reply = NoReply

Document == Path \ {<<>>}

Next ==
    \/ \E p \in Path, folder \in BOOLEAN : \E inm \in KnownVersion(p) :
         /\ p = <<>> => folder
         /\ \/ storage_handle_get(p, folder, inm)
            \/ storage_handle_head(p, folder, inm)
    \/ \E p \in Path, method \in {"PUT", "DELETE"} : refuse_folder(method, p)
    \/ \E p \in Document : \E im \in KnownVersion(p), inm \in {Nil, Star} :
         \E c \in Content, type \in Type \cup {Nil} :
            storage_handle_put(p, im, inm, c, type)
    \/ \E p \in Document : \E im \in KnownVersion(p) : storage_handle_delete(p, im)
    \/ \E p \in Document, c \in Content, inPlace \in BOOLEAN : OobWrite(p, c, inPlace)
    \/ \E p \in Path : OobMkdir(p) \/ OobRemove(p)

Spec == Init /\ [][Next]_vars

-----------------------------------------------------------------------------
(***************************************************************************)
(* Properties.  Those of steps hold of what the server does, in whatever   *)
(* state the out-of-band edits have left the disk.                         *)
(***************************************************************************)

\* fs is a tree of nodes, and attributes are those rs-serve sets.
TypeOK ==
    /\ fs \in Tree
    /\ xattr = [p \in Path |-> [etag    |-> xattr[p].etag,
                                mime    |-> xattr[p].mime,
                                charset |-> xattr[p].charset]]
    /\ \A p \in Path : /\ xattr[p].mime \in Mime \cup {Nil}
                       /\ xattr[p].charset \in Charset \cup {Nil}

\* A document never lies below another document, nor below a directory that
\* PUT did not make or DELETE pruned too early (the mkdirat() walk of
\* storage_handle_put, the unlinkat() loop of storage_handle_delete).
TreeClosed == Closed(fs)

Serves(methods) == reply'.request.method \in methods
Succeeds == reply'.status \in {200, 201}
Target == reply'.request.path

\* A request changes no document but the one it names, and that one only if
\* it is a PUT or DELETE that succeeds: a refused request, a read, the walk
\* through the parents and their pruning leave every document and the type
\* it is served with as they were.
OnlyTargetChanges ==
    [][Serves(Methods) =>
         \A p \in Path :
            \/ p = Target /\ Serves({"PUT", "DELETE"}) /\ Succeeds
            \/ {fs[p], fs'[p]} \cap Content = {}
            \/ /\ fs'[p] = fs[p]
               /\ served_type(fs', xattr', p) = served_type(fs, xattr, p)]_vars

\* No request leaves an empty directory behind that was not there before: a
\* PUT that is refused made none, a DELETE prunes all it emptied.
NoEmptyFolderLeft ==
    [][Serves(Methods) =>
         \A p \in Path \ {<<>>} : EmptyDir(fs', p) => EmptyDir(fs, p)]_vars

\* No lost update: a conditional PUT or DELETE succeeds only on the document
\* the client knows, or on none with If-None-Match: *, and 412 is only
\* answered if that is not what is stored (storage.c:70-86, 259-262).
Holds(r) ==
    /\ r.ifMatch # Nil => fs[r.path] \in Content /\ r.ifMatch = FileDigest(fs[r.path])
    /\ r.ifNoneMatch # Nil => fs[r.path] = Absent

ConditionalWrite ==
    [][Serves({"PUT", "DELETE"}) =>
         /\ Succeeds => Holds(reply'.request)
         /\ reply'.status = 412 => ~Holds(reply'.request)]_vars

\* The etags of a tree's nodes, with nothing cached.
TrueEtag(t) ==
    LET etag[p \in Path] ==
          LET names == Entries(t, p) IN
          IF t[p] = Dir
          THEN FolderDigest([i \in DOMAIN names |-> etag[Append(p, names[i])]])
          ELSE FileDigest(t[p])
    IN  etag

\* Every version the server hands out or confirms is that of what is on disk
\* when it answers, in a folder's listing too: no cached etag is stale.
VersionsAreCurrent ==
    [][/\ Serves({"GET", "HEAD", "PUT"}) /\ Succeeds =>
             reply'.version = TrueEtag(fs')[Target]
       /\ Serves({"GET"}) /\ Succeeds /\ reply'.request.folder =>
             reply'.body = {[name    |-> q[Len(q)],
                             folder  |-> fs[q] = Dir,
                             version |-> TrueEtag(fs)[q]] :
                               q \in {r \in Path \ {<<>>} :
                                        Parent(r) = Target /\ fs[r] # Absent}}
       /\ Serves({"GET", "HEAD"}) /\ reply'.status = 304 =>
             reply'.request.ifNoneMatch = TrueEtag(fs)[Target]]_vars

\* What a successful PUT stores is what the next GET serves, content and
\* type, with the charset the server assumes if the client named none; for
\* types short enough for attributes.c to read back.
Fits(type) ==
    /\ MimeSize[type.mime] < 128
    /\ CharsetSize[type.charset] < 64

PutIsStored ==
    [][Serves({"PUT"}) /\ Succeeds =>
         LET sent == IF reply'.request.type = Nil THEN OctetStream ELSE reply'.request.type
             type == [sent EXCEPT !.charset = IF @ = Nil THEN UTF8 ELSE @]
         IN  /\ fs'[Target] = reply'.request.body
             /\ Fits(type) => served_type(fs', xattr', Target) = type]_vars

-----------------------------------------------------------------------------
(***************************************************************************)
(* What the repository says of the program and the code does not do.       *)
(***************************************************************************)

\* CHANGELOG:2 has etags cached in extended attributes: one that is stored
\* there is what get_etag() goes by.
EtagCacheEffective ==
    \A p \in Path : xattr[p].etag # Nil => cached_etag(xattr[p]) = xattr[p].etag

-----------------------------------------------------------------------------
(***************************************************************************)
(* Storage implements DocStore when nobody edits the files: a file is a    *)
(* document, a directory nothing but a consequence of the documents below  *)
(* it.  DocStore says nothing of the versions of folders.                  *)
(***************************************************************************)
DocsOnDisk ==
    [p \in Path |-> IF fs[p] \in Content
                    THEN [body |-> fs[p], type |-> served_type(fs, xattr, p)]
                    ELSE Absent]

WithoutFolderVersions ==
    IF reply.request.folder
    THEN [reply EXCEPT !.version = Nil,
                       !.body = IF reply.request.method = "GET" /\ reply.status = 200
                                THEN {[name |-> e.name, folder |-> e.folder] : e \in @}
                                ELSE @]
    ELSE reply

Docs == INSTANCE DocStore WITH
            docs    <- DocsOnDisk,
            reply   <- WithoutFolderVersions,
            Type    <- ContentType,
            Version <- [c \in Content |-> FileDigest(c)]

\* Conditional, atomic updates of a map of documents is all that clients see
\* of the handlers, their directories and their attributes.
ImplementsDocStore == Docs!Spec
=============================================================================
