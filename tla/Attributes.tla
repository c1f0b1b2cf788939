----------------------------- MODULE Attributes -----------------------------
(***************************************************************************)
(* src/common/attributes.c: the extended attributes rs-serve keeps on each *)
(* node (its cached etag, its mime type and charset), the rule by which an *)
(* attribute can be read back, and the etag of a node.                     *)
(*                                                                         *)
(* SHA1 is taken to be injective, so a digest is what was digested: for a  *)
(* file its content, for a directory the sequence of its entries' digests. *)
(***************************************************************************)
EXTENDS FileTree

CONSTANTS
    Nil,          \* NULL: attribute not set, header not sent
    Mime,         \* the mime types in use
    Charset,      \* the charsets in use
    Type,         \* the Content-Types clients send; each names a mime type, as one that
                  \* is empty or made of ";" gives strlen() a NULL
    MimeSize,     \* strlen() of each mime type
    CharsetSize,  \* strlen() of each charset
    UTF8,         \* the charset assumed when none is given
    Magic         \* the content type libmagic reads off a content

\* A Content-Type: the charset parameter may be missing.
ContentType == [mime : Mime, charset : Charset \cup {Nil}]

ASSUME TypeAssumption ==
    /\ Type \subseteq ContentType
    /\ Nil \notin Mime \cup Charset
    /\ Nil \notin ContentType
    /\ UTF8 \in Charset
    /\ MimeSize \in [Mime -> Nat]
    /\ CharsetSize \in [Charset -> Nat]
    /\ Magic \in [Content -> [mime : Mime, charset : Charset]]

NoMeta == [etag |-> Nil, mime |-> Nil, charset |-> Nil]

-----------------------------------------------------------------------------
(***************************************************************************)
(* get_xattr() tries buffers of 32, 48, ... bytes up to maxlen; the value  *)
(* is read if one of them holds it, else it is reported as missing.        *)
(***************************************************************************)
BufferSizes(maxlen) == {n \in 32..maxlen : (n - 32) % 16 = 0}

\* Bug: buffers grown until the value fits.
get_xattr_growing(value, len, maxlen) == value

get_xattr(value, len, maxlen) ==
    IF \E n \in BufferSizes(maxlen) : len <= n THEN value ELSE Nil

\* SHA_DIGEST_LENGTH * 2: an etag is stored without its terminating NUL.
EtagLen == 40

\* Bug: a limit that leaves room for the stored etag, which no PUT or edit resets.
cached_etag_readable(m) ==
    IF m.etag = Nil THEN Nil ELSE get_xattr(m.etag, EtagLen, EtagLen + 8)

\* The cached etag of a node, as the first lines of get_etag() read it.
cached_etag(m) ==
    IF m.etag = Nil THEN Nil ELSE get_xattr(m.etag, EtagLen, EtagLen + 1)

\* Bug: the two attributes swapped.
content_type_to_xattr_swapped(m, type) ==
    [m EXCEPT !.mime = IF type.charset = Nil THEN UTF8 ELSE type.charset,
              !.charset = type.mime]

\* Bug: no charset stored when the client names none.
content_type_to_xattr_no_default(m, type) ==
    [m EXCEPT !.mime = type.mime, !.charset = type.charset]

content_type_to_xattr(m, type) ==
    [m EXCEPT !.mime    = type.mime,
              !.charset = IF type.charset = Nil THEN UTF8 ELSE type.charset]

content_type_from_xattr(m) ==
    LET mime == IF m.mime = Nil THEN Nil
                ELSE get_xattr(m.mime, MimeSize[m.mime] + 1, 128)
        charset == IF m.charset = Nil THEN Nil
                   ELSE get_xattr(m.charset, CharsetSize[m.charset] + 1, 64)
    IN  IF mime = Nil THEN Nil ELSE [mime |-> mime, charset |-> charset]

-----------------------------------------------------------------------------
Digest(content, kids) == [leaf |-> content, kids |-> kids]
FileDigest(content)   == Digest(content, <<>>)
FolderDigest(kids)    == Digest(Empty, kids)  \* SHA1 of nothing, if no kids

(***************************************************************************)
(* The etag get_etag() returns for node p of tree t with attributes x: the *)
(* cached one if it can be read, else that of the content or of the        *)
(* entries.                                                                *)
(***************************************************************************)
node_etag(t, x, p, etag) ==
    LET names == Entries(t, p) IN
    IF cached_etag(x[p]) # Nil THEN cached_etag(x[p])
    ELSE IF t[p] = Dir
         THEN FolderDigest([i \in DOMAIN names |-> etag[Append(p, names[i])]])
         ELSE FileDigest(t[p])

get_etag(t, x, p) ==
    LET etag[q \in Path] == node_etag(t, x, q, etag)
    IN  node_etag(t, x, p, etag)

\* Bug: setting an entry's etag loses its other attributes.
set_etags_replacing(t, x, p) ==
    [q \in Path |-> IF t[q] # Absent /\ p \in Above(q)
                    THEN [NoMeta EXCEPT !.etag = get_etag(t, x, q)]
                    ELSE x[q]]

(***************************************************************************)
(* The attributes after get_etag() of node p: it stores the etag on every  *)
(* node it computes one for, p and, not beyond a node whose cached etag it *)
(* could read, all that is below p.                                        *)
(***************************************************************************)
set_etags(t, x, p) ==
    LET Known(q)    == cached_etag(x[q]) # Nil
        BelowP(q)   == q = p \/ p \in Above(q)
        Computed(q) == /\ t[q] # Absent /\ BelowP(q) /\ ~Known(q)
                       /\ \A r \in Above(q) : BelowP(r) => ~Known(r)
    IN  [q \in Path |-> IF Computed(q)
                        THEN [x[q] EXCEPT !.etag = get_etag(t, x, q)]
                        ELSE x[q]]
=============================================================================
