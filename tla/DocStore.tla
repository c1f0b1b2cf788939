------------------------------ MODULE DocStore ------------------------------
(***************************************************************************)
(* What the storage of one user promises its clients (README.md:66-72,     *)
(* 130-134): a map from paths to documents with conditional, atomic        *)
(* updates, in which no path is a document and a folder, and folders are   *)
(* there exactly as long as a document is in them.  There are no           *)
(* directories, attributes or caches here.                                 *)
(***************************************************************************)
EXTENDS FileTree

CONSTANTS
    Nil,        \* a header or body that is not sent
    Type,       \* the types documents are served with
    Version     \* the version of each content

VARIABLES
    docs,       \* docs[p] is the document p, or Absent
    reply       \* the last request, with its response

vars == <<docs, reply>>

Doc == [body : Content, type : Type]

Exists(p) == docs[p] # Absent
IsFolder(p) == p = <<>> \/ \E q \in Path : p \in Above(q) /\ Exists(q)

\* p is a document, or may become one.
Possible(p) == ~IsFolder(p) /\ \A q \in Above(p) : ~Exists(q)

\* The names in folder p, and which are folders.
Members(p) ==
    {[name |-> q[Len(q)], folder |-> ~Exists(q)] :
        q \in {r \in Path : /\ r # <<>> /\ p = Parent(r)
                            /\ Exists(r) \/ IsFolder(r)}}

Respond(r, status, version, body, type) ==
    reply' = [request |-> r, status |-> status, version |-> version,
              body |-> body, type |-> type]

Refuse(r, statuses) ==
    /\ \E status \in statuses : Respond(r, status, Nil, Nil, Nil)
    /\ UNCHANGED docs

-----------------------------------------------------------------------------
\* HEAD answers as GET does, without a body.
Read(r) ==
    LET p == r.path
        doc == docs[p]
        body(b) == IF r.method = "GET" THEN b ELSE Nil
    IN
    \/ ~r.folder /\ ~Exists(p) /\ Refuse(r, {404})
    \/ /\ ~r.folder /\ Exists(p)
       /\ r.ifNoneMatch = Version[doc.body]
       /\ Refuse(r, {304})
    \/ /\ ~r.folder /\ Exists(p)
       /\ r.ifNoneMatch # Version[doc.body]
       /\ Respond(r, 200, Version[doc.body], body(doc.body), doc.type)
       /\ UNCHANGED docs
    \/ r.folder /\ ~IsFolder(p) /\ Refuse(r, {404})
    \/ /\ r.folder /\ IsFolder(p)
       /\ \/ Respond(r, 200, Nil, body(Members(p)), Nil) /\ UNCHANGED docs
          \/ r.method = "HEAD" /\ Refuse(r, {304})

NotServed(r) == r.method = "HEAD" /\ Refuse(r, {405})

\* The conditions under which the client asked for the write.
Expected(r) ==
    /\ r.ifMatch # Nil => Exists(r.path) /\ r.ifMatch = Version[docs[r.path].body]
    /\ r.ifNoneMatch # Nil => ~Exists(r.path)

Put(r) ==
    LET p == r.path IN
    \/ r.folder /\ Refuse(r, {400})
    \/ ~r.folder /\ ~Possible(p) /\ Refuse(r, {400, 412, 500})
    \/ ~r.folder /\ Possible(p) /\ ~Expected(r) /\ Refuse(r, {412})
    \/ /\ ~r.folder /\ Possible(p) /\ Expected(r)
       /\ \E type \in Type : docs' = [docs EXCEPT ![p] = [body |-> r.body, type |-> type]]
       /\ Respond(r, IF Exists(p) THEN 200 ELSE 201, Version[r.body], Nil, reply'.type)

Delete(r) ==
    LET p == r.path IN
    \/ r.folder /\ Refuse(r, {400})
    \/ ~r.folder /\ ~Exists(p) /\ Refuse(r, IF IsFolder(p) THEN {400} ELSE {404})
    \/ ~r.folder /\ Exists(p) /\ ~Expected(r) /\ Refuse(r, {412})
    \/ /\ ~r.folder /\ Exists(p) /\ Expected(r)
       /\ docs' = [docs EXCEPT ![p] = Absent]
       /\ Respond(r, 200, Version[docs[p].body], Nil, Nil)

-----------------------------------------------------------------------------
Init ==
    /\ docs = [p \in Path |-> Absent]
    /\ reply.request.method = "none"

\* Any request may come; the next reply tells which it was.
Next ==
    LET r == reply'.request IN
    /\ r.path \in Path
    /\ \/ r.method \in {"GET", "HEAD"} /\ Read(r)
       \/ NotServed(r)
       \/ r.method = "PUT" /\ Put(r)
       \/ r.method = "DELETE" /\ Delete(r)

Spec == Init /\ [][Next]_vars
=============================================================================
