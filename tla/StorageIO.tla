----------------------------- MODULE StorageIO ------------------------------
(***************************************************************************)
(* src/handler/storage.c, one system call at a time.  Storage takes a      *)
(* handler as one step; here the server may be killed between two calls,   *)
(* the disk may be full or no descriptor left, and the user may edit and   *)
(* move the files while a request is served.                               *)
(*                                                                         *)
(* pc names the next call of the handler.  A version is represented by     *)
(* the content it is the version of.  Content types, folder requests and   *)
(* If-None-Match are left to Storage.                                      *)
(***************************************************************************)
EXTENDS FileTree

CONSTANTS
    Nil,        \* nothing: no header, no body, no response yet
    Partial,    \* for each content, those a write of it may end early with
    MayCrash,   \* the server may be killed and started again
    MayFail,    \* mkdirat(), open() and write() may find the disk full, and
                \* open() no descriptor left
    MaxEdits    \* how often the user edits or moves files between the coming
                \* of one request and of the next: a bound

ASSUME StorageIOAssumption ==
    /\ Nil \notin Node \cup Path
    /\ Partial \in [Content -> SUBSET Content]
    /\ {MayCrash, MayFail} \subseteq BOOLEAN
    /\ MaxEdits \in Nat

VARIABLES
    fs,      \* the tree below the storage root
    before,  \* the tree as it would be without the current request
    pc,      \* the next call; "idle"; "down"; or "spin", in an endless loop
    req,     \* the current request, or the last one
    at,      \* the parent directory the handler is at
    held,    \* where the node of the open descriptor is, Nil once removed
    seen,    \* what the handler found at the target
    out,     \* the last response
    edits,   \* how often the user has edited files since the request came
    files,   \* where the target is, or the user has moved it since
    dirs     \* where the directories above it are, or have been moved

user == <<edits, files, dirs>>
vars == <<fs, before, pc, req, at, held, seen, out, edits, files, dirs>>

Document == Path \ {<<>>}
Target == req.path
Busy == pc \notin {"idle", "down"}

NoRequest == [method |-> "none", path |-> <<>>, body |-> Nil, ifMatch |-> Nil]

Goto(label) == pc' = label /\ UNCHANGED out
Reply(status, version, body) ==
    /\ pc' = "idle"
    /\ out' = [status |-> status, version |-> version, body |-> body]
Fail(status) == Reply(status, Nil, Nil)

\* get_etag() returned NULL, which is compared or copied: the process dies.
Die == pc' = "down" /\ UNCHANGED out

-----------------------------------------------------------------------------
(***************************************************************************)
(* All three handlers begin with stat() and look at the etag.              *)
(***************************************************************************)
\* Bug: a PUT without a body is taken for one without a buffer.
Take_no_body(method, p, body, im) ==
    /\ pc = "idle"
    /\ req' = [method |-> method, path |-> p,
               body |-> IF body = Empty THEN Nil ELSE body, ifMatch |-> im]
    /\ before' = fs
    /\ at' = <<>> /\ held' = <<>> /\ seen' = Nil /\ out' = Nil
    /\ pc' = "stat"
    /\ UNCHANGED fs

Take(method, p, body, im) ==
    /\ pc = "idle"
    /\ req' = [method |-> method, path |-> p, body |-> body, ifMatch |-> im]
    /\ before' = fs
    /\ at' = <<>> /\ held' = <<>> /\ seen' = Nil /\ out' = Nil
    /\ pc' = "stat"
    /\ UNCHANGED fs

Stat ==
    /\ pc = "stat"
    /\ seen' = fs[Target]
    /\ \/ req.method = "PUT" /\ Goto("match")
       \/ req.method # "PUT" /\ fs[Target] = Absent /\ Fail(404)
       \/ req.method = "GET" /\ fs[Target] = Dir /\ Fail(404)
       \/ req.method = "DELETE" /\ fs[Target] = Dir /\ Fail(400)
       \/ req.method # "PUT" /\ fs[Target] \in Content /\ Goto("etag")
    /\ UNCHANGED <<fs, before, req, at, held>>

-----------------------------------------------------------------------------
(***************************************************************************)
(* serve_file_head() and serve_file()                                      *)
(***************************************************************************)
GetEtag ==
    /\ pc = "etag" /\ req.method = "GET"
    /\ seen' = fs[Target]
    /\ \/ (fs[Target] = Absent \/ MayFail) /\ Fail(500)
       \/ fs[Target] # Absent /\ Goto("read")
    /\ UNCHANGED <<fs, before, req, at, held>>

\* Bug: one read() is taken for the whole file.
Read_once ==
    /\ pc = "read"
    /\ \/ fs[Target] \notin Content /\ Fail(500)
       \/ /\ fs[Target] \in Content
          /\ \E c \in {fs[Target]} \cup Partial[fs[Target]] : Reply(200, seen, c)
    /\ UNCHANGED <<fs, before, req, at, held, seen>>

\* Bug: the loop reads on until something has been read.
Read_until_some ==
    /\ pc = "read"
    /\ \/ fs[Target] = Absent /\ Fail(500)
       \/ fs[Target] \in Content \ {Empty} /\ Reply(200, seen, fs[Target])
       \/ fs[Target] \in {Empty, Dir} /\ Goto("spin")
    /\ UNCHANGED <<fs, before, req, at, held, seen>>

\* read() of what is a directory by now fails, and evbuffer_read() # 0 is
\* what the loop waits to end.
Read ==
    /\ pc = "read"
    /\ \/ (fs[Target] = Absent \/ MayFail) /\ Fail(500)
       \/ fs[Target] \in Content /\ Reply(200, seen, fs[Target])
       \/ fs[Target] = Dir /\ Goto("spin")
    /\ UNCHANGED <<fs, before, req, at, held, seen>>

-----------------------------------------------------------------------------
(***************************************************************************)
(* storage_handle_put()                                                    *)
(***************************************************************************)
\* Bug: If-Match is looked at only if the file exists.
Match_if_exists ==
    /\ pc = "match"
    /\ IF req.ifMatch # Nil /\ fs[Target] \notin {Absent, req.ifMatch}
       THEN Fail(412) ELSE Goto("walk")
    /\ UNCHANGED <<fs, before, req, at, held, seen>>

Match ==
    /\ pc = "match"
    /\ \/ req.ifMatch # Nil /\ seen = Absent /\ Fail(412)
       \/ req.ifMatch # Nil /\ seen # Absent /\ (fs[Target] = Absent \/ MayFail) /\ Die
       \/ /\ req.ifMatch # Nil /\ seen # Absent
          /\ fs[Target] \notin {Absent, req.ifMatch}
          /\ Fail(412)
       \/ /\ req.ifMatch = Nil \/ (seen # Absent /\ fs[Target] = req.ifMatch)
          /\ \/ fs[<<>>] = Dir /\ Goto("walk")
             \/ (fs[<<>>] # Dir \/ MayFail) /\ Fail(500)
    /\ UNCHANGED <<fs, before, req, at, held, seen>>

\* The next parent; where fstatat(), mkdirat() and openat() look for it, which is
\* in the directory of the descriptor, wherever the user has moved that; and what
\* they find: nothing, if the directory has been removed.
Below == SubSeq(Target, 1, Len(at) + 1)
Entry == Append(held, Target[Len(at) + 1])
Found == IF held = Nil THEN Absent ELSE fs[Entry]

Walk ==
    /\ pc = "walk"
    /\ \/ Below = Target /\ Goto("open")
       \/ /\ Below # Target
          /\ \/ Found = Dir /\ Goto("openat")
             \/ Found = Absent /\ Goto("mkdirat")
             \/ Found \in Content /\ Fail(400)
    /\ UNCHANGED <<fs, before, req, at, held, seen>>

\* Bug: a file that is in the way by now is replaced.
Mkdirat_replacing ==
    /\ pc = "mkdirat"
    /\ \/ /\ held # Nil /\ Found # Dir
          /\ fs' = [fs EXCEPT ![Entry] = Dir]
          /\ Goto("openat")
       \/ (held = Nil \/ Found = Dir) /\ Fail(500) /\ UNCHANGED fs
    /\ UNCHANGED <<before, req, at, held, seen>>

Mkdirat ==
    /\ pc = "mkdirat"
    /\ \/ /\ held # Nil /\ Found = Absent
          /\ fs' = [fs EXCEPT ![Entry] = Dir]
          /\ Goto("openat")
       \/ /\ held = Nil \/ Found # Absent \/ MayFail
          /\ Fail(500)
          /\ UNCHANGED fs
    /\ UNCHANGED <<before, req, at, held, seen>>

Openat ==
    /\ pc = "openat"
    /\ \/ /\ Found = Dir
          /\ at' = Below /\ held' = Entry
          /\ Goto("walk")
       \* A file opens as well; what is looked up below it fails.
       \/ /\ Found \in Content
          /\ IF Parent(Target) = Below THEN Goto("open") ELSE Fail(500)
          /\ UNCHANGED <<at, held>>
       \/ /\ Found = Absent \/ MayFail
          /\ Fail(500)
          /\ UNCHANGED <<at, held>>
    /\ UNCHANGED <<fs, before, req, seen>>

\* Bug: an old file is removed first instead of truncated.
Open_after_unlink ==
    /\ pc = "open"
    /\ fs' = [fs EXCEPT ![Target] = IF @ \in Content THEN Absent ELSE Empty]
    /\ Goto(IF fs[Target] \in Content THEN "open" ELSE "write")
    /\ UNCHANGED <<before, req, at, held, seen>>

\* open(O_CREAT | O_TRUNC): from here on the old content is gone.
Open ==
    /\ pc = "open"
    /\ \/ /\ fs[Parent(Target)] = Dir /\ fs[Target] # Dir
          /\ fs' = [fs EXCEPT ![Target] = Empty]
          /\ held' = Target
          /\ Goto("write")
       \/ /\ fs[Parent(Target)] # Dir \/ fs[Target] = Dir \/ MayFail
          /\ Fail(500)
          /\ UNCHANGED <<fs, held>>
    /\ UNCHANGED <<before, req, at, seen>>

\* Bug: a short write is noticed, but what it left is kept.
Write_checked ==
    /\ pc = "write"
    /\ \/ fs' = [fs EXCEPT ![Target] = req.body] /\ Goto("stat2")
       \/ /\ MayFail
          /\ \E c \in Partial[req.body] : fs' = [fs EXCEPT ![Target] = c]
          /\ Fail(507)
    /\ UNCHANGED <<before, req, at, held, seen>>

\* The descriptor is the file, wherever it is by now.  What evbuffer_write()
\* returns is not looked at.
Write ==
    /\ pc = "write"
    /\ \E c \in {req.body} \cup (IF MayFail THEN Partial[req.body] ELSE {}) :
          fs' = IF held # Nil THEN [fs EXCEPT ![held] = c] ELSE fs
    /\ Goto("stat2")
    /\ UNCHANGED <<before, req, at, held, seen>>

Stat2 ==
    /\ pc = "stat2"
    /\ \/ fs[Target] = Absent /\ Fail(500)
       \/ fs[Target] # Absent /\ Goto("etag2")
    /\ UNCHANGED <<fs, before, req, at, held, seen>>

PutEtag ==
    /\ pc = "etag2"
    /\ \/ (fs[Target] = Absent \/ MayFail) /\ Die
       \/ fs[Target] # Absent /\ Reply(IF seen = Absent THEN 201 ELSE 200, fs[Target], Nil)
    /\ UNCHANGED <<fs, before, req, at, held, seen>>

-----------------------------------------------------------------------------
(***************************************************************************)
(* storage_handle_delete()                                                 *)
(***************************************************************************)
DeleteEtag ==
    /\ pc = "etag" /\ req.method = "DELETE"
    /\ \/ (fs[Target] = Absent \/ MayFail) /\ Die
       \/ fs[Target] # Absent /\ req.ifMatch \notin {Nil, fs[Target]} /\ Fail(412)
       \/ fs[Target] # Absent /\ req.ifMatch \in {Nil, fs[Target]} /\ Goto("unlink")
    /\ UNCHANGED <<fs, before, req, at, held, seen>>

\* unlink(), then open() of the storage root: if that fails the document is gone
\* and 500 is the answer.
Unlink ==
    /\ pc = "unlink"
    /\ \/ /\ fs[Target] \in Content
          /\ fs' = [fs EXCEPT ![Target] = Absent]
          /\ \/ at' = Parent(Target) /\ Goto("prune")
             \/ MayFail /\ Fail(500) /\ UNCHANGED at
       \/ fs[Target] \notin Content /\ Fail(500) /\ UNCHANGED <<fs, at>>
    /\ UNCHANGED <<before, req, held, seen>>

\* Bug: only the parent itself is removed, not those above it.
Prune_once ==
    /\ pc = "prune"
    /\ fs' = IF at # <<>> /\ EmptyDir(fs, at) THEN [fs EXCEPT ![at] = Absent] ELSE fs
    /\ Reply(200, seen, Nil)
    /\ UNCHANGED <<before, req, at, held, seen>>

\* unlinkat(AT_REMOVEDIR) of one parent after the other, below the root.
Prune ==
    /\ pc = "prune"
    /\ \/ /\ at # <<>> /\ EmptyDir(fs, at)
          /\ fs' = [fs EXCEPT ![at] = Absent]
          /\ at' = Parent(at)
          /\ Goto("prune")
       \/ /\ at = <<>> \/ (fs[at] = Dir /\ ~EmptyDir(fs, at))
          /\ Reply(200, seen, Nil)
          /\ UNCHANGED <<fs, at>>
       \/ /\ at # <<>> /\ fs[at] # Dir
          /\ Fail(500)
          /\ UNCHANGED <<fs, at>>
    /\ UNCHANGED <<before, req, held, seen>>

-----------------------------------------------------------------------------
(***************************************************************************)
(* The environment: the process is killed and started again, and the user  *)
(* edits and moves the files, one call at a time.  An edit is an edit of   *)
(* before too.  The content a program of the user writes in place is there *)
(* at once.                                                                *)
(***************************************************************************)
Crash ==
    /\ MayCrash
    /\ pc # "down" /\ pc' = "down"
    /\ UNCHANGED <<fs, before, req, at, held, seen, out>>

Restart ==
    /\ pc = "down" /\ pc' = "idle"
    /\ UNCHANGED <<fs, before, req, at, held, seen, out>>

\* The handler holds a descriptor and will use it.
Holding == pc \in {"walk", "mkdirat", "openat", "write"}

Edit(p, n, replaced) ==
    /\ fs' = [fs EXCEPT ![p] = n]
    /\ before' = [before EXCEPT ![p] = n]
    /\ held' = IF Holding /\ replaced /\ p = held THEN Nil ELSE held
    /\ UNCHANGED <<pc, req, at, seen, out, files, dirs>>

OobWrite(p, c, inPlace) ==
    /\ fs[Parent(p)] = Dir /\ fs[p] # Dir
    /\ Edit(p, c, ~inPlace)

OobMkdir(p) ==
    /\ fs[p] = Absent /\ fs[Parent(p)] = Dir
    /\ Edit(p, Dir, FALSE)

OobRemove(p) ==
    /\ fs[p] \in Content \/ EmptyDir(fs, p)
    /\ Edit(p, Absent, TRUE)

\* The places in S, and those to which they are moved.
WithMoved(S, p, q) == S \cup {r \in Path : Under(q, r) /\ Onto(q, p, r) \in S}

\* The directory the walk is in has place in Path, once moved, for the rest of
\* the walk: a bound of the model.
RoomToWalk(p, q) ==
    pc \in {"walk", "mkdirat", "openat"} /\ held # Nil /\ Under(p, held) =>
        \A i \in Len(at)..(Len(Target) - 1) :
           Onto(p, q, held) \o SubSeq(Target, Len(at) + 1, i) \in Path

\* rename(), of a file or a directory, to where nothing is or over a file.
OobRename(p, q) ==
    /\ fs[p] # Absent /\ fs[Parent(q)] = Dir /\ ~Under(p, q)
    /\ fs[q] = Absent \/ {fs[p], fs[q]} \subseteq Content
    /\ \A r \in Path : Under(p, r) /\ fs[r] # Absent => Onto(p, q, r) \in Path
    /\ RoomToWalk(p, q)
    /\ fs' = Moved(fs, p, q)
    /\ before' = Moved(before, p, q)
    /\ held' = IF ~Holding \/ held = Nil THEN held
               ELSE IF Under(p, held) THEN Onto(p, q, held)
               ELSE IF held = q THEN Nil ELSE held
    /\ files' = WithMoved(files, p, q)
    /\ dirs' = WithMoved(dirs, p, q)
    /\ UNCHANGED <<pc, req, at, seen, out>>

-----------------------------------------------------------------------------
Init ==
    /\ fs = [p \in Path |-> IF p = <<>> THEN Dir ELSE Absent]
    /\ before = fs
    /\ pc = "idle" /\ req = NoRequest /\ out = Nil
    /\ at = <<>> /\ held = <<>> /\ seen = Nil
    /\ edits = 0 /\ files = {} /\ dirs = {}

Serve ==
    \/ Stat \/ GetEtag \/ Read
    \/ Match \/ Walk \/ Mkdirat \/ Openat \/ Open \/ Write \/ Stat2 \/ PutEtag
    \/ DeleteEtag \/ Unlink \/ Prune

Receive ==
    \E p \in Document :
        \/ Take("GET", p, Nil, Nil)
        \/ \E im \in Content \cup {Nil} :
             \/ Take("DELETE", p, Nil, im)
             \/ \E c \in Content : Take("PUT", p, c, im)

UserEdits ==
    \E p \in Document :
        \/ \E c \in Content, inPlace \in BOOLEAN : OobWrite(p, c, inPlace)
        \/ OobMkdir(p) \/ OobRemove(p)
        \/ \E q \in Document : OobRename(p, q)

Next ==
    \/ (Serve \/ Crash \/ Restart) /\ UNCHANGED user
    \/ /\ Receive
       /\ edits' = 0 /\ files' = {Target}' /\ dirs' = Above(Target)'
    \/ UserEdits /\ edits < MaxEdits /\ edits' = edits + 1

Spec == Init /\ [][Next]_vars

\* A handler runs to its end once it has begun: the event loop does not
\* return to other work in between, and no call blocks for ever.
FairSpec == Spec /\ WF_vars(Serve /\ UNCHANGED user)

-----------------------------------------------------------------------------
(***************************************************************************)
(* Properties                                                              *)
(***************************************************************************)
TypeOK ==
    /\ fs \in Tree /\ before \in Tree
    /\ pc \in {"idle", "down", "spin", "stat", "etag", "read", "match", "walk", "mkdirat",
              "openat", "open", "write", "stat2", "etag2", "unlink", "prune"}
    /\ req = NoRequest \/ req \in [method : {"GET", "PUT", "DELETE"}, path : Document,
                                   body : Content \cup {Nil},
                                   ifMatch : Content \cup {Nil}]
    /\ req.method = "PUT" => req.body \in Content
    /\ at \in Path /\ held \in Path \cup {Nil}
    /\ seen \in Node \cup {Nil} /\ edits \in 0..MaxEdits
    /\ files \subseteq Path /\ dirs \subseteq Path

\* At any moment of a request, and so when the server dies in it, it has
\* touched nothing but its target and the directories above that, each where it
\* is or where the user has moved it meanwhile: the disk differs there only from
\* what the user's edits alone would have left.
Confined ==
    \A p \in Path :
        \/ fs[p] = before[p]
        \/ p \in files
        \/ p \in dirs /\ {fs[p], before[p]} \subseteq {Absent, Dir}

Answered == pc # "idle" /\ pc' = "idle" /\ out' # out
Undisturbed == Answered /\ edits = 0

\* Without edits in between, the calls of a handler add up to the one step
\* Storage takes it for: a PUT makes the file and its parents, a DELETE
\* removes the file and all parents it empties, anything else leaves the disk
\* as it was.  A full disk may cut the file short, or end a PUT with an error
\* and directories left behind.
AtomicUnlessFull ==
    [][Undisturbed /\ ~(MayFail /\ out'.status = 500) =>
         CASE req.method = "PUT" /\ out'.status \in {200, 201} ->
                \E c \in {req.body} \cup (IF MayFail THEN Partial[req.body] ELSE {}) :
                   fs' = WithFile(before, Target, c)
           [] req.method = "DELETE" /\ out'.status = 200 ->
                fs' = WithoutFile(before, Target)
           [] OTHER -> fs' = before]_vars

\* No lost update, call by call: a conditional request without edits in between
\* that succeeds began on the version it names, one answered 412 did not.
ConditionalIO ==
    [][Undisturbed /\ req.ifMatch # Nil =>
         /\ out'.status \in {200, 201} => before[Target] = req.ifMatch
         /\ out'.status = 412 => before[Target] # req.ifMatch]_vars

\* If only the server writes meanwhile, body and ETag of a GET are of the same content
\* although serve_file() opens the file again, and both are what was there.
GetIsConsistent ==
    [][Undisturbed /\ req.method = "GET" /\ out'.status = 200 =>
         out'.body = out'.version /\ out'.body = before[Target]]_vars

\* A full disk or no descriptor left, no edits: an error is answered only if the
\* document is still what it was; but for a DELETE that finds no descriptor after
\* its unlink() and answers 500 with the document gone and all directories kept.
\* Directories may be left behind by a PUT (see the hazard at storage.c:146).
ErrorKeepsDocument ==
    [][Undisturbed /\ out'.status >= 400 =>
         \/ fs'[Target] = before[Target]
         \/ /\ req.method = "DELETE" /\ out'.status = 500 /\ MayFail
            /\ req.ifMatch \in {Nil, before[Target]}
            /\ fs' = [before EXCEPT ![Target] = Absent]]_vars

\* What a crash may leave of the documents: nothing but the target differs from
\* what it would be, wherever the user has moved it; it is removed by a DELETE, and
\* holds after a PUT as much of the new content as was written.
CrashDamage ==
    pc = "down" =>
        \A p \in Path :
           \/ fs[p] = before[p]
           \/ {fs[p], before[p]} \subseteq {Absent, Dir}
           \/ /\ p \in files
              /\ \/ req.method = "DELETE" /\ fs[p] = Absent
                 \/ req.method = "PUT" /\ fs[p] \in {Empty, req.body} \cup Partial[req.body]

\* Every request is answered, or ends with the process; only an edit can trap
\* the handler, in the loop that reads a file.
EveryRequestEnds == Busy ~> (~Busy \/ (pc = "spin" /\ edits > 0))
=============================================================================
