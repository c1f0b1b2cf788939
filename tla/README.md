# rs-serve in TLA+

rs-serve is a remoteStorage server: it serves files below `/home/USER/storage`
over HTTP to clients that hold a bearer token, and answers webfinger queries.
This directory holds TLA+ models of it, their TLC configurations and proofs
checked by TLAPS. Source paths below are relative to the repository's root.

## The system: inventory

| component | state | operations | talks to | what makes it correct | modules |
|---|---|---|---|---|---|
| Storage handler `src/handler/storage.c` | the files of each user | GET, HEAD, PUT, DELETE on documents, GET and HEAD on folders | attributes, libmagic, POSIX | conditional writes lose no update; a path is never a document and a folder; folders live exactly as long as documents in them; nothing but the target changes | Storage, StorageIO, DocStore, FileTree |
| Attributes `src/common/attributes.c` | `user.etag`, `user.mime_type`, `user.charset` of each file | `get_etag`, `content_type_to_xattr`, `content_type_from_xattr` | POSIX | a version is that of what is on disk; a type that is stored is served | Attributes |
| Dispatch and authorization `src/handler/dispatch.c`, `src/handler/auth.c` | none | `verify_user`, `authorize_request`, choice of the handler | users, authorization store, storage handler | an answer has its reason in what was true during the request; every request is answered unless the database keeps it waiting | Access |
| Users `src/common/user.c` | the system's passwd database (external) | `user_get_uid`, `user_get_entry` | POSIX | whom the storage serves, webfinger finds | Access, Webfinger, Endpoints |
| Authorization store `src/common/auth.c` | a Berkeley DB (CDB) shared by processes; a handle per process | open, close, add, remove, lookup, list, pack, unpack | | no two users share a record; the last grant counts; calls of several processes are as if one came after the other | AuthStore, AuthRecord, AuthSpec, AuthDB |
| Command line tools `src/tools/*.c` | none | add, remove, list, look up tokens | authorization store | no tool stops the server | Access, AuthDB |
| Auth server `auth/backend`, `auth/bindings` | sessions in memory | login, list, authorize, logout | authorization store, PAM, random generator | a grant is of the session's user; a logout ends the session | AuthServer |
| Auth frontend `auth/frontend` | a page per tab, localStorage | login, confirm, logout, restore | auth server | the session saved is the user's own; an app gets what was confirmed | AuthServer |
| Webfinger `src/handler/webfinger.c` | two templates built at start | the lookup of a user's storage and auth URIs | users, JSON writer | the host's users are found, another host's are not | Webfinger, Endpoints |
| JSON writer `src/common/json.c` | a stack of nesting states, depth 5 | start, end, key, value | | commas and brackets are balanced within the depth | JsonWriter |
| Process `src/process/main.c`, `src/config.c`, `src/init-script.sh` | pid file, signal fd, the listening port | start, detach, stop another process, terminate, serve | everything | one server per pid file; a stop reaches it and ends it; nothing but a death leaves the file | Process |
| Logging `src/common/log.c` | the log file | formatting | | | no |
| Trie `src/trie.c` | not built: the Makefile does not name it | | | | no |

rs-serve is one process with one libevent loop and no threads. A handler runs
to its end before the loop turns again, so two requests never interleave. What
does interleave is everything else: other processes (the tools, the auth
server, a second rs-serve, the init script), the administrator, the user who
edits files under `~/storage` behind the server's back ("out-of-band"), a kill of
the process, a full disk. In the auth server, callbacks interleave: of PAM, of
the random generator, of the requests of several pages. Those are the hard
behaviours, and PROJECT.json lists under "hazards" each place where one bites,
with the properties that watch it.

## The modules

    FileTree ── Attributes ── Storage ── StorageMC          DocStore
       │                         └────────── INSTANCE ──────────┘
       └─ StorageIO ── StorageIOMC
    AuthStore ─┬─ Access ─┬─ AccessMC
               │          └─ Endpoints ── Documents ── EndpointsMC   (with AccessMC)
               │             JsonWriter ── Webfinger ──┘
               ├─ AuthServer ── AuthServerMC
               └─ AuthDB ── AuthDBMC                        AuthSpec
          AuthRecord ─┘  └────────── INSTANCE ──────────────────┘
    Process ── ProcessMC
    proofs: FileTreeProofs, StorageProofs, StorageIOProofs, AuthStoreProofs,
            AccessProofs, AuthServerProofs, AuthDBProofs, ProcessProofs

**FileTree** is one user's storage root as a function from paths to nodes: a
node is absent, a directory or a file (its content). Paths are sequences of
names. `WithFile` is what the mkdirat walk, open and write of a PUT leave;
`WithoutFile` is unlink and the pruning of empty parents.

**Attributes** is attributes.c. `get_xattr` is the growing buffer: sizes 32, 48,
... up to the limit; what fits none of them is reported as missing. SHA1 is taken
to be injective, so a digest is what was digested; a folder's digest is the
sequence of its entries' digests in readdir order, without their names, as in the
code. `get_etag` and `set_etags` are the recursion's result and its side effect
(every node it computes an etag for gets one stored).

**Storage** is storage.c with each handler as one step, which the event loop
justifies. Each early return of a handler is a disjunct; a disjunct that takes an
etag also stores it (`Touched`). `reply` is what the client sees of the last
request. No action reads it, so the configurations use `VIEW WithoutReply`: TLC
checks action properties on every transition it generates, also on one whose
target it knows up to the reply. `OutOfBand` enables the user's edits.

**DocStore** is the abstract specification: a map of documents with conditional,
atomic updates, in which folders are there exactly as long as a document is below
them. `Storage!ImplementsDocStore` maps a file to a document with the type it is
served with, forgets directories, attributes and the versions of folders.

**StorageIO** takes GET, PUT and DELETE of documents apart into their system calls
(`pc` names the next). A request is taken by `Receive`, each `Serve` step is one
call. Between two calls the process may be killed (`Crash`), and `UserEdits` may
change the tree: write, replace, create, remove, or `rename()` a file or a
directory, the handler's own included. mkdirat, open and write may find the disk
full, and every open() the process without a descriptor. A path is looked up anew by
each call that is given one; a descriptor is its node, so `held` is where that node
is by now, or Nil once it is removed (`OobRename`, `Edit`), and write() and what is
looked up relative to a descriptor go there. Ghosts, which no step of the handler
reads: `before` is the tree as it would be without the current request; `edits`
counts the user's edits since it came; `files` and `dirs` are where the target and
the directories above it are or have been moved to in that time. What is moved has to
have place in `Path`, with what is below it and what the walk may yet make there
(`RoomToWalk`): a bound, and the larger `Path` is the less it excludes. `Die` is the death
of the process where get_etag() returned NULL; `"spin"` is a loop that never ends.

**AuthStore** is the authorization store with one atomic step per operation. User
names and tokens are sequences of characters there because a record's key joins
them with a bar. **AuthRecord** is pack_authorization() and
unpack_authorization(): the bytes of a record. **AuthDB** is auth.c as the server
and the tools run it beside each other: a call queues for the lock DB_INIT_CDB
gives the environment, is granted it (shared by readers), does its work and
returns. A listing takes one step per record and holds its lock from one to the
next. A put, a get or a cursor may fail as the code lets it fail: silently, by
abort(), or in a loop without end (`spin`). A client that dies leaves its lock or
its place in the queue behind (`Dead`), because nothing opens the environment with
recovery. **AuthSpec** is what callers are promised: each call takes effect at one
moment between its begin and its end, and returns what it found at that moment: for
a removal, the authorization it removed or that there was none, which is the exit
status of rs-remove-token. Only a put and a del may fail; they then change nothing.
`AuthDB!ImplementsAuthSpec` is the refinement, and the reason that AuthStore may be
used elsewhere.

**Access** is a request's way through dispatch_storage(), one step per look at the
passwd database or the store, with the tools and the administrator in between; the ghost
`was` notes what was true since the request arrived. A path is its text, from the slash
it begins with. authorize_request() is given that text as it came, and the storage
handler what `make_disk_path()` makes of it: every `/..`, and after that every pair of
adjacent slashes, is cut out, until there is none, and no name is resolved. `out` keeps
the path that was served. `locked` says that others are before the server in the queue
for the database's lock; a request with a token waits in authorize_request() while they
are (`Lock`, `Unlock`). `Folders`, `Allows` and `Granted` are the reference definition
of what a scope allows, written without match_scope(), and of the path as it came.

**AuthServer** is both halves of auth/: tabs of a browser with one localStorage,
requests (`xhr`) that are sent, wait for PAM or random bytes, are answered in any
order, get lost or outlive their page, and a backend that forgets its sessions
when it is restarted. The backend is one thread, and the binding's calls of the
authorization store run in it: a request whose call waits for the lock, or stays in
the loop of the cursor, is `"blocked"`, and until it returns (`Hangs`) no other
callback runs. "Fresh" random tokens are tokens nothing refers to.

**JsonWriter** is json.c: the stack of nesting states and each call, writing a
sequence of tokens; the stack's initial contents are arbitrary, as malloc() leaves
them. **Webfinger** is webfinger.c, each document as the calls it makes
to the writer. **Endpoints** composes it with Access: two services on one event
loop that read the same passwd database while users come and go. **Documents** says
what the documents should be: `Expected` is their value, and `Render` the text of a
JSON value, defined by recursion over the value. It stands apart because the prover
cannot take in a module with a RECURSIVE operator.

**Process** is config.c's options, main.c and the init script's stop: process ids
that are used again, one pid file and one port. `has` are the flags set and what
is open; options before `--pid-file` have been processed when it is reached, those
in `after` come later. `Kill` ends a process that does not block SIGTERM yet
(`Deaf`) and is otherwise kept in `pending`, the signalfd. The event loop reads that
between two handlers, so a server that is in a handler which loops or waits
(`"stuck"`, from `Hang` to `Return`) gets no signal. Closing the pid file is
an atexit() handler (`Exit`); `Vanish` is what comes after it. The ghost `harm`
says what has been done to the file behind its holder's back: nothing, a removal by
the init script, or a death (a kill, a crash or a fork() that failed) that left it.

## What TLC checks

| run | bounds | distinct states |
|---|---|---|
| storage_edited | paths `/`, `d/`, `d/x`, `f`; contents "" and "a"; out-of-band edits; HEAD enabled | 11467 |
| storage_types | the same paths; no edits; types without charset, none, and with a charset one too long to be read back; HEAD disabled | 1190 |
| io | `d/s/x` and `e/s`, with room to move `d/s` and both files; contents "" and "a"; crashes, full disk, no descriptor and two edits or renames per request, between any two calls; fair | 526332 |
| access_scopes | one user; every method on ten paths: above, in and beside the scopes' folders, in `/public/`, and two that make_disk_path() rewrites; three grants; failures of both databases and others at the lock; fair | 18832 |
| endpoints | two users and two tokens whose names join to the same string; GET of one path, all of webfinger; failures | 49852 |
| auth_server | two users, two session tokens, one bearer token, one tab, two requests under way; a backend that may hang in the binding; fair | 276111 |
| auth_db | the server, a tool and a tool that writes into a pager; two records that could share a key; all four operations; failures; one lock of a dead process; fair | 218142 |
| process | three process ids, one of them at a time some other program; in the foreground, detached, `--stop` before and after `--pid-file`; failures, handlers that hang, kills, the init script; fair | 255696 |

*storage_edited* covers every sequence of requests and edits: the tree is closed
(`TreeClosed`), only the target changes (`OnlyTargetChanges`), no empty folder is
left (`NoEmptyFolderLeft`), no update is lost (`ConditionalWrite`), every version
handed out is that of what is on disk (`VersionsAreCurrent`) although etags are
stored and never invalidated: the stored ones are in fact never read (see the
findings), and a mutant that can read them breaks the property. *storage_types*
adds `PutIsStored` and `ImplementsDocStore`. Paths of two levels are enough for
these two: deeper walks and prunings are checked call by call in *io*, and all of
these properties are proved for all paths.

*io* shows that what the one-step model takes for granted is so: a request that no
edit and no failing call disturbs adds up to `WithFile` or `WithoutFile`
(`AtomicUnlessFull`), honours If-Match (`ConditionalIO`), and its body and ETag
agree (`GetIsConsistent`). Whatever disturbs it, it changes nothing but its target
and the directories above, at their paths or where the user has moved them since it
came (`Confined`), and a death leaves at the target only the old document, none, or a
part of the new one (`CrashDamage`). An error answer leaves the document alone, with
the one exception the code has: open() of the storage root after a DELETE's unlink()
may fail, and 500 is then answered with the document gone (`ErrorKeepsDocument`).
Every request ends, unless an edit traps it in the loop that reads a file
(`EveryRequestEnds`). Two edits are enough for one of a directory and one of what is
in it, or for a move and a replacement where it was; the proofs have no such bound.

*access_scopes* has the paths, methods and failures. `AnswersAreJustified` says that
a request that arrives after its token was removed is not served, and one that
arrives after it was added is not refused, whatever happens in between. It is about
the path that was asked for; that it is also the one that is served is claimed, and
true, only of paths with no `/..` and no `//` in them (`Plain`; see the findings).
`GrantsAreNotMerged` says that scopes of two grants never mix, and
`EveryRequestAnswered` that every request is answered, unless it waits for the
database's lock, which nothing promises it, or the process dies or reads for ever.
*endpoints* has the pairs of names that could share a
key (`AuthorizationsAreOwn`), and webfinger: everything it sends is the text of a JSON
document (`DocumentsAreJson`), who has a storage is found whatever else fails, no
account of another host is, and a user of this one who may not have a storage only
when the passwd database did not answer (`UsersAreFound`). Users who do not exist are
found too: that is *webfinger_unknown* below. `found` is an output that no action
reads, so that run has `VIEW WithoutFound`.

*auth_server*: `SessionsAreOwn`, `LogoutEndsSession`, `GrantIsWhatWasConfirmed`,
`EveryRequestEnds`. Two requests under way are enough for an answer that overtakes
another and for a second login while a first is pending; reloads give pages that nobody
waits in. A request is allowed not to end for two reasons: no random bytes, for which no
callback is ever called, and a thread that hangs for good. Two tabs with two requests
each exceed what TLC does here in minutes.

*auth_db*: a walk of a cursor sees one store (`WalksAreCurrent`), calls are atomic to
their callers (`ImplementsAuthSpec`), and every call gets its turn unless something
keeps the lock (`CallsGetTheirTurn`). Three clients are enough for a writer between
two readers in the queue; one dead lock is enough to stop everyone.

*process*: while a server serves, the file names it (`ServersAreRegistered`); only a
death leaves a file, also when the init script removes one under a server
(`OnlyDeathLeavesFile`); a process with `--stop` never opens the
port, wherever the option stands (`StopNeverServes`); a server that is sent SIGTERM,
by `--stop`, by the init script or by anybody, ends, and unless a death has left it
there its pid file is gone by then, if its handlers come back to the loop again and
again (`StoppedServerEnds`). Three ids give a parent, its child and a third process,
or two servers and one that stops them.

Deadlock is checked in every run but *auth_db*: there the lock of a process that
died may keep everyone else waiting for ever, as in the code (auth.c:45).

**Fairness.** `StorageIO!FairSpec` and `Access!FairSpec` have weak fairness of the
server's steps: a handler that has begun goes on because the event loop does not
return in between. In StorageIO no call waits for another process. In Access one does,
lookup_authorization(), and no fairness is assumed of whoever has the lock (`Unlock`):
the properties except the waiting. `AuthServer!FairSpec` has strong fairness of each
request's callback in the backend while the thread is free (`~Hangs /\ Backend(i)`),
since node takes callbacks in turn, and weak fairness of the delivery of answers; it
assumes nothing of a blocked call's return, so that `EveryRequestEnds` has
`[]<>~Hangs` as its premise. `Process!FairSpec` has weak fairness of each process's
`main`, nothing in which blocks, and strong fairness of
`handle_signal`: a loop that is reached again and again reads its signalfd. It assumes
nothing of a handler that hangs. `AuthDB!FairSpec` has it for granting
the lock and for each client's calls, except for the listings of a client that
writes into a pager, which go on only as far as somebody reads. Users,
administrators, tools, crashes and restarts are never forced.

Every property has a mutant: an operator `..._something` in the same module, with
the comment "Bug:", that stands for a plausible bug and makes the property fail.

## Findings

Each of these is a run that TLC ends with a counterexample to what the repository says.

| run | what the code does |
|---|---|
| etag_cache | attributes.c:121: an etag is stored with 40 bytes and read back with a limit of 41, for which only a buffer of 32 bytes is tried: the cache CHANGELOG:2 speaks of is written and never read. (It is never invalidated either, so reading it would break VersionsAreCurrent.) |
| put_user_removed | storage.c:96: USER_NOT_FOUND is (struct passwd*)-1 and passes `> 0`: a PUT for a user removed after verify_user() ends the server. |
| stop_finds_server | config.c:156: the pid file is empty from its creation until libmagic is loaded; a `--stop` then signals whatever an uninitialised pid holds. |
| webfinger_unknown | webfinger.c:79: user_get_uid()'s -1 and -2 are large numbers as a uid_t and pass UID_ALLOWED: every name at this host is announced. |

Seen while modelling, and part of the models, but without a run of their own. Where
the repository says something else, it is quoted; elsewhere it says nothing, or a
property names the case as its exception:

- storage.c:198: what evbuffer_write() returns is ignored; a PUT cut short by a full
  disk is answered with success (`Partial` in AtomicUnlessFull).
- storage.c:511-524: the handler serves the path without its `/..` and `//`, while
  auth.c:18-24 and 63 look at it as it came. So what is authorized and what is served
  are one path only if there is nothing to remove, and README.md:69, "Protection of
  all non-public paths", holds as `AnswersAreJustified` states it: for plain paths.
- storage.c:280-286: a DELETE that has removed the document opens the storage root
  again, and answers 500 if it cannot.
- storage.c:483: a GET whose file has become a directory when it is opened loops for
  ever on a read that fails, and the server with it (`"spin"`).
- storage.c:326: GET of a folder does not look at If-None-Match.
- auth.c:286: rs-add-token says nothing of a put that failed. auth.c:364: a listing
  holds the database's lock while it prints. auth.c:438: a cursor that fails is asked
  again for ever. auth.c:45: the lock of a process that dies inside a call stays.
- main.c:218: a fork() that fails writes -1 into the pid file, and `--stop` then
  signals every process it may (`Everyone`).
- init-script.sh:51: the script removes the file without waiting for the server.
- auth/backend/config.js:2-3: loginTokenTimeout is never read; the comment beside it
  says that login tokens expire. A session ends by logout or restart only.
- auth.c:122: the lookup of a token waits for the lock of a database that other
  processes hold as long as they like, and with it the whole server, SIGTERM included.
- add-token.c:33: user names with a "|" are taken, on which keys could coincide.

## What is proved

TLAPS checks the following for every value of the constants, from the constants'
assumptions and nothing else. These are:

- what the constants range over, and that the markers for "absent", "no value" and
  the like differ from the values they stand beside;
- that the set of paths is closed under prefixes (`PathAssumption`), that every name
  in it has a place in readdir order (`OrderAssumption`), and that there is a longest
  path, as the kernel has a PATH_MAX (`DepthAssumption`);
- `BarAssumption`: no user name has a "|" in it, as no system user's has, and the
  server looks nobody else up. rs-add-token does not enforce it. Tokens may;
- `RecordAssumption`: names are made of bytes other than 0, which end strings in C,
  and an add has finitely many scopes, no more than fit into a record whose size is
  a uint32_t.

What a recursive definition computes is proved by induction where it matters. The
library's induction theorems take the formula as an operator, which no installed
prover can instantiate; `Induction`, proved from `WFMin` and
`NatLessThanWellFounded`, has a set of numbers in its place, and is cited with the
set of those numbers for which the claim holds.

- **FileTreeProofs**: `WithFile` and `WithoutFile` keep a closed tree closed, leave
  no directory empty that was not, and change nothing but the path and the
  directories above it. `EntriesAreBelow`: what the loop over readdir_r() finds are
  names of nodes one level below the folder (StorageProofs' `NamesAreNodes`: all of them).
- **StorageProofs**: `TypeCorrect`, `TreeStaysClosed`, `NoEmptyFolderIsLeft`,
  `OnlyTheTargetChanges`, `NoLostUpdate`, `PutsAreStored`, `NoVersionIsStale`,
  `DocumentsAreStored`. The
  inductive invariant `IInv` is TypeOK and TreeClosed together: a PUT that is not
  refused found no document above its path, but only a closed tree makes sure that
  everything above what exists is a directory. `NextEffect` reduces each request to
  one of three effects on the tree (none, WithFile, WithoutFile), and the properties
  follow from those. `NoLostUpdate` needs no invariant about stored etags because
  none can be read (`NoCachedEtag`, from get_xattr's buffer sizes). `NoVersionIsStale`
  is about folders above all: the etag of a folder is a digest of those of its
  entries, so that the tree of true versions exists, and that get_etag() computes it
  from a disk with any attributes whatever, is an induction over the depth of a node,
  from the longest paths up (`VersionsExist`, `TrueEtagSolves`, `EtagIsTrue`);
  `ListingIsTrue` carries it to a folder's listing. `DocumentsAreStored`
  is the refinement: under `~OutOfBand` every step of the handlers is a step of
  DocStore or a stutter. Its invariant `DiskInv` adds that every directory but the
  root has a document somewhere below it (`Populated`), which is what lets DocStore
  do without directories; edits would break it, hence the premise. Each handler then
  answers as DocStore does (`ReadImplements`, `PutImplements`, `DeleteImplements`).
- **StorageIOProofs**: `IOTypeCorrect`, `RequestsAreConfined`, `CrashDamageIsBounded`,
  `RequestsAreAtomic`, `ConditionsHoldInIO`, `ErrorsKeepDocuments`, `GetsAreConsistent`.
  `IOInv` says where the handler stands at each call: which methods a `pc` belongs to
  (`Methods`), that `at` is above the target (`Position`), what the held descriptor's
  node is while it is linked and that it is among the places the target or its
  directories have been moved to (`Places`, `HeldNode`), and what may have changed so
  far (`Confined`, `Damage`). The tree being closed is part of it (`TreeClosed`). The
  long case is a rename (`RenameStep`): the disk and `before` move by the same map, so
  that a difference between them moves along with the place in `files` or `dirs` that
  allows for it. For what holds only without edits, `Exact` adds how far the walk or the
  pruning has come relative to `before`, and `Answers` concludes what the last call
  makes of it, with `UnlinkedOnly` for a DELETE that fails after its unlink().
- **AuthStoreProofs**: joining with a bar is injective (`KeyInjective`, by comparing
  where the first bar stands), and so add, remove and lookup keep and use `Sound`:
  each record is under its own key.
- **AccessProofs**: `AccessTypeCorrect`, `EveryAuthorizationIsOwn`,
  `EveryAnswerIsJustified`, `NoGrantIsMerged`,
  `EndpointsImplementAccess`, `EveryUserIsFound`. The inductive
  invariant adds `Sound(db)` and `Noted`: what each step of dispatch_storage() has
  established is in `was`. `MatchScopeAllows` and `PublicReadIsPublic` show that the
  prefix comparisons of auth.c, on the text of a path that begins with a slash
  (`PathText`), are the reference definition, which looks for every folder above it
  (`InFolders`). `PlainPathsStay` is make_disk_path() on a path without `/..` and `//`.
  A webfinger lookup is a stutter of Access, so that the composition is one of its
  behaviours; `EveryUserIsFound` then takes process_resource() apart
  (`ResourceIsFound`).
- **AuthServerProofs**: `AuthTypeCorrect`, `EverySessionIsOwn`, `LogoutsEndSessions`,
  `AppsGetWhatWasConfirmed`. `AuthInv` is `StateOK` (the types, and that the session
  saved and those of the pages are of who logged in, or ended) and `RequestsOK` (that
  what is under way carries a token of the same user, so that its answer, whenever it
  comes, cannot put another's session in place). `AppsGetWhatWasConfirmed` needs one
  more invariant, `Confirmed`: a pending grant asks for what its page says, if that is
  still open. It holds because what a page was loaded with changes only when it is
  loaded anew, which leaves its requests behind (`ConfirmedStays`, `LoadConfirms`), and
  the binding is the only callback that grants anything (`OnlyTheBindingGrants`).
- **AuthDBProofs**: `TypeCorrect`, `EveryWalkIsCurrent`, `CallsAreAtomic`,
  `RecordIsReadBack`. `LockInv` has five parts: a client is where its call lets it be
  (`CallsFit`), holds the lock exactly while it is inside (`HoldersFit`), a writer holds
  it alone (`WritersAreAlone`), the queue is of those who wait (`QueueFits`), and no
  cursor has moved before its lock is there (`CursorsAreFresh`). So no record changes
  under a cursor. `CallsAreAtomic` is the refinement of AuthSpec, the results of
  lookups, listings and removals included; that what is read is what was added rests on
  `RecordIsReadBack`, an induction over the scopes along the offsets
  unpack_authorization() steps through (`StringIsRead`, `CountIsRead`,
  `FlattenedOccur`).
- **ProcessProofs**: `TypeCorrect`, `NoStopperServes`, `ServersStayRegistered`,
  `FilesHaveHolders`. The second needs that a process which has `--stop` set, or is
  about to signal, is not on the way to serving (`Stopping`). The third rests on
  `FileInv`: unless something has been done to the file (`harm`), who holds it has got
  past opening it (`OnlyOpenersHold`), it is empty until main() writes it
  (`NewFileIsEmpty`), and a server is named in it (`ServerIsNamed`) or has a parent
  about to do so (`ParentHasServer`). The last needs less and holds also when the init
  script removes files: unless a death left it, a file has a holder that is not done
  with it (`FileIsKept`).

Only model-checked: everything under fairness, which is out of the prover's reach
(`EveryRequestEnds` of StorageIO and of AuthServer, `EveryRequestAnswered`,
`CallsGetTheirTurn`, `StoppedServerEnds`), and `DocumentsAreJson`, whose reference
`Render` is a RECURSIVE operator. For the latter *endpoints* is no small instance:
the documents differ in nothing but the names in them, which the writer does not look
at. Every other property of a passing run is stated by a theorem.

## What is not modelled

- Paths as text in the storage handler: Storage and StorageIO begin behind
  make_disk_path(), with a sequence of names; what it does to the text is in Access.
- Symbolic links, file modes, chown() and failures of reads and of attributes.
- What other programs of the user do inside one write of their own: in StorageIO an
  edit in place puts a whole content there at once, so two writers' bytes never mix.
- A Content-Type that is empty or only a ";" (attributes.c:97: strlen() of NULL).
- Folder listings call by call: they are one step of Storage, so an entry that goes
  away while its folder is read (storage.c:364) is not a case.
- Descriptors that leak (attributes.c:136) and environments that are never closed
  (auth.c:78): they are not counted. In StorageIO any open() may find none left.
- A clock: loginTokenTimeout is never read, so that nothing depends on time.
- How long the database's lock is kept, in Access: that is AuthDB. There, clients are
  the processes and not the requests in them.
- Damage of the database file itself, and malloc() that fails.
- Escaping in JSON strings; a string is one token.
- CORS headers, logging, rendering, parsing of query strings and arguments, SSL
  set-up, and the wording of responses. Of the options only those that bear on
  processes are told apart.
- Logging (no other state depends on it), Trie (dead code), Mustache (vendored),
  the build, scripts and tests.

The empty folders left by a PUT that fails on a full disk, and by a crash in a DELETE,
are in StorageIO; nothing removes them, and no property says they go.

## Plan

1. *Descriptors*: the pool of file descriptors over a history of requests, in place of
   an open() that may fail at any time.
2. *Folder listings* in StorageIO, with entries that come and go while they are read.
3. *SyncClient*: a client that synchronises by folder etags, which lack names.

The runs stay few: a new component's run replaces one whose properties have been
proved in the meantime, or joins a run that composes it.
