------------------------------ MODULE Storage ------------------------------
(***************************************************************************)
(* The storage service over the file storage, with the authorization of    *)
(* collections: a request is verified against the collection's ACL, which  *)
(* is itself an object of the storage and is cached, then carried out on   *)
(* the storage's own thread, then answered.  Objects are files; a tag is a *)
(* directory of symbolic links next to them.  The process may die between  *)
(* any two calls to the file system and be started again.                  *)
(***************************************************************************)
EXTENDS Naturals, Sequences, Functions

CONSTANTS
  Requests,       \* the requests there may be
  Request,        \* request -> op, collection, key, blob, tags, who
  Collections,    \* names of collections, AclCollection included
  Names,          \* names of objects and tags
  AclCollection,  \* ".collection-acls"
  AclTag,         \* "storage-acls"
  MaxCrashes      \* bound on the deaths of the process

VARIABLES
  files,          \* <<collection, name>> -> contents
  dirs,           \* <<collection, tag>> of the directories there are
  links,          \* <<collection, tag, key>> of the symbolic links there are
  queue,          \* io_loop: jobs posted to the storage's thread
  writing,        \* the write under way on it: tags still to do, or none
  cache,          \* collection -> the ACL cached, with whether it is valid
  phase,          \* request -> where it is
  reply,          \* request -> the answers it got
  crashes,        \* deaths so far
  \* History
  window,         \* collection -> ACLs stored since the last expiry
  torn,           \* paths where a write has failed or died half-way
  acknowledged    \* path -> contents and tags of the last answered change

fsVars == <<files, dirs, links>>
reqVars == <<phase, reply>>
storageVars == <<fsVars, queue, writing, cache, reqVars, crashes, window, torn, acknowledged>>

StoredPaths == Collections \X Names

\* Contents of a file; a blob and an ACL are different in form.
Absent == <<"absent">>
EmptyFile == <<"empty">>
Blob(b) == <<"blob", b>>
Acl(meta) == <<"acl", meta>>

-----------------------------------------------------------------------------
(* Permissions *)

NoMeta == [c |-> <<>>, u |-> <<>>]

Flag(op) == IF op \in {"read", "find"} THEN "read" ELSE "write"

\* extract_permissions(): what all the credentials have; none for nobody.
ExtractPermissions(ids, perms) ==
  {f \in {"read", "write"} : ids # {} /\ \A i \in ids : i \in DOMAIN perms /\ f \in perms[i]}

Allowed(meta, who, op) ==
  Flag(op) \in ExtractPermissions(who.cids, meta.c) \cup ExtractPermissions(who.uids, meta.u)

\* The record written for a collection nobody owns.
OwnedBy(who) ==
  [c |-> [i \in who.cids |-> {"read", "write"}], u |-> [i \in who.uids |-> {"read", "write"}]]

\* The collection whose ACL counts: a change of permissions is a write to
\* the object named after it; find() passes the collection twice.
Subject(req) ==
  IF req.collection = AclCollection /\ req.op # "find" THEN req.key ELSE req.collection

ASSUME StorageAssumption ==
  /\ AclCollection \in Collections /\ AclTag \in Names
  /\ \A r \in Requests :
       /\ Request[r].op \in {"read", "write", "remove", "find"}
       /\ Request[r].collection \in Collections /\ Request[r].key \in Names
       /\ Request[r].tags \in Seq(Names) /\ Subject(Request[r]) \in Names
       /\ Request[r].op = "write" => Request[r].blob # Absent
  /\ MaxCrashes \in Nat

\* The record stored for a collection.
Stored(c) ==
  IF files[<<AclCollection, c>>][1] = "acl" THEN files[<<AclCollection, c>>][2] ELSE NoMeta

-----------------------------------------------------------------------------
StorageInit(batches) ==
  /\ files = [p \in StoredPaths |-> Absent]
  /\ dirs = {} /\ links = {}
  /\ queue = <<>> /\ writing = <<>>
  /\ cache = [c \in Names |-> [meta |-> NoMeta, valid |-> FALSE]]
  /\ \E batch \in batches : phase = [r \in Requests |-> IF r \in batch THEN "new" ELSE "unsent"]
  /\ reply = [r \in Requests |-> <<>>]
  /\ crashes = 0
  /\ window = [c \in Names |-> {NoMeta}]
  /\ torn = {}
  /\ acknowledged = [p \in StoredPaths |-> [contents |-> Absent, tags |-> {}]]

Job(kind, r, meta) == [kind |-> kind, req |-> r, meta |-> meta]

Post(jobs) == queue' = queue \o jobs

\* deferred.write(), close() or abort().
Answer(r, a) ==
  /\ reply' = [reply EXCEPT ![r] = Append(@, a)]
  /\ phase' = [phase EXCEPT ![r] = "done"]

\* on_metainfo: the first to write to a collection without a record becomes
\* its owner; jobs go behind those in rest.
OnMetainfo(r, meta, rest) ==
  LET req == Request[r]
      someone == req.who.cids # {} \/ req.who.uids # {}
  IN  \/ /\ meta = NoMeta /\ Flag(req.op) = "write" /\ someone
         /\ queue' = rest \o <<Job("put", r, OwnedBy(req.who))>>
         /\ phase' = [phase EXCEPT ![r] = "owning"] /\ UNCHANGED reply
      \/ /\ meta = NoMeta /\ ~(Flag(req.op) = "write" /\ someone)
         /\ queue' = rest \o <<Job("op", r, NoMeta)>>
         /\ phase' = [phase EXCEPT ![r] = "queued"] /\ UNCHANGED reply
      \/ /\ meta # NoMeta /\ Allowed(meta, req.who, req.op)
         /\ queue' = rest \o <<Job("op", r, NoMeta)>>
         /\ phase' = [phase EXCEPT ![r] = "queued"] /\ UNCHANGED reply
      \/ /\ meta # NoMeta /\ ~Allowed(meta, req.who, req.op)
         /\ Answer(r, <<"error", "permission_denied">>)
         /\ queue' = rest

\* The slot of an operation on the service's thread: verify() decides on the
\* cached record at once, or asks the storage for it.
Issue(r) ==
  /\ phase[r] = "new"
  /\ LET c == Subject(Request[r])
     IN  \/ /\ cache[c].valid
            /\ OnMetainfo(r, cache[c].meta, queue)
         \/ /\ ~cache[c].valid
            /\ Post(<<Job("get", r, NoMeta)>>)
            /\ phase' = [phase EXCEPT ![r] = "verifying"]
            /\ UNCHANGED reply
  /\ UNCHANGED <<fsVars, writing, cache, crashes, window, torn, acknowledged>>

\* Mutant: the record is used although it has expired.
ExpireLate(c) ==
  /\ cache[c].valid
  /\ window' = [window EXCEPT ![c] = {Stored(c)}]
  /\ UNCHANGED <<fsVars, queue, writing, cache, reqVars, crashes, torn, acknowledged>>

\* The clock passes the expiration time of a cached record.
Expire(c) ==
  /\ cache[c].valid
  /\ cache' = [cache EXCEPT ![c].valid = FALSE]
  /\ window' = [window EXCEPT ![c] = {Stored(c)}]
  /\ UNCHANGED <<fsVars, queue, writing, reqVars, crashes, torn, acknowledged>>

-----------------------------------------------------------------------------
(* The thread of files_t *)

Idle(kinds) == writing = <<>> /\ queue # <<>> /\ Head(queue).kind \in kinds

Op(job) == Request[job.req].op

\* read_sync(): a directory opens and reads as nothing.
ReadSync(p) == IF p \in dirs THEN EmptyFile ELSE files[p]

\* get<metainfo_t>() for a verification: no object is an empty record, and
\* anything but a record is an error; what was read is cached.
RunGet ==
  /\ Idle({"get"})
  /\ LET r == Head(queue).req
         c == Subject(Request[r])
         f == ReadSync(<<AclCollection, c>>)
         meta == IF f = Absent THEN NoMeta ELSE f[2]
     IN  \/ /\ f = Absent \/ f[1] = "acl"
            /\ cache' = [cache EXCEPT ![c] = [meta |-> meta, valid |-> TRUE]]
            /\ window' = [window EXCEPT ![c] = {meta}]
            /\ OnMetainfo(r, meta, Tail(queue))
         \/ /\ f[1] \in {"blob", "empty"}
            /\ Answer(r, <<"error", "invalid_acl_framing">>)
            /\ queue' = Tail(queue)
            /\ UNCHANGED <<cache, window>>
  /\ UNCHANGED <<fsVars, writing, crashes, torn, acknowledged>>

\* What a job writes: the ACL of a verification, or the object of a request.
Path(job) ==
  LET req == Request[job.req]
  IN  IF job.kind = "put" THEN <<AclCollection, Subject(req)>> ELSE <<req.collection, req.key>>
Contents(job) == IF job.kind = "put" THEN Acl(job.meta) ELSE Request[job.req].blob
JobTags(job) == IF job.kind = "put" THEN <<AclTag>> ELSE Request[job.req].tags

IsWrite(job) == job.kind = "put" \/ (job.kind = "op" /\ Op(job) = "write")

\* The callback of a job: a verification that succeeds goes on to the
\* operation, everything else is an answer.
Callback(job, ok, answer) ==
  /\ writing' = <<>>
  /\ \/ /\ job.kind = "put" /\ ok
        /\ queue' = Append(Tail(queue), Job("op", job.req, NoMeta))
        /\ phase' = [phase EXCEPT ![job.req] = "queued"] /\ UNCHANGED reply
     \/ /\ ~(job.kind = "put" /\ ok)
        /\ queue' = Tail(queue)
        /\ Answer(job.req, answer)

\* write_sync() until the file is open: it is empty now.
WriteOpen ==
  /\ Idle({"put", "op"}) /\ IsWrite(Head(queue))
  /\ LET job == Head(queue)
         p == Path(job)
     IN  \/ /\ p \in dirs
            /\ Callback(job, FALSE, <<"error", "permission_denied">>)
            /\ UNCHANGED files
         \/ /\ p \notin dirs
            /\ files' = [files EXCEPT ![p] = EmptyFile]
            /\ writing' = <<JobTags(job)>>
            /\ UNCHANGED <<queue, reqVars>>
  /\ UNCHANGED <<dirs, links, cache, crashes, window, torn, acknowledged>>

\* Mutant: the object is listed under its first tag only.
WriteTagFirst ==
  /\ writing # <<>> /\ writing[1] # <<>>
  /\ LET p == Path(Head(queue))
         t == Head(writing[1])
     IN  /\ dirs' = dirs \cup {<<p[1], t>>}
         /\ links' = links \cup {<<p[1], t, p[2]>>}
         /\ writing' = <<<<>>>>
         /\ UNCHANGED <<queue, reqVars, torn>>
  /\ UNCHANGED <<files, cache, crashes, window, acknowledged>>

\* One round of the loop over the tags.
WriteTag ==
  /\ writing # <<>> /\ writing[1] # <<>>
  /\ LET p == Path(Head(queue))
         t == Head(writing[1])
     IN  \/ /\ files[<<p[1], t>>] = Absent
            /\ dirs' = dirs \cup {<<p[1], t>>}
            /\ links' = links \cup {<<p[1], t, p[2]>>}
            /\ writing' = <<Tail(writing[1])>>
            /\ UNCHANGED <<queue, reqVars, torn>>
         \/ /\ files[<<p[1], t>>] # Absent
            /\ Callback(Head(queue), FALSE, <<"error", "not_a_directory">>)
            /\ torn' = torn \cup {p}
            /\ UNCHANGED <<dirs, links>>
  /\ UNCHANGED <<files, cache, crashes, window, acknowledged>>

\* Mutant: the callback is called before the contents are out.
WriteCloseEarly ==
  /\ writing = <<<<>>>>
  /\ LET job == Head(queue)
         p == Path(job)
     IN  /\ torn' = torn \ {p}
         /\ acknowledged' = [acknowledged EXCEPT ![p] = [contents |-> Contents(job), tags |-> Range(JobTags(job))]]
         /\ UNCHANGED window
         /\ Callback(job, TRUE, <<"ok">>)
  /\ UNCHANGED <<fsVars, cache, crashes>>

\* The contents are written, the file is closed, the callback is called.
WriteClose ==
  /\ writing = <<<<>>>>
  /\ LET job == Head(queue)
         p == Path(job)
     IN  /\ files' = [files EXCEPT ![p] = Contents(job)]
         /\ torn' = torn \ {p}
         /\ acknowledged' = [acknowledged EXCEPT ![p] = [contents |-> Contents(job), tags |-> Range(JobTags(job))]]
         /\ window' = IF p[1] = AclCollection /\ Contents(job)[1] = "acl"
                      THEN [window EXCEPT ![p[2]] = @ \cup {Contents(job)[2]}] ELSE window
         /\ Callback(job, TRUE, <<"ok">>)
  /\ UNCHANGED <<dirs, links, cache, crashes>>

RunRead ==
  /\ Idle({"op"}) /\ Op(Head(queue)) = "read"
  /\ LET f == ReadSync(Path(Head(queue)))
     IN  Callback(Head(queue), f # Absent,
                  IF f = Absent THEN <<"error", "no_such_file">> ELSE <<"value", f>>)
  /\ UNCHANGED <<fsVars, cache, crashes, window, torn, acknowledged>>

InTag(p) == {l \in links : l[1] = p[1] /\ l[2] = p[2]}

\* remove_sync(): the links to the object stay.
RunRemove ==
  /\ Idle({"op"}) /\ Op(Head(queue)) = "remove"
  /\ LET p == Path(Head(queue))
     IN  /\ p \in dirs => InTag(p) = {}
         /\ files' = [files EXCEPT ![p] = Absent]
         /\ dirs' = dirs \ {p}
         /\ torn' = torn \ {p}
         /\ acknowledged' = [acknowledged EXCEPT ![p] = [contents |-> Absent, tags |-> {}]]
         /\ window' = IF p[1] = AclCollection THEN [window EXCEPT ![p[2]] = @ \cup {NoMeta}] ELSE window
  /\ Callback(Head(queue), TRUE, <<"ok">>)
  /\ UNCHANGED <<links, cache, crashes>>

Exists(c, k) == files[<<c, k>>] # Absent \/ <<c, k>> \in dirs

\* find_sync(): up to the first tag that is not there, links to nothing are
\* removed; the answer is what all the tags have.
RunFind ==
  /\ Idle({"op"}) /\ Op(Head(queue)) = "find"
  /\ LET req == Request[Head(queue).req]
         c == req.collection
         missing == {i \in DOMAIN req.tags : ~Exists(c, req.tags[i])}
         seen == {req.tags[i] : i \in {i \in DOMAIN req.tags : \A j \in missing : i < j}}
         dangling == {l \in links : l[1] = c /\ l[2] \in seen /\ ~Exists(c, l[3])}
         found == {k \in Names : \A t \in Range(req.tags) : <<c, t, k>> \in links \ dangling}
     IN  /\ \A t \in seen : <<c, t>> \in dirs
         /\ links' = links \ dangling
         /\ Callback(Head(queue), TRUE,
                     <<"found", IF missing # {} \/ req.tags = <<>> THEN {} ELSE found>>)
  /\ UNCHANGED <<files, dirs, cache, crashes, window, torn, acknowledged>>

\* The process ends: what was under way is lost, the files stay.
Death ==
  /\ queue' = <<>> /\ writing' = <<>>
  /\ cache' = [c \in Names |-> [meta |-> NoMeta, valid |-> FALSE]]
  /\ phase' = [r \in Requests |-> IF phase[r] \in {"verifying", "owning", "queued"} THEN "lost" ELSE phase[r]]
  /\ torn' = IF writing = <<>> THEN torn ELSE torn \cup {Path(Head(queue))}
  /\ crashes' = crashes + 1
  /\ UNCHANGED <<fsVars, reply, window, acknowledged>>

Crash == crashes < MaxCrashes /\ Death

\* remove() of a tag in use and find() by the name of an object end in an
\* exception of the file system library; the callbacks only take
\* std::system_error, so it leaves the thread.
Escapes ==
  /\ Idle({"op"})
  /\ LET req == Request[Head(queue).req]
     IN  \/ req.op = "remove" /\ Path(Head(queue)) \in dirs /\ InTag(Path(Head(queue))) # {}
         \/ /\ req.op = "find"
            /\ \E i \in DOMAIN req.tags :
                 /\ files[<<req.collection, req.tags[i]>>] # Absent
                 /\ \A j \in 1..(i - 1) : Exists(req.collection, req.tags[j])
  /\ Death

LoopRuns ==
  RunGet \/ WriteOpen \/ WriteTag \/ WriteClose \/ RunRead \/ RunRemove \/ RunFind \/ Escapes

StorageNext ==
  \/ \E r \in Requests : Issue(r)
  \/ \E c \in Names : Expire(c)
  \/ LoopRuns \/ Crash

StorageSpec == StorageInit(SUBSET Requests) /\ [][StorageNext]_storageVars

-----------------------------------------------------------------------------
\* What was answered stays: outside of a write under way and of paths where
\* one failed or died half-way, every object has the contents of the last
\* write or remove that was answered, also after the process was restarted.
AnsweredPersists ==
  \A p \in StoredPaths :
    p \notin torn /\ ~(writing # <<>> /\ Path(Head(queue)) = p) => files[p] = acknowledged[p].contents

AnsweredNow(r) == reply'[r] # reply[r]
NewAnswer(r) == reply'[r][Len(reply'[r])]

\* find() answers with objects that exist, and with every object whose last
\* write was answered and carried all the tags asked for.
FindExact ==
  [][\A r \in Requests : AnsweredNow(r) /\ NewAnswer(r)[1] = "found" =>
       LET c == Request[r].collection
           asked == Range(Request[r].tags)
       IN  /\ \A k \in NewAnswer(r)[2] : Exists(c, k)
           /\ asked # {} => \A k \in Names :
                asked \subseteq acknowledged[<<c, k>>].tags /\ files[<<c, k>>] # Absent => k \in NewAnswer(r)[2]
    ]_storageVars

\* A request goes on only if a record that allows it, or no record, was
\* stored at some moment since the cached one was last out of date: a change
\* of permissions is effective once the cache has expired.
CurrentRights ==
  [][\A r \in Requests : phase[r] \in {"new", "verifying"} /\ phase'[r] \in {"owning", "queued"} =>
       \E meta \in window'[Subject(Request[r])] :
         meta = NoMeta \/ Allowed(meta, Request[r].who, Request[r].op)]_storageVars

=============================================================================
