------------------------------ MODULE Uploads ------------------------------
(***************************************************************************)
(* Resumable uploads: the upload service (internal/uploads), the staging   *)
(* and object files it works on (internal/storage) and the security gate   *)
(* that stands between them (wardveil.StagedFileGate), for one space.      *)
(*                                                                         *)
(* HTTP handlers run concurrently and hold no lock: the code takes none    *)
(* beyond the one inside each repository call.  A step of a handler is one *)
(* call that reads or changes shared state, so handlers interleave between *)
(* the system calls of an append, of a hash and of a finalization.         *)
(*                                                                         *)
(* Files are inodes: the staging and object paths of a space are           *)
(* directories mapping an identifier to an inode, a hard link puts one     *)
(* inode under two paths, and a descriptor keeps reaching its inode after  *)
(* the path is gone.  A byte stands for a block of content; the digest of  *)
(* a content is the content, SHA-256 being taken as free of collisions.    *)
(***************************************************************************)
EXTENDS ScanEvidence

CONSTANTS UploadIDs,  \* upload identifiers that newUUID can produce
          Nodes,      \* file nodes of the space
          Requests,   \* handlers that may be in flight at the same time
          Inodes,     \* inodes of the storage file system
          Byte,       \* blocks of content
          Zero,       \* a block of a hole, as the file system reads it
          None,       \* no inode, no upload, no evidence
          Bodies,     \* request bodies of appends
          Verdicts,   \* what the scanner may answer: result, evidence, window
          MaxChunk,   \* s.maxChunk, in blocks
          TTL,        \* s.ttl
          MaxSize,    \* bound on the size of an upload
          MaxTime,    \* bound on the clock
          Serial,     \* TRUE: a client sends one request per session at a time
          Durable,    \* TRUE: sessions in PostgreSQL, FALSE: in memory
          Faults      \* the steps at which a call may fail

ASSUME BoundsAssumption == /\ MaxChunk \in Nat /\ TTL \in Nat
                           /\ MaxSize \in Nat /\ MaxTime \in Nat
                           /\ MaxChunk > 0 /\ TTL > 0
ASSUME ValuesAssumption == /\ Zero \in Byte
                           /\ Bodies \subseteq Seq(Byte)
                           /\ None \notin Inodes /\ None \notin UploadIDs
                           /\ None \notin Nodes /\ "" \notin Nodes
                           /\ Serial \in BOOLEAN /\ Durable \in BOOLEAN
ASSUME VerdictsAssumption ==
  Verdicts \subseteq [result : Results, refs : Nat, observed : Int, until : Int]

VARIABLES
  clock,    \* the time s.now and the gate read
  repo,     \* the session repository, by upload identifier
  staging,  \* the staging directory: upload identifier to inode
  objects,  \* the object directory: node to inode
  data,     \* the content of every inode
  h,        \* the handlers in flight
  pub,      \* history: for each node, the upload and evidence it was published on
  acked     \* history: for each upload, the content its appends acknowledged

vars  == <<clock, repo, staging, objects, data, h, pub, acked>>
files == <<staging, objects, data>>
hist  == <<pub, acked>>
-----------------------------------------------------------------------------
Content == Seq(Byte)

\* A session of the repository.  An identifier no session was created for is
\* "unissued"; one whose in-memory session a restart lost is "lost".
Session == [node : Nodes \cup {None}, offset : Nat,
            state : {"unissued", "active", "completed", "lost"}, expires : Nat]
NoSession == [node |-> None, offset |-> 0, state |-> "unissued", expires |-> 0]

AppendPCs   == {"open", "write", "update"}
ReadPCs     == {"hash", "scan", "rehash"}
OpenPCs     == {"openhash", "openscan", "openrehash"}
CompletePCs == OpenPCs \cup ReadPCs
                 \cup {"evaluate", "recheck", "link", "unlink", "complete"}
PCs         == {"idle"} \cup AppendPCs \cup CompletePCs

ScopeIDs   == {"s"} \X Nodes
Digests    == [value : Content, case : {"lower"}, hex64 : {TRUE}]
ScanRecord == [version : {RuntimeContractVersion}, type : {ScanRecordType},
               authoritative : {TRUE}, producer : {"wardveil"},
               scopeType : {DriveFileResourceType}, scopeID : ScopeIDs,
               observed : Int, until : Int, result : Results, refs : Nat]
Envelope   == [resourceID : ScopeIDs, digest : Digests, record : ScanRecord]

\* The local variables of a handler; one that is idle keeps none.
Handler == [pc : PCs, u : UploadIDs \cup {None}, sess : Session,
            fd : Inodes \cup {None}, body : Content, pos : Nat, buf : Content,
            digest : Content, env : Envelope \cup {None}, evalAt : Nat, checkedAt : Nat]
Idle == [pc |-> "idle", u |-> None, sess |-> NoSession, fd |-> None, body |-> << >>,
         pos |-> 0, buf |-> << >>, digest |-> << >>, env |-> None,
         evalAt |-> 0, checkedAt |-> 0]

Publication == [by : UploadIDs, digest : Content, after : Content, env : Envelope,
                evalAt : Nat, checkedAt : Nat]

TypeOK == /\ clock \in Nat
          /\ repo \in [UploadIDs -> Session]
          /\ staging \in [UploadIDs -> Inodes \cup {None}]
          /\ objects \in [Nodes -> Inodes \cup {None}]
          /\ data \in [Inodes -> Content]
          /\ h \in [Requests -> Handler]
          /\ pub \in [Nodes -> Publication \cup {None}]
          /\ acked \in [UploadIDs -> Content]

ASSUME NoneAssumption == None \notin Publication

Init == /\ clock = 1
        /\ repo = [u \in UploadIDs |-> NoSession]
        /\ staging = [u \in UploadIDs |-> None]
        /\ objects = [n \in Nodes |-> None]
        /\ data = [i \in Inodes |-> << >>]
        /\ h = [r \in Requests |-> Idle]
        /\ pub = [n \in Nodes |-> None]
        /\ acked = [u \in UploadIDs |-> << >>]
-----------------------------------------------------------------------------
(* The file system, as the code uses it. *)

\* ftruncate: the first n blocks, a hole where there were fewer.
Resize(s, n) == [i \in 1..n |-> IF i <= Len(s) THEN s[i] ELSE Zero]

\* pwrite of block b at offset p, past the end too.
WriteAt(s, p, b) == [Resize(s, IF p < Len(s) THEN Len(s) ELSE p + 1) EXCEPT ![p + 1] = b]

\* An inode that no path and no descriptor reaches can be handed out again.
Free == {i \in Inodes : /\ \A u \in UploadIDs : staging[u] # i
                        /\ \A n \in Nodes : objects[n] # i
                        /\ \A r \in Requests : h[r].fd # i}
-----------------------------------------------------------------------------
(* Handlers. *)

At(r, pc)    == h[r].pc = pc
Become(r, l) == h' = [h EXCEPT ![r] = l]
Finish(r)    == Become(r, Idle)       \* the handler answers, with or without an error

IsExpired(s) == clock >= s.expires

\* repo.Create: a fresh identifier for a node that the caller named.
Create(u, n) ==
  /\ repo[u].state = "unissued"
  /\ repo' = [repo EXCEPT ![u] = [node |-> n, offset |-> 0, state |-> "active",
                                  expires |-> clock + TTL]]
  /\ UNCHANGED <<clock, files, h, hist>>

\* Any request for an expired session: Get discards what is staged and refuses.
Expire(u) ==
  /\ repo[u].state \in {"active", "completed"}
  /\ IsExpired(repo[u])
  /\ staging' = [staging EXCEPT ![u] = None]
  /\ UNCHANGED <<clock, repo, objects, data, h, hist>>

\* Mutant: the state of the session is not looked at.
GetAnyState(r, u) == /\ At(r, "idle")
                     /\ repo[u].state \in {"active", "completed"}
                     /\ ~IsExpired(repo[u])
                     /\ Serial => \A q \in Requests : h[q].u # u

\* Get, for a session that is neither expired nor completed.
Get(r, u) == /\ At(r, "idle")
             /\ repo[u].state = "active"
             /\ ~IsExpired(repo[u])
             /\ Serial => \A q \in Requests : h[q].u # u

\* Append, up to the call of AppendStaging: the caller's offset is the one on
\* record, or the request ends here.  At most MaxChunk + 1 blocks are read of
\* a body, so a longer one behaves like one of MaxChunk + 1.
StartAppend(r, u, body) ==
  /\ Get(r, u)
  /\ Len(body) <= MaxChunk + 1
  /\ repo[u].offset + Len(body) <= MaxSize
  /\ Become(r, [Idle EXCEPT !.pc = "open", !.u = u, !.sess = repo[u], !.body = body])
  /\ UNCHANGED <<clock, repo, files, hist>>

\* Mutant: the staging path is made from the node, not from the upload.
OpenAppendByNode(r) ==
  LET sharing == {v \in UploadIDs : staging[v] # None /\ repo[v].node = h[r].sess.node}
  IN /\ At(r, "open")
     /\ \E i \in IF sharing = {} THEN Free ELSE {staging[v] : v \in sharing} :
          /\ staging' = [staging EXCEPT ![h[r].u] = i]
          /\ Become(r, [h[r] EXCEPT !.pc = "write", !.fd = i, !.pos = h[r].sess.offset])
     /\ UNCHANGED <<clock, repo, objects, data, hist>>

\* os.OpenFile with O_CREATE, then Stat: only a file that ends where the
\* caller thinks it does is written to.
OpenAppend(r) ==
  LET u == h[r].u
      offset == h[r].sess.offset
      Write(i) == Become(r, [h[r] EXCEPT !.pc = "write", !.fd = i, !.pos = offset])
  IN /\ At(r, "open")
     /\ \/ /\ staging[u] = None
           /\ \E i \in Free :
                /\ staging' = [staging EXCEPT ![u] = i]
                /\ data' = [data EXCEPT ![i] = << >>]
                /\ IF offset = 0 THEN Write(i) ELSE Finish(r)
        \/ /\ staging[u] # None
           /\ UNCHANGED <<staging, data>>
           /\ IF Len(data[staging[u]]) = offset THEN Write(staging[u]) ELSE Finish(r)
     /\ UNCHANGED <<clock, repo, objects, hist>>

\* One block of io.Copy.  The descriptor has its own position: no O_APPEND.
Written(r) == h[r].pos - h[r].sess.offset
WriteBlock(r) ==
  /\ At(r, "write")
  /\ Written(r) < Len(h[r].body)
  /\ data' = [data EXCEPT ![h[r].fd] = WriteAt(@, h[r].pos, h[r].body[Written(r) + 1])]
  /\ Become(r, [h[r] EXCEPT !.pos = @ + 1])
  /\ UNCHANGED <<clock, repo, staging, objects, hist>>

\* Mutant: a body over the limit takes the whole staged file with it.
EndWriteTruncateAll(r) ==
  /\ At(r, "write")
  /\ Written(r) = Len(h[r].body)
  /\ IF Written(r) > MaxChunk
       THEN /\ data' = [data EXCEPT ![h[r].fd] = << >>]
            /\ Finish(r)
       ELSE /\ UNCHANGED data
            /\ Become(r, [h[r] EXCEPT !.pc = "update", !.fd = None, !.sess.offset = h[r].pos])
  /\ UNCHANGED <<clock, repo, staging, objects, hist>>

\* Mutant: the written length is taken off the offset.
EndWriteBackwards(r) ==
  /\ At(r, "write")
  /\ Written(r) = Len(h[r].body)
  /\ Become(r, [h[r] EXCEPT !.pc = "update", !.fd = None, !.sess.offset = @ - Written(r)])
  /\ UNCHANGED <<clock, repo, staging, objects, data, hist>>

\* The whole body has been copied: a body over the limit is cut off again,
\* any other is synced.
EndWrite(r) ==
  /\ At(r, "write")
  /\ Written(r) = Len(h[r].body)
  /\ IF Written(r) > MaxChunk
       THEN /\ data' = [data EXCEPT ![h[r].fd] = Resize(@, h[r].sess.offset)]
            /\ Finish(r)
       ELSE /\ UNCHANGED data
            /\ Become(r, [h[r] EXCEPT !.pc = "update", !.fd = None, !.sess.offset = h[r].pos])
  /\ UNCHANGED <<clock, repo, staging, objects, hist>>

\* session.Offset = next and repo.Update: the record is replaced as a whole by
\* the handler's copy, and the client is told that its bytes are stored.
UpdateOffset(r) ==
  LET u == h[r].u
      base == h[r].pos - Len(h[r].body)
  IN /\ At(r, "update")
     /\ repo' = [repo EXCEPT ![u] = h[r].sess]
     /\ acked' = [acked EXCEPT ![u] = Resize(@, base) \o h[r].body]
     /\ Finish(r)
     /\ UNCHANGED <<clock, files, pub>>
-----------------------------------------------------------------------------
(* Complete: the security gate, then the finalization. *)

StartComplete(r, u) ==
  /\ Get(r, u)
  /\ Become(r, [Idle EXCEPT !.pc = "openhash", !.u = u, !.sess = repo[u]])
  /\ UNCHANGED <<clock, repo, files, hist>>

\* OpenStaging, for the first hash, for the scan and for the second hash.
OpenStaging(r) ==
  /\ h[r].pc \in OpenPCs
  /\ IF staging[h[r].u] = None
       THEN Finish(r)
       ELSE Become(r, [h[r] EXCEPT !.fd = staging[h[r].u], !.buf = << >>,
                                   !.pc = CASE At(r, "openhash")   -> "hash"
                                            [] At(r, "openscan")   -> "scan"
                                            [] At(r, "openrehash") -> "rehash"])
  /\ UNCHANGED <<clock, repo, files, hist>>

\* One block read; the scan request carries no more than the size it declared
\* (a declared size of 0 leaves the length of the body open).
Size(r)   == Len(h[r].digest)
AllRead(r) == \/ Len(h[r].buf) >= Len(data[h[r].fd])
              \/ At(r, "scan") /\ Size(r) > 0 /\ Len(h[r].buf) >= Size(r)
ReadBlock(r) ==
  /\ h[r].pc \in ReadPCs
  /\ ~AllRead(r)
  /\ Become(r, [h[r] EXCEPT !.buf = Append(@, data[h[r].fd][Len(@) + 1])])
  /\ UNCHANGED <<clock, repo, files, hist>>

EndHash(r) ==
  /\ At(r, "hash")
  /\ AllRead(r)
  /\ Become(r, [h[r] EXCEPT !.pc = "openscan", !.digest = h[r].buf, !.fd = None, !.buf = << >>])
  /\ UNCHANGED <<clock, repo, files, hist>>

\* The Wardveil scanner, external: its envelope names the resource it was
\* asked about and the digest of the bytes that it inspected.
ScanEnvelope(n, inspected, v) ==
  [resourceID |-> <<"s", n>>, digest |-> HexDigest(inspected),
   record |-> [version |-> RuntimeContractVersion, type |-> ScanRecordType,
               authoritative |-> TRUE, producer |-> "wardveil",
               scopeType |-> DriveFileResourceType, scopeID |-> <<"s", n>>,
               observed |-> clock + v.observed, until |-> clock + v.until,
               result |-> v.result, refs |-> v.refs]]

\* Scan: a body that falls short of the declared size fails the request.
Scan(r) ==
  /\ At(r, "scan")
  /\ AllRead(r)
  /\ \/ /\ Size(r) > 0 /\ Len(h[r].buf) < Size(r)
        /\ Finish(r)
     \/ /\ Size(r) = 0 \/ Len(h[r].buf) >= Size(r)
        /\ \E v \in Verdicts :
             Become(r, [h[r] EXCEPT !.pc = "evaluate", !.fd = None, !.buf = << >>,
                                    !.env = ScanEnvelope(h[r].sess.node, h[r].buf, v)])
  /\ UNCHANGED <<clock, repo, files, hist>>

Resource(r) == [space |-> "s", node |-> h[r].sess.node, size |-> Size(r),
                digest |-> HexDigest(h[r].digest)]

EvaluateVerdict(r) ==
  /\ At(r, "evaluate")
  /\ IF Evaluate(Resource(r), "upload_finalize", h[r].env, clock).canRelease
       THEN Become(r, [h[r] EXCEPT !.pc = "openrehash", !.evalAt = clock])
       ELSE Finish(r)
  /\ UNCHANGED <<clock, repo, files, hist>>

\* Mutant: the second hash is not compared with the first.
EndRehashUnchecked(r) ==
  /\ At(r, "rehash")
  /\ AllRead(r)
  /\ Become(r, [h[r] EXCEPT !.pc = "recheck", !.fd = None])
  /\ UNCHANGED <<clock, repo, files, hist>>

\* The second hash must find the content that was scanned.
EndRehash(r) ==
  /\ At(r, "rehash")
  /\ AllRead(r)
  /\ IF h[r].buf = h[r].digest
       THEN Become(r, [h[r] EXCEPT !.pc = "recheck", !.fd = None])
       ELSE Finish(r)
  /\ UNCHANGED <<clock, repo, files, hist>>

\* Mutant: no second look at the expiry of the session.
RecheckSkipped(r) ==
  /\ At(r, "recheck")
  /\ Become(r, [h[r] EXCEPT !.pc = "link", !.checkedAt = clock])
  /\ UNCHANGED <<clock, repo, files, hist>>

\* rejectExpired after the scan, which may have taken long.
Recheck(r) ==
  /\ At(r, "recheck")
  /\ IF IsExpired(h[r].sess)
       THEN /\ staging' = [staging EXCEPT ![h[r].u] = None]
            /\ Finish(r)
       ELSE /\ UNCHANGED staging
            /\ Become(r, [h[r] EXCEPT !.pc = "link", !.checkedAt = clock])
  /\ UNCHANGED <<clock, repo, objects, data, hist>>

\* Mutant: os.Rename in the place of os.Link, which replaces an object.
LinkReplaces(r) ==
  /\ At(r, "link")
  /\ staging[h[r].u] # None
  /\ objects' = [objects EXCEPT ![h[r].sess.node] = staging[h[r].u]]
  /\ pub' = [pub EXCEPT ![h[r].sess.node] =
        [by |-> h[r].u, digest |-> h[r].digest, after |-> h[r].buf, env |-> h[r].env,
         evalAt |-> h[r].evalAt, checkedAt |-> h[r].checkedAt]]
  /\ Become(r, [h[r] EXCEPT !.pc = "unlink"])
  /\ UNCHANGED <<clock, repo, staging, data, acked>>

\* Mutant: an object that exists already is taken for this upload's own.
LinkToleratesExisting(r) ==
  /\ At(r, "link")
  /\ Become(r, [h[r] EXCEPT !.pc = "unlink"])
  /\ UNCHANGED <<clock, repo, files, hist>>

\* Finalize: a hard link that never replaces an object ...
Link(r) ==
  LET u == h[r].u
      n == h[r].sess.node
  IN /\ At(r, "link")
     /\ IF staging[u] # None /\ objects[n] = None
          THEN /\ objects' = [objects EXCEPT ![n] = staging[u]]
               /\ pub' = [pub EXCEPT ![n] =
                     [by |-> u, digest |-> h[r].digest, after |-> h[r].buf, env |-> h[r].env,
                      evalAt |-> h[r].evalAt, checkedAt |-> h[r].checkedAt]]
               /\ Become(r, [h[r] EXCEPT !.pc = "unlink"])
          ELSE /\ UNCHANGED <<objects, pub>>
               /\ Finish(r)
     /\ UNCHANGED <<clock, repo, staging, data, acked>>

\* Mutant: the staging name is left behind.
UnlinkSkipped(r) ==
  /\ At(r, "unlink")
  /\ Become(r, [h[r] EXCEPT !.pc = "complete"])
  /\ UNCHANGED <<clock, repo, files, hist>>

\* ... then the removal of the staging name.
Unlink(r) ==
  /\ At(r, "unlink")
  /\ IF staging[h[r].u] = None
       THEN Finish(r) /\ UNCHANGED staging
       ELSE /\ staging' = [staging EXCEPT ![h[r].u] = None]
            /\ Become(r, [h[r] EXCEPT !.pc = "complete"])
  /\ UNCHANGED <<clock, repo, objects, data, hist>>

UpdateCompleted(r) ==
  /\ At(r, "complete")
  /\ repo' = [repo EXCEPT ![h[r].u] = [h[r].sess EXCEPT !.state = "completed"]]
  /\ Finish(r)
  /\ UNCHANGED <<clock, files, hist>>
-----------------------------------------------------------------------------
\* The call that the handler is at fails, or its client goes away: the handler
\* answers with an error and undoes nothing.
Fail(r) ==
  /\ h[r].pc \in Faults
  /\ Finish(r)
  /\ UNCHANGED <<clock, repo, files, hist>>

\* The server stops and starts again.  Files stay; sessions held in memory go.
Restart ==
  /\ h' = [r \in Requests |-> Idle]
  /\ repo' = IF Durable THEN repo
             ELSE [u \in UploadIDs |-> IF repo[u].state = "unissued" THEN repo[u]
                                       ELSE [repo[u] EXCEPT !.state = "lost"]]
  /\ UNCHANGED <<clock, files, hist>>

Tick ==
  /\ clock < MaxTime
  /\ clock' = clock + 1
  /\ UNCHANGED <<repo, files, h, hist>>

AppendStep(r)   == \/ OpenAppend(r) \/ WriteBlock(r) \/ EndWrite(r) \/ UpdateOffset(r)
GateStep(r)     == \/ OpenStaging(r) \/ ReadBlock(r) \/ EndHash(r) \/ Scan(r)
                   \/ EvaluateVerdict(r) \/ EndRehash(r)
FinalizeStep(r) == \/ Recheck(r) \/ Link(r) \/ Unlink(r) \/ UpdateCompleted(r)

Next == \/ Tick
        \/ Restart
        \/ \E u \in UploadIDs : Expire(u) \/ \E n \in Nodes : Create(u, n)
        \/ \E r \in Requests :
             \/ \E u \in UploadIDs : StartComplete(r, u)
             \/ \E u \in UploadIDs, body \in Bodies : StartAppend(r, u, body)
             \/ AppendStep(r) \/ GateStep(r) \/ FinalizeStep(r) \/ Fail(r)

Spec == Init /\ [][Next]_vars
-----------------------------------------------------------------------------
(* What must hold however requests overlap, fail and are cut short. *)

\* Nothing reaches the object namespace but on the evidence the gate asks for:
\* a current clean verdict about this node, on the digest that Drive computed
\* before the scan and found again after it (EvaluateUpload and Complete).
ReleasedOnlyInspected ==
  \A n \in Nodes :
    pub[n] # None =>
      LET record == pub[n].env.record
      IN /\ pub[n].env.digest.value = pub[n].digest
         /\ pub[n].after = pub[n].digest
         /\ record.result = "clean" /\ record.refs > 0
         /\ record.scopeID = <<"s", n>>
         /\ record.observed <= pub[n].evalAt /\ pub[n].evalAt <= record.until

\* A publication comes from a session that was still alive when the service
\* looked again after the verdict, however long the scan took (rejectExpired
\* in Complete).
AliveWhenReleased ==
  \A n \in Nodes :
    pub[n] # None => /\ pub[n].evalAt <= pub[n].checkedAt
                     /\ pub[n].checkedAt < repo[pub[n].by].expires

\* A session on record as completed owns the object of its node: of several
\* sessions racing for one node at most one is told that it completed, and a
\* file is there for it (Finalize before repo.Update).
CompletedOwnsObject ==
  \A u \in UploadIDs :
    repo[u].state = "completed" => LET n == repo[u].node
                                   IN objects[n] # None /\ pub[n].by = u

\* An inode never serves two uploads or two nodes: a staged file is reachable
\* as an object only under the node that this very upload was published to,
\* even when the staging name survived the publication.
StagingIsPrivate ==
  /\ \A u, v \in UploadIDs : staging[u] # None /\ staging[u] = staging[v] => u = v
  /\ \A n, m \in Nodes : objects[n] # None /\ objects[n] = objects[m] => n = m
  /\ \A u \in UploadIDs, n \in Nodes :
       staging[u] # None /\ staging[u] = objects[n] => pub[n].by = u

\* "Existing finalized content is never replaced" (Finalize): the object of a
\* node, and what it was released on, are settled by the first publication.
PublishedOnce ==
  [][\A n \in Nodes : objects[n] # None => objects'[n] = objects[n] /\ pub'[n] = pub[n]]_vars
\* The record of a completed session is put back by one thing only: an append
\* that had read it before, and whose repo.Update comes late.  No request that
\* starts afterwards and no completion, repeated or overlapping, touches it,
\* and the file stays the session's own (Append and Complete).
OnlyLateAppendsRollBack ==
  [][\A u \in UploadIDs :
       repo[u].state = "completed" /\ repo'[u] # repo[u] =>
         \/ repo'[u].state = "lost"
         \/ /\ \E r \in Requests : At(r, "update") /\ h[r].u = u /\ repo'[u] = h[r].sess
            /\ repo'[u].state = "active"
            /\ objects'[repo[u].node] # None /\ pub'[repo[u].node].by = u]_vars
-----------------------------------------------------------------------------
(* Why the properties above hold: what a handler may rely on at each step. *)

Issued(u) == repo[u].state # "unissued"

\* A handler in flight works on an issued session, whose node and expiry never
\* change, on the copy that was active when the handler read it.
SessionKnown(r) ==
  h[r].pc # "idle" => /\ h[r].u \in UploadIDs
                      /\ Issued(h[r].u)
                      /\ h[r].sess.node \in Nodes
                      /\ h[r].sess.state = "active"
                      /\ h[r].sess.node = repo[h[r].u].node
                      /\ h[r].sess.expires = repo[h[r].u].expires

\* A writer stands between the offset it opened at and the end of its body.
WriterInBounds(r) ==
  /\ At(r, "write")  => /\ h[r].fd \in Inodes
                        /\ h[r].sess.offset <= h[r].pos
                        /\ h[r].pos <= h[r].sess.offset + Len(h[r].body)
  /\ At(r, "update") => Len(h[r].body) <= h[r].pos
  /\ h[r].pc \in ReadPCs => h[r].fd \in Inodes

\* What the gate has established at each of its steps.
GateProgress(r) ==
  LET record == h[r].env.record
  IN /\ h[r].pc \in {"evaluate", "openrehash", "rehash", "recheck", "link"} =>
          h[r].env \in Envelope
     /\ h[r].pc \in {"openrehash", "rehash", "recheck", "link"} =>
          /\ h[r].env.digest.value = h[r].digest
          /\ record.result = "clean" /\ record.refs > 0
          /\ record.scopeID = <<"s", h[r].sess.node>>
          /\ record.observed <= h[r].evalAt /\ h[r].evalAt <= record.until
          /\ h[r].evalAt <= clock
     /\ h[r].pc \in {"recheck", "link"} => h[r].buf = h[r].digest
     /\ At(r, "link") => /\ h[r].evalAt <= h[r].checkedAt
                         /\ h[r].checkedAt < h[r].sess.expires

\* Past the link, the object of the node is this upload's.
FinalizerOwns(r) ==
  h[r].pc \in {"unlink", "complete"} =>
    /\ pub[h[r].sess.node] # None
    /\ pub[h[r].sess.node].by = h[r].u

HandlersOK == \A r \in Requests : SessionKnown(r) /\ WriterInBounds(r) /\ GateProgress(r)

FinalizersOwn == \A r \in Requests : FinalizerOwns(r)

\* Of a session, one handler at most is past the link, and it has not recorded
\* the completion yet.
FinalizersAlone ==
  \A r \in Requests :
    h[r].pc \in {"unlink", "complete"} =>
      /\ repo[h[r].u].state # "completed"
      /\ \A q \in Requests : h[q].pc \in {"unlink", "complete"} /\ h[q].u = h[r].u => q = r

\* Objects and publications go together, and a publication is under the node
\* of the session it came from.
PublicationsMatch ==
  \A n \in Nodes : /\ objects[n] # None <=> pub[n] # None
                   /\ pub[n] # None => Issued(pub[n].by) /\ repo[pub[n].by].node = n

\* A session that was issued has a node.
IssuedHaveNodes == \A u \in UploadIDs : Issued(u) => repo[u].node \in Nodes

\* What handlers rely on whatever becomes of the objects.
Sound == TypeOK /\ HandlersOK /\ IssuedHaveNodes

Inductive == /\ TypeOK
             /\ HandlersOK
             /\ IssuedHaveNodes
             /\ FinalizersOwn
             /\ PublicationsMatch
             /\ ReleasedOnlyInspected
             /\ AliveWhenReleased
             /\ CompletedOwnsObject
             /\ StagingIsPrivate
-----------------------------------------------------------------------------
(* What holds when a client sends one request of a session at a time. *)

\* "Final objects - immutable": the published file holds, and keeps, exactly
\* the bytes that were inspected (docs/STORAGE.md).
PublishedIsVerified ==
  \A n \in Nodes : pub[n] # None => data[objects[n]] = pub[n].digest

\* The files that may hold an upload's bytes: staged, or published from there.
Holders(u) == ({staging[u]} \cup {objects[n] : n \in {m \in Nodes : pub[m] # None /\ pub[m].by = u}})
                 \ {None}

\* The content of a file begins with these bytes.
Begins(bytes, content) == /\ Len(bytes) <= Len(content)
                          /\ \A k \in 1..Len(bytes) : content[k] = bytes[k]

\* Bytes that an append acknowledged are stored, in order and unchanged, for
\* as long as the session lives: appends resume where they stopped, nothing
\* is written over them and no hole opens before them (AppendStaging).
AckedBytesDurable ==
  \A u \in UploadIDs :
    /\ acked[u] # << >>
    /\ repo[u].state = "completed" \/ (repo[u].state = "active" /\ ~IsExpired(repo[u]))
    => \E i \in Holders(u) : Begins(acked[u], data[i])

-----------------------------------------------------------------------------
(* Why they hold: a session has one handler, which works on the record as it *)
(* is and on files that no other handler reaches.                            *)

\* Nobody else works on the session, and the record has not moved on.
HandlerAlone(r) ==
  h[r].pc # "idle" =>
    /\ \A q \in Requests : h[q].u = h[r].u => q = r
    /\ repo[h[r].u].state = "active"
    /\ IF At(r, "update")
         THEN /\ h[r].sess.offset = h[r].pos
              /\ repo[h[r].u].offset = h[r].pos - Len(h[r].body)
         ELSE h[r].sess.offset = repo[h[r].u].offset

\* The offset on record counts the acknowledged bytes.
OffsetsCount == \A u \in UploadIDs : /\ repo[u].offset = Len(acked[u])
                                     /\ ~Issued(u) => acked[u] = << >>

SerialSessions == OffsetsCount /\ \A r \in Requests : HandlerAlone(r)

\* An open descriptor reaches the staged file of its own upload, or one that
\* has lost its name, and never an object.
DescriptorPrivate(r) ==
  /\ h[r].pc \notin {"write"} \cup ReadPCs => h[r].fd = None
  /\ h[r].fd # None => /\ staging[h[r].u] \in {None, h[r].fd}
                       /\ \A q \in Requests : h[q].fd = h[r].fd => q = r
                       /\ \A u \in UploadIDs : staging[u] = h[r].fd => u = h[r].u
                       /\ \A n \in Nodes : objects[n] # h[r].fd

\* Only between the link and the unlink of a finalization does a file of a
\* session that can still be written to have both of its names.
TwoNames ==
  \A u \in UploadIDs, n \in Nodes :
    staging[u] # None /\ staging[u] = objects[n] =>
      \/ repo[u].state = "lost"
      \/ \E r \in Requests : At(r, "unlink") /\ h[r].u = u

\* An append adds its body, block by block, after the acknowledged bytes.
AppendProgress(r) ==
  LET u == h[r].u
  IN /\ At(r, "write") => /\ Len(data[h[r].fd]) = h[r].pos
                          /\ Begins(acked[u], data[h[r].fd])
                          /\ \A k \in 1..Written(r) : data[h[r].fd][h[r].sess.offset + k] = h[r].body[k]
     /\ At(r, "update") /\ staging[u] # None => Begins(acked[u] \o h[r].body, data[staging[u]])
     /\ h[r].pc \in {"write", "update"} /\ ~IsExpired(h[r].sess) => staging[u] # None

\* The digest is that of the staged file, which holds what was acknowledged
\* unless the upload has been published before.
FinalizeProgress(r) ==
  LET u == h[r].u
      n == h[r].sess.node
  IN /\ At(r, "hash") => Begins(h[r].buf, data[h[r].fd])
     /\ h[r].pc \in CompletePCs \ {"openhash", "hash", "unlink", "complete"} /\ staging[u] # None
          => data[staging[u]] = h[r].digest
     /\ h[r].pc \in CompletePCs \ {"unlink", "complete"} /\ staging[u] # None /\ objects[n] = None
          => Begins(acked[u], data[staging[u]])
     /\ At(r, "unlink") => staging[u] \in {None, objects[n]}
     /\ At(r, "complete") => staging[u] = None
     /\ h[r].pc \in {"unlink", "complete"} => Begins(acked[u], data[objects[n]])

\* A staged file is empty or goes on from what was acknowledged; none is left
\* of a session on record as completed.
StagedContinues ==
  \A u \in UploadIDs :
    /\ staging[u] # None => data[staging[u]] = << >> \/ Begins(acked[u], data[staging[u]])
    /\ repo[u].state = "completed" => staging[u] = None

SerialFiles == /\ TwoNames /\ StagedContinues /\ PublishedIsVerified /\ AckedBytesDurable
               /\ \A r \in Requests : DescriptorPrivate(r) /\ AppendProgress(r) /\ FinalizeProgress(r)

SerialInductive == Inductive /\ SerialSessions /\ SerialFiles
=============================================================================
