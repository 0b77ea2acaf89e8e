---------------------------- MODULE DriveProofs ----------------------------
(***************************************************************************)
(* Proofs about Drive: what uploads and quarantines cannot do to each      *)
(* other, for every set of uploads, nodes, requests and inodes.            *)
(***************************************************************************)
EXTENDS Drive, UploadsProofs

USE DEF At

-----------------------------------------------------------------------------
(* Steps of the one part, as the other sees them. *)

\* A step of the uploads takes no file that quarantine or trash still names.
UploadMove == /\ [Next]_vars
              /\ UNCHANGED <<quar, trash>>
              /\ \A u \in UploadIDs : staging'[u] # staging[u] => staging'[u] \notin Kept \ {None}

\* A file moves from one directory to another in two steps: another name, then
\* the removal of the first one.
Removes(n)     == objects' = [objects EXCEPT ![n] = None] /\ UNCHANGED <<quar, trash>>
Quarantines(n) == /\ quar[n] = None /\ objects[n] # None
                  /\ quar' = [quar EXCEPT ![n] = objects[n]] /\ UNCHANGED <<objects, trash>>
Trashes(n)     == /\ trash' = [trash EXCEPT ![n] = objects[n]] /\ UNCHANGED <<objects, quar>>

RequestActs(r) == \/ \E n \in Nodes : \/ Q!Read(r, n) \/ Q!MoveToTrash(r, n)
                                      \/ \E op \in Operations : Q!Apply(r, n, op)
                  \/ Q!ApplyStep(r) \/ Q!ReadStep(r) \/ Q!TrashStep(r) \/ Q!Fail(r)

RequestMove(r) == /\ UNCHANGED <<clock, repo, staging, data, h, pub, acked, inspected>>
                  /\ \/ UNCHANGED <<objects, quar, trash>>
                     \/ /\ qh[r].n \in Nodes
                        /\ Removes(qh[r].n) \/ Quarantines(qh[r].n) \/ Trashes(qh[r].n)

\* An upload's step of the server is one of Uploads.
LEMMA UploadStepMoves == UploadStep => UploadMove /\ Next
BY DEF UploadStep, UploadMove, Next, quarantineVars

\* So is a restart of the server, which leaves the files alone.
LEMMA RestartServerMoves == RestartServer => UploadMove /\ Restart
<1> SUFFICES ASSUME RestartServer PROVE UploadMove /\ Restart
  OBVIOUS
<1>1. Restart /\ UNCHANGED <<quar, trash>> /\ UNCHANGED staging
  BY DEF RestartServer, Q!Restart, Q!dirs, Restart, files
<1> QED
  BY <1>1 DEF UploadMove, Next

\* So is no step at all.
LEMMA IdlesMove == UNCHANGED driveVars => UploadMove
BY DEF driveVars, vars, quarantineVars, UploadMove

\* A step of a quarantine request moves at most the file of its own node.
LEMMA QuarantineStepMoves ==
  ASSUME DriveTypeOK, RequestsAlone, QuarantineStep
  PROVE  \E r \in QuarantineRequests : RequestActs(r) /\ RequestMove(r)
<1>1. UNCHANGED <<clock, repo, staging, data, h, pub, acked, inspected>>
  BY DEF QuarantineStep, hist
<1>2. PICK r \in QuarantineRequests : RequestActs(r)
  BY DEF QuarantineStep, RequestActs
<1>3. qh[r].pc # "idle" => qh[r].n \in Nodes
  BY DEF RequestsAlone, RequestAlone
<1>4. ASSUME Q!LinkPayload(r) PROVE RequestMove(r)
  BY <1>1, <1>3, <1>4 DEF Q!LinkPayload, Q!At, Q!There, RequestMove, Quarantines
<1>5. ASSUME Q!RemoveObject(r) PROVE RequestMove(r)
  BY <1>1, <1>3, <1>5 DEF Q!RemoveObject, Q!At, Q!There, RequestMove, Removes
<1>6. ASSUME Q!TrashLink(r) PROVE RequestMove(r)
  BY <1>1, <1>3, <1>6 DEF Q!TrashLink, Q!At, Q!There, RequestMove, Trashes
<1>7. ASSUME Q!TrashRemove(r) PROVE RequestMove(r)
  BY <1>1, <1>3, <1>7 DEF Q!TrashRemove, Q!At, Q!There, RequestMove, Removes
<1>8. ASSUME UNCHANGED <<objects, quar, trash>> PROVE RequestMove(r)
  BY <1>1, <1>8 DEF RequestMove
<1>9. \/ Q!LinkPayload(r) \/ Q!RemoveObject(r) \/ Q!TrashLink(r) \/ Q!TrashRemove(r)
      \/ UNCHANGED <<objects, quar, trash>>
  BY <1>2 DEF RequestActs, Q!Read, Q!MoveToTrash, Q!Apply, Q!Start, Q!ApplyStep, Q!ReadStep,
     Q!TrashStep, Q!Fail, Q!ReadState, Q!CheckQuarantine, Q!CheckObject, Q!CreateExclusive,
     Q!WritePending, Q!SyncPending, Q!Reread, Q!StatObject, Q!StatQuarantine, Q!FinishState,
     Q!ReadBack, Q!ReadAbsent, Q!ReadPayload, Q!ReadObject, Q!dirs
<1> QED
  BY <1>2, <1>4, <1>5, <1>6, <1>7, <1>8, <1>9

\* The server steps by an upload's step, or by a step of a quarantine request.
LEMMA DriveFrame ==
  ASSUME DriveTypeOK, RequestsAlone, [DriveNext]_driveVars
  PROVE  UploadMove \/ \E r \in QuarantineRequests : RequestActs(r) /\ RequestMove(r)
BY UploadStepMoves, RestartServerMoves, IdlesMove, QuarantineStepMoves DEF DriveNext
-----------------------------------------------------------------------------
(* Names. *)

\* The names outside of staging, spelled out,
LEMMA NamedIs ==
  ASSUME NEW x
  PROVE  x \in Named <=> \E n \in Nodes : objects[n] = x \/ quar[n] = x \/ trash[n] = x
BY DEF Named, Kept

\* and after a step.
LEMMA NamedIsNext ==
  ASSUME NEW x
  PROVE  x \in Named' <=> \E n \in Nodes : objects'[n] = x \/ quar'[n] = x \/ trash'[n] = x
BY DEF Named, Kept

\* A request only moves files around: nothing gets its first name.
LEMMA RequestNames ==
  ASSUME DriveTypeOK, NEW r \in QuarantineRequests, RequestMove(r), NEW x \in Named', x # None
  PROVE  x \in Named
<1>t. /\ objects \in [Nodes -> Inodes \cup {None}] /\ quar \in [Nodes -> Inodes \cup {None}]
      /\ trash \in [Nodes -> Inodes \cup {None}]
  BY DEF DriveTypeOK, TypeOK
<1> QED
  BY <1>t, NamedIs, NamedIsNext DEF RequestMove, Removes, Quarantines, Trashes

\* An upload that is about to be linked has no name but its staging name.
LEMMA LinkFresh ==
  ASSUME Sound, SerialSessions, StagedTwice, NEW r \in Requests, Link(r), staging[h[r].u] # None
  PROVE  h[r].u \in UploadIDs /\ h[r].sess.node \in Nodes /\ staging[h[r].u] \notin Named
<1>1. h[r].pc = "link"
  BY DEF Link
<1>2. h[r].u \in UploadIDs /\ h[r].sess.node \in Nodes
  BY <1>1, InFlightHandler
<1>3. repo[h[r].u].state = "active"
  BY <1>1 DEF SerialSessions, HandlerAlone
<1>4. \A q \in Requests : h[q].u = h[r].u => q = r
  BY <1>1, SameUpload
<1> QED
  BY <1>1, <1>2, <1>3, <1>4 DEF StagedTwice

\* The link of a finalization gives a staged file its object name, and nothing
\* else does.
Releases(r, x) == /\ Link(r) /\ h[r].u \in UploadIDs /\ h[r].sess.node \in Nodes
                  /\ x = staging[h[r].u] /\ x # None /\ x \notin Named
                  /\ objects' = [objects EXCEPT ![h[r].sess.node] = x]
                  /\ pub'[h[r].sess.node].digest = h[r].digest
                  /\ UNCHANGED <<staging, data>>

\* Uploads change the objects by a release only.
LEMMA ReleasedNext ==
  ASSUME Sound, SerialSessions, StagedTwice, UploadMove
  PROVE  UNCHANGED objects \/ \E r \in Requests : Releases(r, staging[h[r].u])
<1>1. [Next]_vars
  BY DEF UploadMove
<1>2. ASSUME NEW r \in Requests, Link(r), staging[h[r].u] # None, ~UNCHANGED objects
      PROVE  Releases(r, staging[h[r].u])
  <2>1. h[r].u \in UploadIDs /\ h[r].sess.node \in Nodes /\ staging[h[r].u] \notin Named
    BY <1>2, LinkFresh
  <2>2. pub \in [Nodes -> Publication \cup {None}]
    BY DEF Sound, TypeOK
  <2>3. /\ objects' = [objects EXCEPT ![h[r].sess.node] = staging[h[r].u]]
        /\ pub' = [pub EXCEPT ![h[r].sess.node] =
             [by |-> h[r].u, digest |-> h[r].digest, after |-> h[r].buf, env |-> h[r].env,
              evalAt |-> h[r].evalAt, checkedAt |-> h[r].checkedAt]]
        /\ UNCHANGED <<staging, data>>
    BY <1>2 DEF Link
  <2>4. pub'[h[r].sess.node].digest = h[r].digest
    BY <2>1, <2>2, <2>3
  <2> QED
    BY <1>2, <2>1, <2>3, <2>4 DEF Releases
<1>3. ASSUME NEW r \in Requests, Link(r), ~UNCHANGED objects PROVE staging[h[r].u] # None
  BY <1>3 DEF Link
<1> QED
  BY <1>1, <1>2, <1>3, ObjectsFrame

\* What is new outside of staging was released.
LEMMA NamedNext ==
  ASSUME Sound, SerialSessions, StagedTwice, UploadMove, NEW x \in Named', x \notin Named
  PROVE  \E r \in Requests : Releases(r, x)
<1>1. quar' = quar /\ trash' = trash /\ objects \in [Nodes -> Inodes \cup {None}]
  BY DEF UploadMove, Sound, TypeOK
<1>2. ~UNCHANGED objects
  BY <1>1, NamedIs, NamedIsNext
<1>3. PICK r \in Requests : Releases(r, staging[h[r].u])
  BY <1>2, ReleasedNext
<1>4. x = staging[h[r].u]
  BY <1>1, <1>3, NamedIs, NamedIsNext DEF Releases
<1> QED
  BY <1>3, <1>4

\* A file that is staged for the first time has no other name.
LEMMA FreeIsUnnamed ==
  ASSUME UploadMove, NEW u \in UploadIDs, staging[u] = None, staging'[u] \in Free
  PROVE  staging'[u] \in Inodes /\ staging'[u] # None /\ staging'[u] \notin Named
<1>1. staging'[u] \in Inodes /\ staging'[u] # None
  BY ValuesAssumption DEF Free
<1>2. staging'[u] \notin Kept
  BY <1>1 DEF UploadMove
<1> QED
  BY <1>1, <1>2 DEF Named, Free

\* No file gets two staging names, and none that is an object or in quarantine
\* gets a second node.
LEMMA NamesApartStep ==
  ASSUME DriveTypeOK, Sound, SerialSessions, NamesApart, StagedTwice, UploadMove
  PROVE  NamesApart'
<1>t. /\ staging \in [UploadIDs -> Inodes \cup {None}]
      /\ objects \in [Nodes -> Inodes \cup {None}] /\ quar' = quar
  BY DEF Sound, TypeOK, UploadMove
<1>p. /\ \A u, v \in UploadIDs : staging[u] # None /\ staging[u] = staging[v] => u = v
      /\ \A n, m \in Nodes : objects[n] # None /\ objects[n] = objects[m] => n = m
      /\ \A n, m \in Nodes : quar[n] # None /\ quar[n] = objects[m] => n = m
  BY DEF NamesApart
<1>1. ASSUME NEW u \in UploadIDs, NEW v \in UploadIDs, staging'[u] # None, staging'[u] = staging'[v]
      PROVE  u = v
  <2>1. CASE \A w \in UploadIDs : staging'[w] \in {None, staging[w]}
    BY <1>1, <1>p, <2>1
  <2>2. ASSUME NEW r \in Requests, OpenAppend(r) PROVE u = v
    <3>1. UNCHANGED staging \/ \E i \in Free : staging' = [staging EXCEPT ![h[r].u] = i]
      BY <2>2 DEF OpenAppend
    <3> QED
      BY <1>1, <1>t, <1>p, <3>1 DEF Free
  <2>3. ASSUME NEW w \in UploadIDs, Expire(w) PROVE u = v
    BY <1>t, <2>1, <2>3 DEF Expire
  <2>4. ASSUME NEW r \in Requests, Recheck(r) \/ Unlink(r) PROVE u = v
    BY <1>t, <2>1, <2>4 DEF Recheck, Unlink
  <2> QED
    BY <2>1, <2>2, <2>3, <2>4, StagingFrame DEF UploadMove
<1>2. CASE UNCHANGED objects
  BY <1>1, <1>2, <1>p, <1>t DEF NamesApart
<1>3. ASSUME NEW r \in Requests, Releases(r, staging[h[r].u]) PROVE NamesApart'
  <2>1. PICK x \in Inodes, k \in Nodes :
          /\ x # None /\ objects' = [objects EXCEPT ![k] = x]
          /\ \A n \in Nodes : objects[n] # x /\ quar[n] # x
    BY <1>3, <1>t, NamedIs DEF Releases
  <2>2. \A n \in Nodes : objects'[n] = IF n = k THEN x ELSE objects[n]
    BY <1>t, <2>1
  <2>3. \A n, m \in Nodes : objects'[n] # None /\ objects'[n] = objects'[m] => n = m
    BY <1>p, <2>1, <2>2
  <2>4. \A n, m \in Nodes : quar'[n] # None /\ quar'[n] = objects'[m] => n = m
    BY <1>p, <1>t, <2>1, <2>2
  <2> QED
    BY <1>1, <2>3, <2>4 DEF NamesApart
<1> QED
  BY <1>2, <1>3, ReleasedNext

\* A request that moves a file leaves it under its own node.
LEMMA NamesApartMove ==
  ASSUME DriveTypeOK, NamesApart, NEW r \in QuarantineRequests, RequestMove(r)
  PROVE  NamesApart'
<1>t. /\ objects \in [Nodes -> Inodes \cup {None}] /\ quar \in [Nodes -> Inodes \cup {None}]
      /\ staging' = staging
  BY DEF DriveTypeOK, TypeOK, RequestMove
<1>1. CASE UNCHANGED <<objects, quar>>
  BY <1>1, <1>t DEF NamesApart
<1>2. ASSUME NEW n \in Nodes, Removes(n) PROVE NamesApart'
  BY <1>2, <1>t DEF NamesApart, Removes
<1>3. ASSUME NEW n \in Nodes, Quarantines(n) PROVE NamesApart'
  BY <1>3, <1>t DEF NamesApart, Quarantines
<1> QED
  BY <1>1, <1>2, <1>3 DEF RequestMove, Trashes

\* A released file keeps its staging name until the unlink, or for ever if the
\* server went down in between: then its session is lost.
LEMMA StagedTwiceStep ==
  ASSUME ~Durable, "unlink" \notin Faults, Sound, SerialSessions, NamesApart, StagedTwice, UploadMove
  PROVE  StagedTwice'
<1>n. [Next]_vars
  BY DEF UploadMove
<1> SUFFICES ASSUME NEW u \in UploadIDs, staging'[u] # None, staging'[u] \in Named',
                    repo'[u].state # "lost"
             PROVE  \E r \in Requests : h'[r].pc = "unlink" /\ h'[r].u = u
  BY DEF StagedTwice
<1>1. ASSUME NEW r \in Requests, Releases(r, staging'[u])
      PROVE  h'[r].pc = "unlink" /\ h'[r].u = u
  <2>1. h[r].u = u
    BY <1>1 DEF Releases, NamesApart
  <2>2. objects[h[r].sess.node] # staging'[u] /\ objects \in [Nodes -> Inodes \cup {None}]
    BY <1>1, NamedIs DEF Releases, Sound, TypeOK
  <2>3. Become(r, [h[r] EXCEPT !.pc = "unlink"]) /\ h \in [Requests -> Handler]
    BY <1>1, <2>2 DEF Releases, Link, Sound, TypeOK
  <2> QED
    BY <2>1, <2>3 DEF Become, Handler
<1>2. CASE staging'[u] \in Named
  <2>1. staging'[u] = staging[u]
    BY <1>n, <1>2, StagingNext, FreeIsUnnamed
  <2>2. repo[u].state # "lost"
    BY <1>n, LostStays
  <2>3. PICK r \in Requests : h[r].pc = "unlink" /\ h[r].u = u
    BY <1>2, <2>1, <2>2 DEF StagedTwice
  <2>4. CASE h'[r] = h[r]
    BY <2>3, <2>4
  <2>5. CASE Restart
    <3>1. repo \in [UploadIDs -> Session] /\ repo[u].state = "active"
      BY <2>3 DEF Sound, TypeOK, SerialSessions, HandlerAlone
    <3> QED
      BY <2>5, <3>1 DEF Restart, Session
  <2>6. ASSUME Acts(r) PROVE FALSE
    <3>1. Unlink(r)
      BY <2>3, <2>6, AtUnlink
    <3> QED
      BY <2>3, <3>1 DEF Unlink, Sound, TypeOK
  <2>7. ASSUME NEW q \in Requests, Acts(q), q # r PROVE h'[r] = h[r]
    BY <2>7, OthersUntouched DEF Sound
  <2> QED
    BY <1>n, <2>4, <2>5, <2>6, <2>7, HandlersFrame
<1> QED
  BY <1>1, <1>2, NamedNext

\* A request gives no staged file another name.
LEMMA StagedTwiceMove ==
  ASSUME DriveTypeOK, StagedTwice, NEW r \in QuarantineRequests, RequestMove(r)
  PROVE  StagedTwice'
<1>1. UNCHANGED <<repo, staging, h>>
  BY DEF RequestMove
<1> QED
  BY <1>1, RequestNames DEF StagedTwice
-----------------------------------------------------------------------------
(* Descriptors and digests. *)

\* A handler has a file open only while it writes or reads it.
LEMMA FdOpen ==
  ASSUME Sound, NEW r \in Requests, Acts(r),
         h[r].pc \notin {"write"} \cup ReadPCs => h[r].fd = None
  PROVE  h'[r].pc \notin {"write"} \cup ReadPCs => h'[r].fd = None
<1>t. h \in [Requests -> Handler] /\ h[r] \in Handler
  BY DEF Sound, TypeOK
<1> DEFINE Goal == h'[r].pc \notin {"write"} \cup ReadPCs => h'[r].fd = None
<1>f. Finish(r) => Goal
  BY FinishFields
<1>0. ASSUME NEW u \in UploadIDs,
             StartComplete(r, u) \/ \E body \in Bodies : StartAppend(r, u, body)
      PROVE  Goal
  BY <1>0, StartEffect
<1>1. ASSUME OpenAppend(r) PROVE Goal
  <2>1. Finish(r) \/ \E i : Become(r, [h[r] EXCEPT !.pc = "write", !.fd = i, !.pos = h[r].sess.offset])
    BY <1>1 DEF OpenAppend
  <2> QED
    BY <1>t, <1>f, <2>1 DEF Become, Handler
<1>2. ASSUME WriteBlock(r) PROVE Goal
  BY <1>2, <1>t DEF WriteBlock, Become, Handler
<1>3. ASSUME EndWrite(r) PROVE Goal
  BY <1>3, <1>t, <1>f DEF EndWrite, Become, Handler
<1>4. ASSUME UpdateOffset(r) \/ UpdateCompleted(r) \/ Fail(r) PROVE Goal
  BY <1>4, <1>f DEF UpdateOffset, UpdateCompleted, Fail
<1>5. ASSUME OpenStaging(r) PROVE Goal
  <2>1. Finish(r) \/ \E pc \in ReadPCs :
           Become(r, [h[r] EXCEPT !.fd = staging[h[r].u], !.buf = << >>, !.pc = pc])
    BY <1>5 DEF OpenStaging, OpenPCs, ReadPCs
  <2>2. ASSUME NEW pc \in ReadPCs,
               Become(r, [h[r] EXCEPT !.fd = staging[h[r].u], !.buf = << >>, !.pc = pc])
        PROVE  h'[r].pc \in ReadPCs
    BY <1>t, <2>2 DEF Become, Handler
  <2> QED
    BY <1>f, <2>1, <2>2
<1>6. ASSUME ReadBlock(r) PROVE Goal
  BY <1>6, <1>t DEF ReadBlock, Become, Handler
<1>7. ASSUME EndHash(r) PROVE Goal
  BY <1>7, <1>t DEF EndHash, Become, Handler
<1>8. ASSUME Scan(r) PROVE Goal
  <2>1. ASSUME NEW env, Become(r, [h[r] EXCEPT !.pc = "evaluate", !.fd = None, !.buf = << >>,
                                              !.env = env])
        PROVE  Goal
    BY <1>t, <2>1 DEF Become, Handler
  <2> QED
    BY <1>8, <1>f, <2>1 DEF Scan
<1>9. ASSUME EvaluateVerdict(r) PROVE Goal
  <2>1. ASSUME Become(r, [h[r] EXCEPT !.pc = "openrehash", !.evalAt = clock]) PROVE h'[r].fd = h[r].fd
    BY <1>t, <2>1 DEF Become, Handler
  <2>2. h[r].fd = None
    BY <1>9 DEF EvaluateVerdict, ReadPCs
  <2> QED
    BY <1>9, <1>f, <2>1, <2>2 DEF EvaluateVerdict
<1>10. ASSUME EndRehash(r) PROVE Goal
  BY <1>10, <1>t, <1>f DEF EndRehash, Become, Handler
<1>11. ASSUME Recheck(r) PROVE Goal
  <2>1. ASSUME Become(r, [h[r] EXCEPT !.pc = "link", !.checkedAt = clock]) PROVE h'[r].fd = h[r].fd
    BY <1>t, <2>1 DEF Become, Handler
  <2>2. h[r].fd = None
    BY <1>11 DEF Recheck, ReadPCs
  <2> QED
    BY <1>11, <1>f, <2>1, <2>2 DEF Recheck
<1>12. ASSUME Link(r) PROVE Goal
  BY <1>12, <1>t, <1>f DEF Link, Become, Handler, ReadPCs
<1>13. ASSUME Unlink(r) PROVE Goal
  BY <1>13, <1>t, <1>f DEF Unlink, Become, Handler, ReadPCs
<1> QED
  BY <1>0, <1>1, <1>2, <1>3, <1>4, <1>5, <1>6, <1>7, <1>8, <1>9, <1>10, <1>11, <1>12, <1>13
  DEF Acts, AppendStep, GateStep, FinalizeStep

\* A handler that has a file open after its step works on the upload it had.
LEMMA OpenGoesOn ==
  ASSUME Sound, NEW r \in Requests, Acts(r), h'[r].fd # None
  PROVE  h'[r].u = h[r].u
<1>1. ASSUME NEW u \in UploadIDs,
             StartComplete(r, u) \/ \E body \in Bodies : StartAppend(r, u, body)
      PROVE  FALSE
  BY <1>1, StartEffect
<1>2. AppendStep(r) \/ GateStep(r) \/ FinalizeStep(r) \/ Fail(r)
  BY <1>1 DEF Acts
<1> QED
  BY <1>2, GoesOn, IdleFields

\* A file that stays open stays out of everybody else's reach.
LEMMA KeptOpen ==
  ASSUME Sound, SerialSessions, StagedTwice, UploadsApart, UploadMove,
         NEW q \in Requests, h[q].fd # None, h'[q].fd = h[q].fd, h'[q].u = h[q].u
  PROVE  /\ staging'[h'[q].u] \in {None, h'[q].fd}
         /\ \A p \in Requests : h'[p].fd = h'[q].fd => p = q
         /\ \A u \in UploadIDs : staging'[u] = h'[q].fd => u = h'[q].u
         /\ h'[q].fd \notin Named'
<1>n. [Next]_vars
  BY DEF UploadMove
<1>d. DescriptorApart(q) /\ h[q].pc \in {"write"} \cup ReadPCs
  BY DEF UploadsApart, DescriptorApart
<1>0. h[q].pc \notin {"idle", "open", "link", "unlink"}
  BY <1>d DEF ReadPCs
<1>1. PICK u \in UploadIDs : u = h[q].u
  BY <1>0, InFlightHandler
<1>2. PICK x \in Inodes : x = h[q].fd
  BY DEF Sound, TypeOK, Handler
<1>3. /\ staging[u] \in {None, x} /\ x # None /\ x \notin Free
      /\ \A p \in Requests : h[p].fd = x => p = q
      /\ \A v \in UploadIDs : staging[v] = x => v = u
      /\ x \notin Named
  BY <1>1, <1>2, <1>d DEF DescriptorApart, Free
<1>s. \A r \in Requests : h[r].u = u => r = q
  BY <1>0, <1>1, SameUpload
<1>4. staging'[u] \in {None, x}
  <2>1. ASSUME NEW r \in Requests, h[r].u = u, OpenAppend(r) PROVE FALSE
    BY <1>0, <1>s, <2>1 DEF OpenAppend
  <2> QED
    BY <1>n, <1>3, <2>1, StagingNext
<1>5. \A v \in UploadIDs : staging'[v] = x => v = u
  BY <1>n, <1>3, NamesInUse
<1>6. ASSUME NEW p \in Requests, h'[p].fd = x PROVE p = q
  <2>1. CASE h' = h
    BY <1>3, <1>6, <2>1
  <2>2. CASE Restart
    BY <1>3, <1>6, <2>2, IdleFields DEF Restart
  <2>3. ASSUME NEW r \in Requests, Acts(r) PROVE p = q
    <3>1. CASE p # r
      BY <1>3, <1>6, <2>3, <3>1, OthersUntouched DEF Sound
    <3>2. CASE p = r /\ h[p].fd = x
      BY <1>3, <3>2
    <3>3. CASE p = r /\ h[p].pc # "idle" /\ staging'[h[p].u] = x
      <4>1. PICK v \in UploadIDs : v = h[p].u
        BY <3>3, InFlightHandler
      <4> QED
        BY <1>5, <1>s, <3>3, <4>1
    <3> QED
      BY <1>3, <1>6, <2>3, <3>1, <3>2, <3>3, FdNext
  <2> QED
    BY <1>n, <2>1, <2>2, <2>3, HandlersFrame
<1>7. ASSUME x \in Named' PROVE FALSE
  <2>1. PICK r \in Requests : Link(r) /\ h[r].u \in UploadIDs /\ staging[h[r].u] = x
    BY <1>3, <1>7, NamedNext DEF Releases
  <2>2. r = q
    BY <1>3, <1>s, <2>1
  <2> QED
    BY <1>0, <2>1, <2>2 DEF Link
<1> QED
  BY <1>1, <1>2, <1>4, <1>5, <1>6, <1>7

\* A file that is opened is out of everybody else's reach.
LEMMA NewlyOpen ==
  ASSUME Sound, Sound', SerialSessions, SerialSessions', NamesApart', StagedTwice', UploadsApart,
         UploadMove,
         NEW q \in Requests, Acts(q), h[q].pc # "idle", h'[q].u = h[q].u,
         h'[q].pc \in {"write"} \cup ReadPCs, h'[q].fd # None, h'[q].fd = staging'[h[q].u]
  PROVE  /\ staging'[h'[q].u] \in {None, h'[q].fd}
         /\ \A p \in Requests : h'[p].fd = h'[q].fd => p = q
         /\ \A u \in UploadIDs : staging'[u] = h'[q].fd => u = h'[q].u
         /\ h'[q].fd \notin Named'
<1>n. [Next]_vars
  BY DEF UploadMove
<1>0. h'[q].pc \notin {"idle", "unlink"}
  BY DEF ReadPCs
<1>1. PICK u \in UploadIDs : u = h[q].u
  BY InFlightHandler
<1>2. ASSUME NEW p \in Requests, h'[p].fd = h'[q].fd, p # q PROVE FALSE
  <2>1. h[p].fd = staging'[u] /\ staging'[u] # None
    BY <1>1, <1>2, OthersUntouched DEF Sound
  <2>2. staging'[u] \notin Free
    BY <2>1 DEF Free
  <2>3. staging[u] = h[p].fd
    BY <1>n, <2>1, <2>2, StagingNext
  <2>4. h[p].u = h[q].u
    BY <1>1, <2>1, <2>3 DEF UploadsApart, DescriptorApart
  <2> QED
    BY <1>2, <2>4, SameUpload
<1>3. \A v \in UploadIDs : staging'[v] = staging'[u] => v = u
  BY <1>1 DEF NamesApart
<1>4. ASSUME staging'[u] \in Named' PROVE FALSE
  <2>1. /\ repo'[h'[q].u].state = "active"
        /\ \A p \in Requests : h'[p].u = h'[q].u => p = q
    BY <1>0 DEF SerialSessions, HandlerAlone
  <2>2. \/ repo'[u].state = "lost"
        \/ \E p \in Requests : h'[p].pc = "unlink" /\ h'[p].u = u
    BY <1>1, <1>4 DEF StagedTwice
  <2> QED
    BY <1>0, <1>1, <2>1, <2>2
<1> QED
  BY <1>1, <1>2, <1>3, <1>4

\* Open files stay out of everybody else's reach.
LEMMA DescriptorApartStep ==
  ASSUME Sound, Sound', SerialSessions, SerialSessions', NamesApart', StagedTwice, StagedTwice',
         UploadsApart, UploadMove, NEW q \in Requests
  PROVE  DescriptorApart(q)'
<1>n. [Next]_vars
  BY DEF UploadMove
<1>d. h[q].pc \notin {"write"} \cup ReadPCs => h[q].fd = None
  BY DEF UploadsApart, DescriptorApart
<1>1. CASE h'[q] = h[q]
  BY <1>d, <1>1, KeptOpen DEF DescriptorApart
<1>2. CASE Restart
  BY <1>2, IdleFields DEF Restart, DescriptorApart
<1>3. CASE Acts(q)
  <2>1. h'[q].pc \notin {"write"} \cup ReadPCs => h'[q].fd = None
    BY <1>d, <1>3, FdOpen
  <2>2. CASE h'[q].fd = None
    BY <2>2 DEF DescriptorApart
  <2>3. CASE h'[q].fd # None /\ h'[q].fd = h[q].fd
    BY <1>3, <2>1, <2>3, OpenGoesOn, KeptOpen DEF DescriptorApart
  <2>4. CASE h'[q].fd # None /\ h[q].pc # "idle" /\ h'[q].fd = staging'[h[q].u]
    BY <1>3, <2>1, <2>4, OpenGoesOn, NewlyOpen DEF DescriptorApart
  <2> QED
    BY <1>3, <2>2, <2>3, <2>4, FdNext
<1>4. ASSUME NEW r \in Requests, Acts(r), r # q PROVE h'[q] = h[q]
  BY <1>4, OthersUntouched DEF Sound
<1> QED
  BY <1>n, <1>1, <1>2, <1>3, <1>4, HandlersFrame

\* While a completion runs, nobody but it takes its file away, and nobody
\* writes to it.
LEMMA OwnKept ==
  ASSUME Sound, SerialSessions, UploadsApart, UploadMove,
         NEW q \in Requests, h[q].pc \notin {"idle", "open", "write"}
  PROVE  /\ staging'[h[q].u] \in {None, staging[h[q].u]}
         /\ staging[h[q].u] # None => data'[staging[h[q].u]] = data[staging[h[q].u]]
         /\ h[q].fd # None => data'[h[q].fd] = data[h[q].fd]
<1>n. [Next]_vars
  BY DEF UploadMove
<1>1. PICK u \in UploadIDs : u = h[q].u
  BY InFlightHandler
<1>s. \A r \in Requests : h[r].u = u => r = q
  BY <1>1, SameUpload
<1>w. ASSUME NEW r \in Requests, WriteBlock(r) \/ EndWrite(r) PROVE r # q
  BY <1>w, WriterMoves
<1>2. staging'[u] \in {None, staging[u]}
  <2>1. ASSUME NEW r \in Requests, h[r].u = u, OpenAppend(r) PROVE FALSE
    BY <1>s, <2>1 DEF OpenAppend
  <2> QED
    BY <1>n, <2>1, StagingNext
<1>3. ASSUME staging[u] # None PROVE data'[staging[u]] = data[staging[u]]
  <2>1. staging[u] \in Inodes /\ staging[u] \notin Free
    BY <1>3 DEF Sound, TypeOK, Free
  <2>2. ASSUME NEW r \in Requests, WriteBlock(r) \/ EndWrite(r), h[r].fd = staging[u] PROVE FALSE
    <3>1. h[r].u = u
      BY <1>3, <2>2 DEF UploadsApart, DescriptorApart
    <3> QED
      BY <1>s, <1>w, <2>2, <3>1
  <2> QED
    BY <1>n, <2>1, <2>2, DataKept
<1>4. ASSUME h[q].fd # None PROVE data'[h[q].fd] = data[h[q].fd]
  <2>1. h[q].fd \in Inodes /\ h[q].fd \notin Free
    BY <1>4 DEF Sound, TypeOK, Handler, Free
  <2>2. ASSUME NEW r \in Requests, WriteBlock(r) \/ EndWrite(r), h[r].fd = h[q].fd PROVE FALSE
    BY <1>4, <1>w, <2>2 DEF UploadsApart, DescriptorApart
  <2> QED
    BY <1>n, <2>1, <2>2, DataKept
<1> QED
  BY <1>1, <1>2, <1>3, <1>4

\* How a completion comes to its digest, and that it keeps it.
Hashes(r) == \/ /\ OpenStaging(r) /\ h'[r].pc = "hash" /\ h'[r].buf = << >>
                /\ h'[r].u = h[r].u /\ h'[r].fd \in Inodes
             \/ /\ ReadBlock(r) /\ h[r].pc = "hash" /\ h'[r].pc = "hash" /\ h'[r].fd = h[r].fd
                /\ h'[r].buf = Append(h[r].buf, data[h[r].fd][Len(h[r].buf) + 1])
             \/ /\ EndHash(r) /\ h'[r].pc = "openscan" /\ h'[r].u = h[r].u /\ h'[r].digest = h[r].buf
             \/ /\ h[r].pc \in HashedPCs /\ h'[r].pc # "hash"
                /\ h'[r].u = h[r].u /\ h'[r].digest = h[r].digest

\* There is no other way to a digest.
LEMMA DigestNext ==
  ASSUME Sound, NEW r \in Requests, Acts(r), h'[r].pc \in HashedPCs \cup {"hash"}
  PROVE  Hashes(r)
<1>t. h \in [Requests -> Handler] /\ h[r] \in Handler /\ staging \in [UploadIDs -> Inodes \cup {None}]
  BY DEF Sound, TypeOK
<1>p. h'[r].pc \notin {"idle", "open", "openhash", "write", "update", "unlink", "complete"}
  BY DEF HashedPCs
<1>f. ~Finish(r)
  BY <1>p, FinishFields
<1>0. ASSUME NEW u \in UploadIDs,
             StartComplete(r, u) \/ \E body \in Bodies : StartAppend(r, u, body)
      PROVE  FALSE
  BY <1>0, <1>p, StartEffect
<1>1. ASSUME OpenAppend(r) PROVE FALSE
  <2>1. ASSUME NEW i, Become(r, [h[r] EXCEPT !.pc = "write", !.fd = i, !.pos = h[r].sess.offset])
        PROVE  FALSE
    BY <1>t, <1>p, <2>1 DEF Become, Handler
  <2> QED
    BY <1>1, <1>f, <2>1 DEF OpenAppend
<1>2. ASSUME WriteBlock(r) PROVE FALSE
  <2>1. h'[r].pc = "write"
    BY <1>2, <1>t DEF WriteBlock, Become, Handler
  <2> QED
    BY <1>p, <2>1
<1>3. ASSUME EndWrite(r) PROVE FALSE
  <2>1. h'[r].pc = "update"
    BY <1>3, <1>t, <1>f DEF EndWrite, Become, Handler
  <2> QED
    BY <1>p, <2>1
<1>4. ASSUME UpdateOffset(r) \/ UpdateCompleted(r) \/ Fail(r) PROVE FALSE
  BY <1>4, <1>f DEF UpdateOffset, UpdateCompleted, Fail
<1>5. ASSUME OpenStaging(r) PROVE Hashes(r)
  <2>1. h[r].pc \in OpenPCs /\ staging[h[r].u] # None
    BY <1>5, <1>f DEF OpenStaging
  <2>2. h[r].u \in UploadIDs
    BY <2>1, InFlightHandler DEF OpenPCs
  <2>3. ASSUME NEW pc, Become(r, [h[r] EXCEPT !.fd = staging[h[r].u], !.buf = << >>, !.pc = pc])
        PROVE  /\ h'[r].pc = pc /\ h'[r].fd = staging[h[r].u] /\ h'[r].buf = << >>
               /\ h'[r].u = h[r].u /\ h'[r].digest = h[r].digest
    BY <1>t, <2>3 DEF Become, Handler
  <2>4. PICK pc : /\ Become(r, [h[r] EXCEPT !.fd = staging[h[r].u], !.buf = << >>, !.pc = pc])
                  /\ pc = CASE h[r].pc = "openhash"   -> "hash"
                            [] h[r].pc = "openscan"   -> "scan"
                            [] h[r].pc = "openrehash" -> "rehash"
    BY <1>5, <2>1 DEF OpenStaging
  <2>6. \/ h[r].pc = "openhash" /\ pc = "hash"
        \/ h[r].pc \in {"openscan", "openrehash"} /\ pc # "hash"
    BY <2>1, <2>4 DEF OpenPCs
  <2>5. staging[h[r].u] \in Inodes
    BY <1>t, <2>1, <2>2
  <2> QED
    BY <1>5, <2>3, <2>4, <2>5, <2>6 DEF Hashes, HashedPCs
<1>6. ASSUME ReadBlock(r) PROVE Hashes(r)
  <2>1. /\ h[r].pc \in ReadPCs
        /\ h'[r].pc = h[r].pc /\ h'[r].fd = h[r].fd /\ h'[r].u = h[r].u
        /\ h'[r].digest = h[r].digest
        /\ h'[r].buf = Append(h[r].buf, data[h[r].fd][Len(h[r].buf) + 1])
    BY <1>6, <1>t DEF ReadBlock, Become, Handler
  <2> QED
    BY <1>6, <2>1 DEF Hashes, ReadPCs, HashedPCs
<1>7. ASSUME EndHash(r) PROVE Hashes(r)
  <2>1. h'[r].pc = "openscan" /\ h'[r].u = h[r].u /\ h'[r].digest = h[r].buf
    BY <1>7, <1>t DEF EndHash, Become, Handler
  <2> QED
    BY <1>7, <2>1 DEF Hashes
<1>8. ASSUME Scan(r) PROVE Hashes(r)
  <2>1. ASSUME NEW env, Become(r, [h[r] EXCEPT !.pc = "evaluate", !.fd = None, !.buf = << >>,
                                              !.env = env])
        PROVE  h'[r].pc = "evaluate" /\ h'[r].u = h[r].u /\ h'[r].digest = h[r].digest
    BY <1>t, <2>1 DEF Become, Handler
  <2> QED
    BY <1>8, <1>f, <2>1 DEF Scan, Hashes, HashedPCs
<1>9. ASSUME EvaluateVerdict(r) PROVE Hashes(r)
  <2>1. ASSUME Become(r, [h[r] EXCEPT !.pc = "openrehash", !.evalAt = clock])
        PROVE  h'[r].pc = "openrehash" /\ h'[r].u = h[r].u /\ h'[r].digest = h[r].digest
    BY <1>t, <2>1 DEF Become, Handler
  <2> QED
    BY <1>9, <1>f, <2>1 DEF EvaluateVerdict, Hashes, HashedPCs
<1>10. ASSUME EndRehash(r) PROVE Hashes(r)
  <2>1. ASSUME Become(r, [h[r] EXCEPT !.pc = "recheck", !.fd = None])
        PROVE  h'[r].pc = "recheck" /\ h'[r].u = h[r].u /\ h'[r].digest = h[r].digest
    BY <1>t, <2>1 DEF Become, Handler
  <2> QED
    BY <1>10, <1>f, <2>1 DEF EndRehash, Hashes, HashedPCs
<1>11. ASSUME Recheck(r) PROVE Hashes(r)
  <2>1. ASSUME Become(r, [h[r] EXCEPT !.pc = "link", !.checkedAt = clock])
        PROVE  h'[r].pc = "link" /\ h'[r].u = h[r].u /\ h'[r].digest = h[r].digest
    BY <1>t, <2>1 DEF Become, Handler
  <2> QED
    BY <1>11, <1>f, <2>1 DEF Recheck, Hashes, HashedPCs
<1>12. ASSUME Link(r) PROVE FALSE
  <2>1. h'[r].pc = "unlink"
    BY <1>12, <1>t, <1>f DEF Link, Become, Handler
  <2> QED
    BY <1>p, <2>1
<1>13. ASSUME Unlink(r) PROVE FALSE
  <2>1. h'[r].pc = "complete"
    BY <1>13, <1>t, <1>f DEF Unlink, Become, Handler
  <2> QED
    BY <1>p, <2>1
<1> QED
  BY <1>0, <1>1, <1>2, <1>3, <1>4, <1>5, <1>6, <1>7, <1>8, <1>9, <1>10, <1>11, <1>12, <1>13
  DEF Acts, AppendStep, GateStep, FinalizeStep

\* One more block read is one more block of the file.
LEMMA ReadContinues ==
  ASSUME NEW s \in Content, NEW c \in Content, Begins(s, c), Len(s) < Len(c)
  PROVE  Begins(Append(s, c[Len(s) + 1]), c)
<1>1. Len(s) \in Nat /\ Len(c) \in Nat /\ Len(s) + 1 \in 1..Len(c) /\ c[Len(s) + 1] \in Byte
  BY DEF Content
<1>2. PICK t : t = Append(s, c[Len(s) + 1])
  OBVIOUS
<1>3. /\ Len(t) = Len(s) + 1 /\ t[Len(s) + 1] = c[Len(s) + 1]
      /\ \A k \in 1..Len(s) : t[k] = s[k]
  BY <1>1, <1>2 DEF Content
<1>4. \A k \in 1..Len(t) : c[k] = t[k]
  BY <1>1, <1>3 DEF Begins
<1> QED
  BY <1>1, <1>2, <1>3, <1>4 DEF Begins

\* The digest that the gate works on stays that of the staged file.
LEMMA DigestHoldsStep ==
  ASSUME Sound, Sound', SerialSessions, UploadsApart, UploadMove, NEW q \in Requests
  PROVE  DigestHolds(q)'
<1>n. [Next]_vars
  BY DEF UploadMove
<1>d. DigestHolds(q) /\ DescriptorApart(q)
  BY DEF UploadsApart
<1>t. data \in [Inodes -> Content] /\ data' \in [Inodes -> Content]
  BY DEF Sound, TypeOK
<1>1. CASE h'[q] = h[q]
  <2>1. CASE h[q].pc \notin HashedPCs \cup {"hash"}
    BY <1>1, <2>1 DEF DigestHolds
  <2>2. CASE h[q].pc = "hash"
    <3>1. h[q].fd \in Inodes /\ h[q].fd # None
      BY <2>2, ValuesAssumption DEF Sound, HandlersOK, WriterInBounds, ReadPCs
    <3>2. data'[h[q].fd] = data[h[q].fd]
      BY <2>2, <3>1, OwnKept
    <3> QED
      BY <1>1, <1>d, <2>2, <3>2 DEF DigestHolds, HashedPCs
  <2>3. CASE h[q].pc \in HashedPCs
    <3>1. h[q].pc \notin {"idle", "open", "write", "hash"}
      BY <2>3 DEF HashedPCs
    <3> QED
      BY <1>1, <1>d, <2>3, <3>1, OwnKept DEF DigestHolds
  <2> QED
    BY <2>1, <2>2, <2>3
<1>2. CASE Restart
  BY <1>2, IdleFields DEF Restart, DigestHolds, HashedPCs
<1>3. CASE Acts(q)
  <2>1. CASE h'[q].pc \notin HashedPCs \cup {"hash"}
    BY <2>1 DEF DigestHolds
  <2>2. CASE h'[q].pc \in HashedPCs \cup {"hash"}
    <3>1. ASSUME h'[q].pc = "hash", h'[q].buf = << >>, h'[q].fd \in Inodes
          PROVE  DigestHolds(q)'
      BY <1>t, <3>1, EmptyBegins DEF DigestHolds, HashedPCs
    <3>2. ASSUME ReadBlock(q), h[q].pc = "hash", h'[q].pc = "hash", h'[q].fd = h[q].fd,
                 h'[q].buf = Append(h[q].buf, data[h[q].fd][Len(h[q].buf) + 1])
          PROVE  DigestHolds(q)'
      <4>1. h[q].fd \in Inodes /\ data' = data /\ ~AllRead(q)
        BY <3>2 DEF Sound, HandlersOK, WriterInBounds, ReadPCs, ReadBlock, files
      <4>2. PICK s \in Content, c \in Content : s = h[q].buf /\ c = data[h[q].fd]
        BY <1>t, <3>2, <4>1, InFlightHandler
      <4>3. Begins(s, c) /\ Len(s) < Len(c)
        BY <1>d, <3>2, <4>1, <4>2 DEF DigestHolds, AllRead, Content
      <4> QED
        BY <3>2, <4>1, <4>2, <4>3, ReadContinues DEF DigestHolds, HashedPCs
    <3>3. ASSUME EndHash(q), h'[q].pc = "openscan", h'[q].u = h[q].u, h'[q].digest = h[q].buf
          PROVE  DigestHolds(q)'
      <4>1. /\ h[q].pc = "hash" /\ h[q].fd \in Inodes /\ h[q].fd # None
            /\ data' = data /\ staging' = staging /\ AllRead(q)
        BY <3>3, ValuesAssumption DEF Sound, HandlersOK, WriterInBounds, ReadPCs, EndHash, files
      <4>2. PICK s \in Content, c \in Content : s = h[q].buf /\ c = data[h[q].fd]
        BY <1>t, <4>1, InFlightHandler
      <4>3. Begins(s, c) /\ Len(s) >= Len(c)
        BY <1>d, <4>1, <4>2 DEF DigestHolds, AllRead
      <4>4. s = c
        BY <4>3, BeginsWhole
      <4>5. staging[h[q].u] # None => staging[h[q].u] = h[q].fd
        BY <1>d, <4>1 DEF DescriptorApart
      <4> QED
        BY <3>3, <4>1, <4>2, <4>4, <4>5 DEF DigestHolds
    <3>4. ASSUME h[q].pc \in HashedPCs, h'[q].pc # "hash", h'[q].u = h[q].u,
                 h'[q].digest = h[q].digest
          PROVE  DigestHolds(q)'
      <4>1. h[q].pc \notin {"idle", "open", "write"}
        BY <3>4 DEF HashedPCs
      <4> QED
        BY <1>d, <3>4, <4>1, OwnKept DEF DigestHolds
    <3> QED
      BY <1>3, <2>2, <3>1, <3>2, <3>3, <3>4, DigestNext DEF Hashes
  <2> QED
    BY <2>1, <2>2
<1>4. ASSUME NEW r \in Requests, Acts(r), r # q PROVE h'[q] = h[q]
  BY <1>4, OthersUntouched DEF Sound
<1> QED
  BY <1>n, <1>1, <1>2, <1>3, <1>4, HandlersFrame

\* Uploads keep to their own files.
LEMMA UploadsApartStep ==
  ASSUME Sound, Sound', SerialSessions, SerialSessions', NamesApart', StagedTwice, StagedTwice',
         UploadsApart, UploadMove
  PROVE  UploadsApart'
BY DescriptorApartStep, DigestHoldsStep DEF UploadsApart

\* Requests do not reach staged or open files.
LEMMA UploadsApartMove ==
  ASSUME DriveTypeOK, UploadsApart, NEW r \in QuarantineRequests, RequestMove(r)
  PROVE  UploadsApart'
<1>1. UNCHANGED <<staging, data, h>>
  BY DEF RequestMove
<1>2. ASSUME NEW q \in Requests PROVE DescriptorApart(q)'
  BY <1>1, RequestNames DEF UploadsApart, DescriptorApart
<1>3. ASSUME NEW q \in Requests PROVE DigestHolds(q)'
  BY <1>1 DEF UploadsApart, DigestHolds
<1> QED
  BY <1>2, <1>3 DEF UploadsApart
-----------------------------------------------------------------------------
(* What is kept is what was inspected. *)

\* Nobody writes to a file that has left staging.
LEMMA NamedDataKept ==
  ASSUME Sound, UploadsApart, UploadMove, NEW x \in Named, x \in Inodes
  PROVE  data'[x] = data[x]
<1>n. [Next]_vars /\ data \in [Inodes -> Content] /\ x # None
  BY ValuesAssumption DEF UploadMove, Sound, TypeOK
<1>1. ASSUME NEW r \in Requests, WriteBlock(r) \/ EndWrite(r) PROVE data'[x] = data[x]
  <2>1. h[r].pc = "write"
    BY <1>1, WriterMoves
  <2>2. h[r].fd \in Inodes
    BY <2>1 DEF Sound, HandlersOK, WriterInBounds
  <2>3. h[r].fd # x
    BY <1>n, <2>2 DEF UploadsApart, DescriptorApart
  <2> QED
    BY <1>1, <1>n, <2>3 DEF WriteBlock, EndWrite
<1>2. ASSUME NEW r \in Requests, OpenAppend(r) PROVE data'[x] = data[x]
  <2>1. h[r].u \in UploadIDs /\ staging \in [UploadIDs -> Inodes \cup {None}]
    BY <1>2, InFlightHandler DEF OpenAppend, Sound, TypeOK
  <2>2. ASSUME staging[h[r].u] = None, NEW i \in Free, staging' = [staging EXCEPT ![h[r].u] = i],
               data' = [data EXCEPT ![i] = << >>]
        PROVE  data'[x] = data[x]
    <3>1. staging'[h[r].u] = i
      BY <2>1, <2>2
    <3>2. i \notin Named
      BY <2>1, <2>2, <3>1, FreeIsUnnamed
    <3> QED
      BY <1>n, <2>2, <3>2
  <2> QED
    BY <1>2, <2>2 DEF OpenAppend
<1> QED
  BY <1>n, <1>1, <1>2, DataFrame

\* A file gets its place in the history once, when it is released.
LEMMA InspectedNext ==
  ASSUME Sound, SerialSessions, StagedTwice, UploadStep, NEW x \in Inodes
  PROVE  \/ inspected'[x] = inspected[x] /\ ~(x \in Named' /\ x \notin Named)
         \/ \E r \in Requests : Releases(r, x) /\ inspected'[x] = h[r].digest
<1>m. UploadMove
  BY UploadStepMoves
<1>i. inspected'[x] = IF \E n \in Nodes : objects'[n] = x /\ objects[n] # x
                        THEN LET n == CHOOSE m \in Nodes : objects'[m] = x IN pub'[n].digest
                        ELSE inspected[x]
  BY DEF UploadStep
<1>t. objects \in [Nodes -> Inodes \cup {None}]
  BY DEF Sound, TypeOK
<1>1. CASE UNCHANGED objects
  <2>1. x \in Named' => x \in Named
    BY <1>1, <1>m, NamedIs, NamedIsNext DEF UploadMove
  <2> QED
    BY <1>1, <1>i, <2>1
<1>2. ASSUME NEW r \in Requests, Releases(r, staging[h[r].u]), x = staging[h[r].u]
      PROVE  Releases(r, x) /\ inspected'[x] = h[r].digest
  <2>1. PICK k \in Nodes : k = h[r].sess.node
    BY <1>2 DEF Releases
  <2>2. \A m \in Nodes : objects'[m] = x <=> m = k
    BY <1>2, <1>t, <2>1, NamedIs DEF Releases
  <2>3. (CHOOSE m \in Nodes : objects'[m] = x) = k
    BY <2>2
  <2>4. objects'[k] = x /\ objects[k] # x
    BY <1>2, <2>1, <2>2, NamedIs DEF Releases
  <2>5. inspected'[x] = pub'[k].digest
    BY <1>i, <2>3, <2>4
  <2> QED
    BY <1>2, <2>1, <2>5 DEF Releases
<1>3. ASSUME NEW r \in Requests, Releases(r, staging[h[r].u]), x # staging[h[r].u]
      PROVE  inspected'[x] = inspected[x] /\ ~(x \in Named' /\ x \notin Named)
  <2>1. \A n \in Nodes : objects'[n] = x => objects[n] = x
    BY <1>3, <1>t DEF Releases
  <2>2. x \in Named' => x \in Named
    BY <1>m, <2>1, NamedIs, NamedIsNext DEF UploadMove
  <2> QED
    BY <1>i, <2>1, <2>2
<1> QED
  BY <1>m, <1>1, <1>2, <1>3, ReleasedNext

\* The property, in terms of names,
LEMMA KeptIsInspectedIs ==
  KeptIsInspected <=> \A x \in Named \ {None} : data[x] = inspected[x]
BY DEF KeptIsInspected, Named, Kept

\* and after a step.
LEMMA KeptIsInspectedIsNext ==
  KeptIsInspected' <=> \A x \in Named' \ {None} : data'[x] = inspected'[x]
BY DEF KeptIsInspected, Named, Kept

\* Names are of inodes.
LEMMA NamedTyped == DriveTypeOK => Named \subseteq Inodes \cup {None}
BY NamedIs DEF DriveTypeOK, TypeOK, Named, Kept

\* A file is released with the content of its digest, and nobody writes to it
\* afterwards.
LEMMA KeptIsInspectedUpload ==
  ASSUME DriveTypeOK, Sound, SerialSessions, StagedTwice, UploadsApart, KeptIsInspected, UploadStep
  PROVE  KeptIsInspected'
<1>m. UploadMove
  BY UploadStepMoves
<1> SUFFICES ASSUME NEW x \in Named' \ {None} PROVE data'[x] = inspected'[x]
  BY KeptIsInspectedIsNext
<1>1. ASSUME NEW r \in Requests, Releases(r, x), inspected'[x] = h[r].digest
      PROVE  data'[x] = inspected'[x]
  BY <1>1 DEF Releases, Link, UploadsApart, DigestHolds, HashedPCs
<1>2. CASE x \in Named
  <2>1. x \in Inodes /\ data[x] = inspected[x]
    BY <1>2, NamedTyped, KeptIsInspectedIs
  <2>2. data'[x] = data[x]
    BY <1>m, <1>2, <2>1, NamedDataKept
  <2> QED
    BY <1>1, <2>1, <2>2, InspectedNext
<1>3. CASE x \notin Named
  <2>1. \E r \in Requests : Releases(r, x)
    BY <1>m, <1>3, NamedNext
  <2>2. x \in Inodes
    BY <2>1 DEF Releases, Sound, TypeOK
  <2> QED
    BY <1>1, <1>3, <2>2, InspectedNext
<1> QED
  BY <1>2, <1>3

\* A request moves files, and changes none.
LEMMA KeptIsInspectedMove ==
  ASSUME DriveTypeOK, KeptIsInspected, NEW r \in QuarantineRequests, RequestMove(r)
  PROVE  KeptIsInspected'
<1>1. UNCHANGED <<data, inspected>>
  BY DEF RequestMove
<1> QED
  BY <1>1, RequestNames, KeptIsInspectedIs, KeptIsInspectedIsNext
-----------------------------------------------------------------------------
(* Quarantine requests. *)

\* The request goes on with the node and the operation that it came with.
GoesTo(r, pc) == /\ qh' \in [QuarantineRequests -> Q!Request]
                 /\ \A q \in QuarantineRequests : q # r => qh'[q] = qh[q]
                 /\ qh'[r].pc = pc /\ qh'[r].n = qh[r].n /\ qh'[r].op = qh[r].op

\* A request that only changes its state keeps its node and its operation:
LEMMA BecomeGoes ==
  ASSUME DriveTypeOK, NEW r \in QuarantineRequests, NEW l \in Q!Request, Q!Become(r, l),
         l.n = qh[r].n, l.op = qh[r].op
  PROVE  GoesTo(r, l.pc)
BY DEF DriveTypeOK, Q!Become, GoesTo

\* when it answers,
LEMMA AnswerGoes ==
  ASSUME DriveTypeOK, NEW r \in QuarantineRequests, NEW res \in Q!Results, Q!Answer(r, res)
  PROVE  GoesTo(r, "done")
<1>1. qh[r] \in Q!Request
  BY DEF DriveTypeOK
<1>2. PICK l : l = [qh[r] EXCEPT !.pc = "done", !.result = res, !.status = "none",
                                 !.objectExists = FALSE]
  OBVIOUS
<1>3. l \in Q!Request /\ l.pc = "done" /\ l.n = qh[r].n /\ l.op = qh[r].op
  BY <1>1, <1>2 DEF Q!Request
<1> QED
  BY <1>2, <1>3, BecomeGoes DEF Q!Answer

\* when it goes on to its next call,
LEMMA GotoGoes ==
  ASSUME DriveTypeOK, NEW r \in QuarantineRequests,
         NEW pc \in Q!ApplyPCs \cup Q!ReadPCs \cup Q!TrashPCs, Q!Goto(r, pc)
  PROVE  GoesTo(r, pc)
<1>1. qh[r] \in Q!Request
  BY DEF DriveTypeOK
<1>2. PICK l : l = [qh[r] EXCEPT !.pc = pc]
  OBVIOUS
<1>3. l \in Q!Request /\ l.pc = pc /\ l.n = qh[r].n /\ l.op = qh[r].op
  BY <1>1, <1>2 DEF Q!Request
<1> QED
  BY <1>2, <1>3, BecomeGoes DEF Q!Goto

\* and when it compares itself with the state on record.
LEMMA MatchingGoes ==
  ASSUME DriveTypeOK, NEW r \in QuarantineRequests, qh[r].n \in Nodes,
         qstate[qh[r].n] \notin {None, Torn}, Q!Matching(r, "statobj")
  PROVE  GoesTo(r, "done") \/ GoesTo(r, "statobj")
<1>1. qh[r] \in Q!Request /\ qstate[qh[r].n] \in Q!Claims
  BY DEF DriveTypeOK
<1>2. PICK status \in {"pending", "quarantined"} : status = qstate[qh[r].n].status
  BY <1>1 DEF Q!Claims
<1>3. PICK l : l = [qh[r] EXCEPT !.pc = "statobj", !.status = status]
  OBVIOUS
<1>4. l \in Q!Request /\ l.pc = "statobj" /\ l.n = qh[r].n /\ l.op = qh[r].op
  BY <1>1, <1>3 DEF Q!Request, Q!ApplyPCs
<1>5. CASE qstate[qh[r].n].op = qh[r].op
  BY <1>2, <1>3, <1>4, <1>5, BecomeGoes DEF Q!Matching
<1>6. CASE qstate[qh[r].n].op # qh[r].op
  BY <1>6, AnswerGoes DEF Q!Matching, Q!Results
<1> QED
  BY <1>5, <1>6

\* A request that arrives has its node to itself, if requests are serial.
Starts(r) == /\ ~Q!InFlight(r) /\ UNCHANGED <<objects, quar, trash>>
             /\ qh' \in [QuarantineRequests -> Q!Request]
             /\ \A q \in QuarantineRequests : q # r => qh'[q] = qh[q]
             /\ qh'[r].pc \in {"read", "rstate", "tlink"} /\ qh'[r].n \in Nodes
             /\ qh'[r].pc = "read" => qh'[r].op \in Operations
             /\ QuarantineSerial => \A q \in QuarantineRequests : Q!InFlight(q) => qh[q].n # qh'[r].n

\* The calls whose outcome decides whether the object goes, and what they find.
Decides(r) == \/ /\ Q!StatObject(r) /\ GoesTo(r, "statquar")
                 /\ \/ qh'[r].objectExists \/ objects[qh[r].n] = None
                    \/ "statobj" \in QuarantineFaults
              \/ Q!StatQuarantine(r) /\ GoesTo(r, "remove") /\ quar[qh[r].n] # None
              \/ /\ Q!StatQuarantine(r) /\ GoesTo(r, "finish") /\ quar[qh[r].n] # None
                 /\ ~qh[r].objectExists
              \/ Q!LinkPayload(r) /\ GoesTo(r, "remove") /\ quar'[qh[r].n] # None
              \/ Q!RemoveObject(r) /\ GoesTo(r, "finish") /\ objects'[qh[r].n] = None

GoesElsewhere(r) == \E pc \in {"done"} \cup Q!ApplyPCs \cup Q!ReadPCs \cup Q!TrashPCs :
                      GoesTo(r, pc) /\ pc \notin {"statquar", "remove", "finish"}
                      /\ (pc \in Q!ApplyPCs => qh[r].pc \in Q!ApplyPCs)

\* If requests are serial, one arrives when no other is on its node.
LEMMA StartNext ==
  ASSUME DriveTypeOK, NEW r \in QuarantineRequests, NEW n \in Nodes, NEW op \in Operations \cup {None},
         NEW pc \in {"read", "rstate", "tlink"}, pc = "read" => op \in Operations,
         Q!Start(r, n, op, pc)
  PROVE  Starts(r)
<1>1. PICK l : l = [Q!Idle EXCEPT !.pc = pc, !.n = n, !.op = op]
  OBVIOUS
<1>2. l \in Q!Request /\ l.pc = pc /\ l.n = n /\ l.op = op
  BY <1>1 DEF Q!Idle, Q!Request, Q!ApplyPCs, Q!ReadPCs, Q!TrashPCs
<1>3. /\ qh' = [qh EXCEPT ![r] = l] /\ ~Q!InFlight(r) /\ UNCHANGED <<objects, quar, trash>>
      /\ QuarantineSerial => \A q \in QuarantineRequests : Q!InFlight(q) => qh[q].n # n
  BY <1>1 DEF Q!Start, Q!Become, Q!dirs
<1> QED
  BY <1>2, <1>3 DEF DriveTypeOK, Starts

\* What may become of a request by its own step.
LEMMA RequestNext ==
  ASSUME DriveTypeOK, RequestsAlone, NEW r \in QuarantineRequests, RequestActs(r)
  PROVE  Starts(r) \/ (Q!InFlight(r) /\ (Decides(r) \/ GoesElsewhere(r)))
<1> USE DEF Q!At
<1>n. Q!InFlight(r) => qh[r].n \in Nodes
  BY DEF RequestsAlone, RequestAlone, Q!InFlight
<1>d. ASSUME GoesTo(r, "done") PROVE GoesElsewhere(r)
  BY <1>d DEF GoesElsewhere, Q!ApplyPCs
<1>a. ASSUME NEW res \in Q!Results, Q!Answer(r, res) PROVE GoesElsewhere(r)
  BY <1>a, <1>d, AnswerGoes
<1>o. ASSUME NEW pc \in Q!ReadPCs \cup Q!TrashPCs, Q!Goto(r, pc) PROVE GoesElsewhere(r)
  <2>1. pc \notin Q!ApplyPCs /\ pc \notin {"statquar", "remove", "finish"}
    BY DEF Q!ReadPCs, Q!TrashPCs, Q!ApplyPCs
  <2> QED
    BY <1>o, <2>1, GotoGoes DEF GoesElsewhere
<1>g. ASSUME NEW pc \in Q!ApplyPCs \ {"statquar", "remove", "finish"}, Q!Goto(r, pc),
             qh[r].pc \in Q!ApplyPCs
      PROVE  GoesElsewhere(r)
  BY <1>g, GotoGoes DEF GoesElsewhere
<1>1. ASSUME NEW n \in Nodes, Q!Read(r, n) PROVE Starts(r)
  BY <1>1, StartNext DEF Q!Read
<1>2. ASSUME NEW n \in Nodes, Q!MoveToTrash(r, n) PROVE Starts(r)
  BY <1>2, StartNext DEF Q!MoveToTrash
<1>3. ASSUME NEW n \in Nodes, NEW op \in Operations, Q!Apply(r, n, op) PROVE Starts(r)
  BY <1>3, StartNext DEF Q!Apply
<1>m. ASSUME Q!InFlight(r), qh[r].pc \in Q!ApplyPCs, qstate[qh[r].n] \notin {None, Torn},
             Q!Matching(r, "statobj")
      PROVE  GoesElsewhere(r)
  <2>1. GoesTo(r, "done") \/ GoesTo(r, "statobj")
    BY <1>m, <1>n, MatchingGoes
  <2> QED
    BY <1>d, <1>m, <2>1 DEF GoesElsewhere, Q!ApplyPCs
<1>4. ASSUME Q!ReadState(r) PROVE Q!InFlight(r) /\ GoesElsewhere(r)
  <2>1. qh[r].pc = "read" /\ Q!InFlight(r) /\ qh[r].pc \in Q!ApplyPCs
    BY <1>4 DEF Q!ReadState, Q!InFlight, Q!ApplyPCs
  <2> QED
    BY <1>4, <1>a, <1>g, <1>m, <2>1 DEF Q!ReadState, Q!ApplyPCs, Q!Results
<1>5. ASSUME Q!CheckQuarantine(r) \/ Q!CheckObject(r) PROVE Q!InFlight(r) /\ GoesElsewhere(r)
  BY <1>5, <1>a, <1>g DEF Q!CheckQuarantine, Q!CheckObject, Q!ApplyPCs, Q!Results, Q!InFlight
<1>6. ASSUME Q!CreateExclusive(r) \/ Q!SyncPending(r) PROVE Q!InFlight(r) /\ GoesElsewhere(r)
  BY <1>6, <1>g DEF Q!CreateExclusive, Q!SyncPending, Q!ApplyPCs, Q!InFlight
<1>7. ASSUME Q!WritePending(r) PROVE Q!InFlight(r) /\ GoesElsewhere(r)
  <2>1. qh[r].pc = "write" /\ qh[r] \in Q!Request
    BY <1>7 DEF Q!WritePending, DriveTypeOK
  <2>2. PICK l : l = [qh[r] EXCEPT !.pc = "sync", !.status = "pending"]
    OBVIOUS
  <2>3. l \in Q!Request /\ l.pc = "sync" /\ l.n = qh[r].n /\ l.op = qh[r].op
    BY <2>1, <2>2 DEF Q!Request, Q!ApplyPCs
  <2>4. GoesTo(r, "sync")
    BY <1>7, <2>2, <2>3, BecomeGoes DEF Q!WritePending
  <2> QED
    BY <2>1, <2>4 DEF GoesElsewhere, Q!ApplyPCs, Q!InFlight
<1>8. ASSUME Q!Reread(r) PROVE Q!InFlight(r) /\ GoesElsewhere(r)
  <2>1. qh[r].pc = "reread" /\ Q!InFlight(r) /\ qh[r].pc \in Q!ApplyPCs
    BY <1>8 DEF Q!Reread, Q!InFlight, Q!ApplyPCs
  <2> QED
    BY <1>8, <1>a, <1>m, <2>1 DEF Q!Reread, Q!Results
<1>9. ASSUME Q!StatObject(r) PROVE Q!InFlight(r) /\ Decides(r)
  <2>1. qh[r].pc = "statobj" /\ qh[r] \in Q!Request /\ Q!InFlight(r)
    BY <1>9 DEF Q!StatObject, DriveTypeOK, Q!InFlight
  <2>2. PICK there \in BOOLEAN :
          /\ Q!Become(r, [qh[r] EXCEPT !.pc = "statquar", !.objectExists = there])
          /\ there \/ objects[qh[r].n] = None \/ "statobj" \in QuarantineFaults
    BY <1>9, <2>1 DEF Q!StatObject, Q!exists, Q!There
  <2>3. PICK l : l = [qh[r] EXCEPT !.pc = "statquar", !.objectExists = there]
    OBVIOUS
  <2>4. /\ l \in Q!Request /\ l.pc = "statquar" /\ l.n = qh[r].n /\ l.op = qh[r].op
        /\ l.objectExists = there
    BY <2>1, <2>3 DEF Q!Request, Q!ApplyPCs
  <2>5. GoesTo(r, "statquar")
    BY <2>2, <2>3, <2>4, BecomeGoes
  <2>6. qh'[r] = l
    BY <2>2, <2>3 DEF Q!Become, DriveTypeOK
  <2> QED
    BY <1>9, <2>1, <2>2, <2>4, <2>5, <2>6 DEF Decides
<1>10. ASSUME Q!StatQuarantine(r) PROVE Q!InFlight(r) /\ (Decides(r) \/ GoesElsewhere(r))
  <2>1. qh[r].pc = "statquar" /\ Q!InFlight(r) /\ qh[r].pc \in Q!ApplyPCs
    BY <1>10 DEF Q!StatQuarantine, Q!InFlight, Q!ApplyPCs
  <2>2. ASSUME Q!Goto(r, "remove"), quar[qh[r].n] # None PROVE Decides(r)
    BY <1>10, <2>2, GotoGoes DEF Decides, Q!ApplyPCs
  <2>3. ASSUME Q!Goto(r, "finish"), quar[qh[r].n] # None, ~qh[r].objectExists PROVE Decides(r)
    BY <1>10, <2>3, GotoGoes DEF Decides, Q!ApplyPCs
  <2>4. ASSUME Q!Goto(r, "link") PROVE GoesElsewhere(r)
    BY <1>g, <2>1, <2>4 DEF Q!ApplyPCs
  <2>5. \/ \E res \in Q!Results : Q!Answer(r, res)
        \/ Q!Goto(r, "link")
        \/ Q!Goto(r, "remove") /\ quar[qh[r].n] # None
        \/ Q!Goto(r, "finish") /\ quar[qh[r].n] # None /\ ~qh[r].objectExists
    BY <1>10 DEF Q!StatQuarantine, Q!exists, Q!There, Q!Results
  <2> QED
    BY <1>a, <2>1, <2>2, <2>3, <2>4, <2>5
<1>11. ASSUME Q!LinkPayload(r) PROVE Q!InFlight(r) /\ (Decides(r) \/ GoesElsewhere(r))
  <2>1. Q!InFlight(r) /\ quar \in [Nodes -> Inodes \cup {None}]
    BY <1>11 DEF Q!LinkPayload, Q!InFlight, DriveTypeOK
  <2>2. ASSUME Q!Goto(r, "remove"), quar'[qh[r].n] # None PROVE Decides(r)
    BY <1>11, <2>2, GotoGoes DEF Decides, Q!ApplyPCs
  <2>3. \/ Q!Answer(r, "not_found")
        \/ Q!Goto(r, "remove") /\ quar'[qh[r].n] # None
    BY <1>11, <1>n, <2>1 DEF Q!LinkPayload, Q!There
  <2> QED
    BY <1>a, <2>1, <2>2, <2>3 DEF Q!Results
<1>12. ASSUME Q!RemoveObject(r) PROVE Q!InFlight(r) /\ (Decides(r) \/ GoesElsewhere(r))
  <2>1. Q!InFlight(r) /\ objects \in [Nodes -> Inodes \cup {None}]
    BY <1>12 DEF Q!RemoveObject, Q!InFlight, DriveTypeOK, TypeOK
  <2>2. ASSUME Q!Goto(r, "finish"), objects' = [objects EXCEPT ![qh[r].n] = None] PROVE Decides(r)
    BY <1>12, <1>n, <2>1, <2>2, GotoGoes DEF Decides, Q!ApplyPCs
  <2> QED
    BY <1>12, <1>a, <2>1, <2>2 DEF Q!RemoveObject, Q!Results
<1>13. ASSUME Q!FinishState(r) PROVE Q!InFlight(r) /\ GoesElsewhere(r)
  BY <1>13, <1>a DEF Q!FinishState, Q!Results, Q!InFlight
<1>14. ASSUME Q!ReadStep(r) PROVE Q!InFlight(r) /\ GoesElsewhere(r)
  BY <1>14, <1>a, <1>o DEF Q!ReadStep, Q!ReadBack, Q!ReadAbsent, Q!ReadPayload, Q!ReadObject,
     Q!ReadPCs, Q!Results, Q!InFlight
<1>15. ASSUME Q!TrashStep(r) PROVE Q!InFlight(r) /\ GoesElsewhere(r)
  BY <1>15, <1>a, <1>o DEF Q!TrashStep, Q!TrashLink, Q!TrashRemove, Q!TrashPCs, Q!Results, Q!InFlight
<1>16. ASSUME Q!Fail(r) PROVE Q!InFlight(r) /\ GoesElsewhere(r)
  BY <1>16, <1>a DEF Q!Fail, Q!Results
<1> QED
  BY <1>1, <1>2, <1>3, <1>4, <1>5, <1>6, <1>7, <1>8, <1>9, <1>10, <1>11, <1>12, <1>13, <1>14,
     <1>15, <1>16
  DEF RequestActs, Q!ApplyStep

\* Requests stay alone on their nodes.
LEMMA RequestsAloneMove ==
  ASSUME DriveTypeOK, RequestsAlone, NEW r \in QuarantineRequests, RequestActs(r)
  PROVE  RequestsAlone' /\ qh' \in [QuarantineRequests -> Q!Request]
<1>1. CASE Starts(r)
  <2>1. qh'[r].pc \in Q!ApplyPCs => qh'[r].op \in Operations
    BY <1>1 DEF Starts, Q!ApplyPCs
  <2>2. ASSUME NEW q \in QuarantineRequests PROVE RequestAlone(q)'
    BY <1>1, <2>1 DEF Starts, RequestsAlone, RequestAlone, Q!InFlight
  <2> QED
    BY <1>1, <2>2 DEF RequestsAlone, Starts
<1>2. ASSUME NEW pc, GoesTo(r, pc), Q!InFlight(r), pc \in Q!ApplyPCs => qh[r].pc \in Q!ApplyPCs
      PROVE  RequestsAlone' /\ qh' \in [QuarantineRequests -> Q!Request]
  <2>1. ASSUME NEW q \in QuarantineRequests PROVE RequestAlone(q)'
    BY <1>2 DEF GoesTo, RequestsAlone, RequestAlone, Q!InFlight
  <2> QED
    BY <1>2, <2>1 DEF RequestsAlone, GoesTo
<1>3. ASSUME Decides(r)
      PROVE  \E pc : GoesTo(r, pc) /\ (pc \in Q!ApplyPCs => qh[r].pc \in Q!ApplyPCs)
  BY <1>3 DEF Decides, Q!StatObject, Q!StatQuarantine, Q!LinkPayload, Q!RemoveObject, Q!At, Q!ApplyPCs
<1> QED
  BY <1>1, <1>2, <1>3, RequestNext DEF GoesElsewhere

\* Only the three writes of a claim touch the state files.
LEMMA StatesNext ==
  ASSUME NEW r \in QuarantineRequests, RequestActs(r)
  PROVE  /\ UNCHANGED qstate \/ Q!CreateExclusive(r) \/ Q!WritePending(r) \/ Q!FinishState(r)
         /\ UNCHANGED restarts
BY DEF RequestActs, Q!Read, Q!MoveToTrash, Q!Apply, Q!Start, Q!ApplyStep, Q!ReadStep,
       Q!TrashStep, Q!Fail, Q!ReadState, Q!CheckQuarantine, Q!CheckObject, Q!CreateExclusive,
       Q!WritePending, Q!SyncPending, Q!Reread, Q!StatObject, Q!StatQuarantine, Q!LinkPayload,
       Q!RemoveObject, Q!FinishState, Q!ReadBack, Q!ReadAbsent, Q!ReadPayload, Q!ReadObject,
       Q!TrashLink, Q!TrashRemove

\* What they write are claims.
LEMMA StatesTyped ==
  ASSUME DriveTypeOK, RequestsAlone, NEW r \in QuarantineRequests, RequestActs(r)
  PROVE  qstate' \in [Nodes -> Q!Claims \cup {None, Torn}]
<1>t. qstate \in [Nodes -> Q!Claims \cup {None, Torn}]
  BY DEF DriveTypeOK
<1>1. ASSUME Q!CreateExclusive(r) PROVE qstate' \in [Nodes -> Q!Claims \cup {None, Torn}]
  BY <1>1, <1>t DEF Q!CreateExclusive
<1>2. ASSUME Q!WritePending(r) \/ Q!FinishState(r)
      PROVE  qstate' \in [Nodes -> Q!Claims \cup {None, Torn}]
  <2>1. qh[r].op \in Operations
    BY <1>2 DEF Q!WritePending, Q!FinishState, Q!At, Q!ApplyPCs, RequestsAlone, RequestAlone
  <2>2. PICK status \in {"pending", "quarantined"} :
          qstate' = [qstate EXCEPT ![qh[r].n] = Q!Claim(qh[r].op, status)]
    BY <1>2 DEF Q!WritePending, Q!FinishState, Q!WriteAtomic
  <2>3. Q!Claim(qh[r].op, status) \in Q!Claims
    BY <2>1 DEF Q!Claim, Q!Claims
  <2> QED
    BY <1>t, <2>2, <2>3
<1> QED
  BY <1>t, <1>1, <1>2, StatesNext
-----------------------------------------------------------------------------
(* The inductive invariant. *)

\* What handlers rely on does not depend on the objects.
LEMMA SoundUnchanged ==
  ASSUME Sound, UNCHANGED <<clock, repo, staging, data, h, pub, acked>>
  PROVE  HandlersOK' /\ IssuedHaveNodes'
<1>1. ASSUME NEW q \in Requests PROVE SessionKnown(q)' /\ WriterInBounds(q)' /\ GateProgress(q)'
  <2>1. SessionKnown(q) /\ WriterInBounds(q) /\ GateProgress(q)
    BY DEF Sound, HandlersOK
  <2>2. SessionKnown(q)'
    BY <2>1 DEF SessionKnown, Issued
  <2>3. WriterInBounds(q)'
    BY <2>1 DEF WriterInBounds
  <2>4. GateProgress(q)'
    BY <2>1 DEF GateProgress
  <2> QED
    BY <2>2, <2>3, <2>4
<1> QED
  BY <1>1 DEF HandlersOK, Sound, IssuedHaveNodes, Issued

\* A quarantine request keeps the invariant,
LEMMA RequestKeepsInductive ==
  ASSUME DriveInductive, NEW r \in QuarantineRequests, RequestActs(r), RequestMove(r)
  PROVE  DriveInductive'
<1>i. /\ DriveTypeOK /\ Sound /\ SerialSessions /\ NamesApart /\ StagedTwice /\ UploadsApart
      /\ RequestsAlone /\ KeptIsInspected
  BY DEF DriveInductive
<1>1. UNCHANGED <<clock, repo, staging, data, h, pub, acked, inspected>>
  BY DEF RequestMove
<1>t. /\ objects \in [Nodes -> Inodes \cup {None}] /\ quar \in [Nodes -> Inodes \cup {None}]
      /\ trash \in [Nodes -> Inodes \cup {None}]
  BY <1>i DEF DriveTypeOK, TypeOK
<1>2. /\ objects' \in [Nodes -> Inodes \cup {None}] /\ quar' \in [Nodes -> Inodes \cup {None}]
      /\ trash' \in [Nodes -> Inodes \cup {None}]
  BY <1>t DEF RequestMove, Removes, Quarantines, Trashes
<1>3. TypeOK'
  BY <1>1, <1>2, <1>i DEF DriveTypeOK, TypeOK
<1>4. RequestsAlone' /\ qh' \in [QuarantineRequests -> Q!Request]
  BY <1>i, RequestsAloneMove
<1>5. DriveTypeOK'
  BY <1>1, <1>2, <1>3, <1>4, <1>i, StatesTyped, StatesNext DEF DriveTypeOK
<1>6. HandlersOK' /\ IssuedHaveNodes'
  BY <1>1, <1>i, SoundUnchanged
<1>7. Sound'
  BY <1>3, <1>6 DEF Sound
<1>8. SerialSessions'
  BY <1>1, <1>i DEF SerialSessions, OffsetsCount, Issued, HandlerAlone
<1> QED
  BY <1>i, <1>4, <1>5, <1>7, <1>8, NamesApartMove, StagedTwiceMove, UploadsApartMove,
     KeptIsInspectedMove
  DEF DriveInductive

\* and so do uploads and restarts.
LEMMA UploadsKeepInductive ==
  ASSUME Serial, ~Durable, "unlink" \notin Faults, DriveInductive,
         UploadStep \/ RestartServer \/ UNCHANGED driveVars
  PROVE  DriveInductive'
<1>i. /\ DriveTypeOK /\ Sound /\ SerialSessions /\ NamesApart /\ StagedTwice /\ UploadsApart
      /\ RequestsAlone /\ KeptIsInspected
  BY DEF DriveInductive
<1>m. UploadMove
  BY UploadStepMoves, RestartServerMoves, IdlesMove
<1>n. [Next]_vars
  BY <1>m DEF UploadMove
<1>1. Sound'
  BY <1>i, <1>n, SoundStep
<1>2. SerialSessions'
  BY <1>i, <1>n, SerialSessionsStep
<1>3. NamesApart' /\ StagedTwice'
  BY <1>i, <1>m, NamesApartStep, StagedTwiceStep
<1>4. UploadsApart'
  BY <1>i, <1>m, <1>1, <1>2, <1>3, UploadsApartStep
<1>r. ASSUME RestartServer
      PROVE  /\ UNCHANGED <<objects, data, quar, trash, qstate, inspected>>
             /\ restarts' = restarts + 1 /\ qh' = [r \in QuarantineRequests |-> Q!Idle]
  BY <1>r DEF RestartServer, Restart, files, Q!Restart, Q!dirs
<1>u. ASSUME UploadStep PROVE UNCHANGED <<quar, trash, qstate, qh, restarts>>
  BY <1>u DEF UploadStep, quarantineVars
<1>v. ASSUME UNCHANGED driveVars
      PROVE  UNCHANGED <<objects, data, quar, trash, qstate, qh, restarts, inspected>>
  BY <1>v DEF driveVars, vars, quarantineVars
<1>5. KeptIsInspected'
  <2>1. ASSUME UNCHANGED <<objects, data, quar, trash, inspected>> PROVE KeptIsInspected'
    BY <1>i, <2>1 DEF KeptIsInspected
  <2> QED
    BY <1>i, <1>r, <1>v, <2>1, KeptIsInspectedUpload
<1>6. RequestsAlone' /\ qh' \in [QuarantineRequests -> Q!Request]
  <2>1. ASSUME UNCHANGED qh PROVE RequestsAlone' /\ qh' \in [QuarantineRequests -> Q!Request]
    BY <1>i, <2>1 DEF RequestsAlone, RequestAlone, Q!InFlight, DriveTypeOK
  <2>2. ASSUME qh' = [r \in QuarantineRequests |-> Q!Idle]
        PROVE  RequestsAlone' /\ qh' \in [QuarantineRequests -> Q!Request]
    <3>1. Q!Idle \in Q!Request /\ Q!Idle.pc = "idle"
      BY DEF Q!Idle, Q!Request
    <3>2. \A r \in QuarantineRequests : qh'[r].pc = "idle"
      BY <2>2, <3>1
    <3>3. RequestsAlone'
      BY <3>2 DEF RequestsAlone, RequestAlone, Q!InFlight, Q!ApplyPCs
    <3> QED
      BY <2>2, <3>1, <3>3
  <2> QED
    BY <1>r, <1>u, <1>v, <2>1, <2>2
<1>7. inspected' \in [Inodes -> Content]
  <2>1. CASE UNCHANGED inspected
    BY <1>i, <2>1 DEF DriveTypeOK
  <2>2. CASE UploadStep
    <3>1. ASSUME NEW x \in Inodes PROVE inspected'[x] \in Content
      <4>1. inspected[x] \in Content
        BY <1>i DEF DriveTypeOK
      <4>2. ASSUME NEW r \in Requests PROVE h[r].digest \in Content
        BY <1>i DEF Sound, TypeOK, Handler
      <4> QED
        BY <1>i, <2>2, <4>1, <4>2, InspectedNext
    <3>2. inspected' = [x \in Inodes |-> inspected'[x]]
      BY <2>2 DEF UploadStep
    <3> QED
      BY <3>1, <3>2
  <2> QED
    BY <1>r, <1>v, <2>1, <2>2
<1>8. DriveTypeOK'
  BY <1>i, <1>1, <1>6, <1>7, <1>r, <1>u, <1>v DEF DriveTypeOK, Sound
<1> QED
  BY <1>1, <1>2, <1>3, <1>4, <1>5, <1>6, <1>8 DEF DriveInductive

\* An empty drive has it.
LEMMA DriveInitInductive == DriveInit => DriveInductive
<1> SUFFICES ASSUME DriveInit PROVE DriveInductive
  OBVIOUS
<1>1. Init
  BY DEF DriveInit
<1>2. Sound /\ SerialSessions
  BY <1>1, InitInductive, InductiveIsSound, InitSessions
<1>3. Q!Idle \in Q!Request /\ Q!Idle.pc = "idle"
  BY DEF Q!Idle, Q!Request
<1>4. DriveTypeOK
  <2>1. << >> \in Content
    BY DEF Content
  <2> QED
    BY <1>2, <1>3, <2>1 DEF DriveInit, DriveTypeOK, Sound
<1>5. /\ staging = [u \in UploadIDs |-> None] /\ objects = [n \in Nodes |-> None]
      /\ \A r \in Requests : h[r] = Idle
      /\ quar = [n \in Nodes |-> None] /\ trash = [n \in Nodes |-> None]
      /\ \A r \in QuarantineRequests : qh[r].pc = "idle"
  BY <1>1, <1>3 DEF Init, DriveInit
<1>6. NamesApart /\ StagedTwice /\ KeptIsInspected
  BY <1>5 DEF NamesApart, StagedTwice, KeptIsInspected
<1>7. UploadsApart
  BY <1>5, IdleFields DEF UploadsApart, DescriptorApart, DigestHolds, HashedPCs
<1>8. RequestsAlone
  BY <1>5 DEF RequestsAlone, RequestAlone, Q!InFlight, Q!ApplyPCs
<1> QED
  BY <1>2, <1>4, <1>6, <1>7, <1>8 DEF DriveInductive

\* Every step of the server keeps the invariant.
LEMMA DriveStep ==
  ASSUME Serial, ~Durable, "unlink" \notin Faults, DriveInductive, [DriveNext]_driveVars
  PROVE  DriveInductive'
<1>1. DriveTypeOK /\ RequestsAlone
  BY DEF DriveInductive
<1>2. CASE QuarantineStep
  BY <1>1, <1>2, QuarantineStepMoves, RequestKeepsInductive
<1> QED
  BY <1>2, UploadsKeepInductive DEF DriveNext

\* The invariant of the server: sessions with one request at a time that are
\* held in memory, and no finalization that keeps its staging name.
THEOREM DriveInvariant ==
  ASSUME Serial, ~Durable, "unlink" \notin Faults
  PROVE  DriveSpec => []DriveInductive
<1>1. DriveInductive /\ [DriveNext]_driveVars => DriveInductive'
  BY DriveStep
<1> QED
  BY <1>1, DriveInitInductive, PTL DEF DriveSpec

\* Whatever is an object, in quarantine or in trash holds the bytes that were
\* inspected when it was released (Finalize, AppendStaging, ApplyQuarantine,
\* MoveToTrash).
THEOREM KeptStaysInspected ==
  ASSUME Serial, ~Durable, "unlink" \notin Faults
  PROVE  DriveSpec => []KeptIsInspected
<1>1. DriveInductive => KeptIsInspected
  BY DEF DriveInductive
<1> QED
  BY <1>1, DriveInvariant, PTL

\* Objects appear by a release only, and what is released was not kept before.
LEMMA RevivesNothing ==
  ASSUME DriveInductive, [DriveNext]_driveVars, NEW i \in Kept \ {None},
         \A n \in Nodes : objects[n] # i
  PROVE  \A n \in Nodes : objects'[n] # i
<1>i. DriveTypeOK /\ Sound /\ SerialSessions /\ StagedTwice /\ RequestsAlone
  BY DEF DriveInductive
<1>t. objects \in [Nodes -> Inodes \cup {None}]
  BY <1>i DEF Sound, TypeOK
<1>1. CASE UploadMove
  BY <1>i, <1>t, <1>1, ReleasedNext DEF Releases, Named
<1>2. ASSUME NEW r \in QuarantineRequests, RequestMove(r) PROVE \A n \in Nodes : objects'[n] # i
  BY <1>2, <1>t DEF RequestMove, Removes, Quarantines, Trashes
<1> QED
  BY <1>i, <1>1, <1>2, DriveFrame

\* A file that was taken out of the active namespace does not come back
\* (Finalize after ApplyQuarantine or MoveToTrash, and after a restart).
THEOREM NothingIsRevived ==
  ASSUME Serial, ~Durable, "unlink" \notin Faults
  PROVE  DriveSpec => NeverRevived
<1>1. DriveInductive /\ [DriveNext]_driveVars =>
        [\A i \in Kept \ {None} :
           (\A n \in Nodes : objects[n] # i) => (\A n \in Nodes : objects'[n] # i)]_driveVars
  BY RevivesNothing
<1> QED
  BY <1>1, DriveInvariant, PTL DEF DriveSpec, NeverRevived
-----------------------------------------------------------------------------
(* A quarantine on record as done, whatever is published meanwhile. *)

\* A payload that no node serves is not served again by a publication ...
LEMMA InactiveUpload ==
  ASSUME Sound, SerialSessions, StagedTwice, UploadMove, NEW n \in Nodes, Inactive(n)
  PROVE  Inactive(n)'
<1>t. objects \in [Nodes -> Inodes \cup {None}] /\ quar' = quar
  BY DEF Sound, TypeOK, UploadMove
<1>1. ASSUME NEW r \in Requests, Releases(r, staging[h[r].u]) PROVE Inactive(n)'
  <2>1. quar[n] # staging[h[r].u]
    BY <1>1, NamedIs DEF Releases
  <2> QED
    BY <1>1, <1>t, <2>1 DEF Releases, Inactive
<1>2. CASE UNCHANGED objects
  BY <1>t, <1>2 DEF Inactive
<1> QED
  BY <1>1, <1>2, ReleasedNext

\* ... nor by a step of a request.
LEMMA InactiveMove ==
  ASSUME DriveTypeOK, NEW r \in QuarantineRequests, RequestMove(r), NEW n \in Nodes,
         quar[n] # None
  PROVE  quar'[n] = quar[n] /\ (Inactive(n) => Inactive(n)')
<1>t. objects \in [Nodes -> Inodes \cup {None}] /\ quar \in [Nodes -> Inodes \cup {None}]
  BY DEF DriveTypeOK, TypeOK
<1>1. quar'[n] = quar[n]
  BY <1>t DEF RequestMove, Removes, Quarantines, Trashes
<1>2. \A m \in Nodes : objects'[m] \in {None, objects[m]}
  BY <1>t DEF RequestMove, Removes, Quarantines, Trashes
<1> QED
  BY <1>1, <1>2 DEF Inactive

\* Uploads release nothing that is in quarantine.
LEMMA IsolationUpload ==
  ASSUME DriveInductive, Isolation, UploadStep
  PROVE  Isolation'
<1>i. DriveTypeOK /\ Sound /\ SerialSessions /\ StagedTwice /\ RequestsAlone /\ UploadMove
  BY UploadStepMoves DEF DriveInductive
<1>1. UNCHANGED <<quar, trash, qstate, qh>>
  BY DEF UploadStep, quarantineVars
<1>2. \A n \in Nodes : Inactive(n) => Inactive(n)'
  BY <1>i, InactiveUpload
<1>3. ASSUME NEW r \in QuarantineRequests PROVE FinishesInactive(r)'
  <2>1. FinishesInactive(r) /\ (qh[r].pc # "idle" => qh[r].n \in Nodes)
    BY <1>i DEF Isolation, RequestsAlone, RequestAlone
  <2> QED
    BY <1>1, <1>2, <2>1 DEF FinishesInactive, Q!At
<1>4. ASSUME NEW n \in Nodes, Q!IsQuarantined(n)' PROVE quar'[n] # None /\ Inactive(n)'
  <2>1. Q!IsQuarantined(n)
    BY <1>1, <1>4 DEF Q!IsQuarantined, Q!Claimed
  <2>2. quar[n] # None /\ Inactive(n)
    BY <2>1 DEF Isolation, IsolatedIsInactive, Q!IsolatedIsInactive, Inactive
  <2> QED
    BY <1>1, <1>2, <2>2
<1> QED
  BY <1>3, <1>4 DEF Isolation, IsolatedIsInactive, Q!IsolatedIsInactive, Inactive

\* A restart forgets the requests, and nothing else.
LEMMA IsolationRestart ==
  ASSUME Isolation, RestartServer
  PROVE  Isolation'
<1>1. /\ UNCHANGED <<objects, quar, qstate>>
      /\ qh' = [r \in QuarantineRequests |-> Q!Idle]
  BY DEF RestartServer, Restart, files, Q!Restart, Q!dirs
<1>2. \A r \in QuarantineRequests : qh'[r].pc = "idle"
  BY <1>1 DEF Q!Idle
<1>3. ASSUME NEW r \in QuarantineRequests PROVE FinishesInactive(r)'
  BY <1>2 DEF FinishesInactive, Q!At
<1>4. IsolatedIsInactive'
  BY <1>1 DEF Isolation, IsolatedIsInactive, Q!IsolatedIsInactive, Q!IsQuarantined, Q!Claimed
<1> QED
  BY <1>3, <1>4 DEF Isolation

\* A request that does not step relies on a node that nobody else moves.
LEMMA OtherFinishes ==
  ASSUME QuarantineSerial, DriveInductive, Isolation,
         NEW r \in QuarantineRequests, RequestActs(r), RequestMove(r),
         NEW q \in QuarantineRequests, q # r
  PROVE  FinishesInactive(q)'
<1>i. DriveTypeOK /\ RequestsAlone /\ FinishesInactive(q)
  BY DEF DriveInductive, Isolation
<1>1. qh'[q] = qh[q]
  BY <1>i, RequestNext DEF Starts, Decides, GoesElsewhere, GoesTo
<1> SUFFICES ASSUME qh[q].pc \in {"statquar", "remove", "finish"} PROVE FinishesInactive(q)'
  BY <1>1 DEF FinishesInactive, Q!At
<1>2. PICK n \in Nodes : n = qh[q].n
  BY <1>i DEF RequestsAlone, RequestAlone
<1>3. quar'[n] = quar[n]
  <2>1. CASE Starts(r)
    BY <2>1 DEF Starts
  <2>2. CASE Q!InFlight(r)
    <3>1. Q!InFlight(q)
      BY DEF Q!InFlight
    <3>2. qh[r].n # n
      BY <1>i, <1>2, <2>2, <3>1 DEF RequestsAlone, RequestAlone
    <3> QED
      BY <1>i, <3>2 DEF RequestMove, Removes, Quarantines, Trashes, DriveTypeOK
  <2> QED
    BY <1>i, <2>1, <2>2, RequestNext
<1>4. quar[n] # None => (Inactive(n) => Inactive(n)')
  BY <1>i, InactiveMove
<1> QED
  BY <1>i, <1>1, <1>2, <1>3, <1>4 DEF FinishesInactive, Q!At

\* A request goes for the end only when its payload is an object no more.
LEMMA OwnFinishes ==
  ASSUME "statobj" \notin QuarantineFaults, DriveInductive, Isolation,
         NEW r \in QuarantineRequests, RequestActs(r), RequestMove(r)
  PROVE  FinishesInactive(r)'
<1>i. DriveTypeOK /\ RequestsAlone /\ FinishesInactive(r) /\ NamesApart /\ NamesApart'
  BY NamesApartMove DEF DriveInductive, Isolation
<1>1. CASE Starts(r) \/ GoesElsewhere(r)
  <2>1. qh'[r].pc \notin {"statquar", "remove", "finish"}
    BY <1>1 DEF Starts, GoesElsewhere, GoesTo
  <2> QED
    BY <2>1 DEF FinishesInactive, Q!At
<1>2. ASSUME Q!InFlight(r), Decides(r) PROVE FinishesInactive(r)'
  <2>n. PICK n \in Nodes : n = qh[r].n
    BY <1>2, <1>i DEF RequestsAlone, RequestAlone, Q!InFlight
  <2>1. ASSUME Q!StatObject(r), GoesTo(r, "statquar"), qh'[r].objectExists \/ objects[n] = None
        PROVE  FinishesInactive(r)'
    <3>1. UNCHANGED <<objects, quar>>
      BY <2>1 DEF Q!StatObject, Q!dirs
    <3>2. qh'[r].n = n /\ qh'[r].pc = "statquar"
      BY <2>1, <2>n DEF GoesTo
    <3>3. ASSUME quar'[n] # None, objects[n] = None PROVE Inactive(n)'
      BY <1>i, <3>1, <3>3 DEF NamesApart, Inactive
    <3> QED
      BY <2>1, <3>2, <3>3 DEF FinishesInactive, Q!At
  <2>2. ASSUME Q!StatQuarantine(r), GoesTo(r, "remove"), quar[n] # None
        PROVE  FinishesInactive(r)'
    BY <2>2, <2>n DEF Q!StatQuarantine, Q!dirs, GoesTo, FinishesInactive, Q!At
  <2>3. ASSUME Q!StatQuarantine(r), GoesTo(r, "finish"), quar[n] # None, ~qh[r].objectExists
        PROVE  FinishesInactive(r)'
    <3>1. UNCHANGED <<objects, quar>> /\ Inactive(n)
      BY <1>i, <2>3, <2>n DEF Q!StatQuarantine, Q!dirs, FinishesInactive, Q!At
    <3>2. qh'[r].n = n /\ qh'[r].pc = "finish"
      BY <2>3, <2>n DEF GoesTo
    <3>3. Inactive(n)'
      BY <3>1 DEF Inactive
    <3> QED
      BY <2>3, <3>1, <3>2, <3>3 DEF FinishesInactive, Q!At
  <2>4. ASSUME Q!LinkPayload(r), GoesTo(r, "remove"), quar'[n] # None
        PROVE  FinishesInactive(r)'
    BY <2>4, <2>n DEF GoesTo, FinishesInactive, Q!At
  <2>5. ASSUME Q!RemoveObject(r), GoesTo(r, "finish"), objects'[n] = None
        PROVE  FinishesInactive(r)'
    <3>1. UNCHANGED quar /\ quar[n] # None
      BY <1>i, <2>5, <2>n DEF Q!RemoveObject, FinishesInactive, Q!At
    <3>2. qh'[r].n = n /\ qh'[r].pc = "finish"
      BY <2>5, <2>n DEF GoesTo
    <3>3. Inactive(n)'
      BY <1>i, <2>5, <3>1 DEF NamesApart, Inactive
    <3> QED
      BY <3>1, <3>2, <3>3 DEF FinishesInactive, Q!At
  <2> QED
    BY <1>2, <2>n, <2>1, <2>2, <2>3, <2>4, <2>5 DEF Decides
<1> QED
  BY <1>i, <1>1, <1>2, RequestNext

\* A quarantine is put on record as done at the end of its request only.
LEMMA IsolationMove ==
  ASSUME QuarantineSerial, "statobj" \notin QuarantineFaults, DriveInductive, Isolation,
         NEW r \in QuarantineRequests, RequestActs(r), RequestMove(r)
  PROVE  Isolation'
<1>i. /\ DriveTypeOK /\ RequestsAlone /\ FinishesInactive(r)
      /\ qstate \in [Nodes -> Q!Claims \cup {None, Torn}]
  BY DEF DriveInductive, DriveTypeOK, Isolation
<1>1. ASSUME NEW q \in QuarantineRequests PROVE FinishesInactive(q)'
  BY OtherFinishes, OwnFinishes
<1>2. ASSUME NEW n \in Nodes, Q!IsQuarantined(n)' PROVE quar'[n] # None /\ Inactive(n)'
  <2>1. ASSUME Q!IsQuarantined(n) PROVE quar[n] # None /\ Inactive(n)
    BY <2>1 DEF Isolation, IsolatedIsInactive, Q!IsolatedIsInactive, Inactive
  <2>2. ASSUME qstate'[n] = qstate[n] PROVE Q!IsQuarantined(n)
    BY <1>2, <2>2 DEF Q!IsQuarantined, Q!Claimed
  <2>3. ASSUME Q!CreateExclusive(r) PROVE qstate'[n] = qstate[n]
    BY <1>2, <1>i, <2>3 DEF Q!CreateExclusive, Q!IsQuarantined, Q!Claimed
  <2>4. ASSUME Q!WritePending(r) PROVE qstate'[n] = qstate[n]
    <3>1. qstate' = [qstate EXCEPT ![qh[r].n] = Q!Claim(qh[r].op, "pending")]
      BY <2>4 DEF Q!WritePending
    <3>2. Q!Claim(qh[r].op, "pending").status # "quarantined"
      BY DEF Q!Claim
    <3> QED
      BY <1>2, <1>i, <3>1, <3>2 DEF Q!IsQuarantined
  <2>5. ASSUME Q!FinishState(r), qstate'[n] # qstate[n] PROVE quar[n] # None /\ Inactive(n)
    <3>1. qh[r].n = n /\ qh[r].pc = "finish"
      BY <1>i, <2>5 DEF Q!FinishState, Q!WriteAtomic, Q!At
    <3> QED
      BY <1>i, <3>1 DEF FinishesInactive, Q!At
  <2>6. quar[n] # None /\ Inactive(n)
    BY <2>1, <2>2, <2>3, <2>4, <2>5, StatesNext
  <2> QED
    BY <1>i, <2>6, InactiveMove
<1> QED
  BY <1>1, <1>2 DEF Isolation, IsolatedIsInactive, Q!IsolatedIsInactive, Inactive

\* Every step of the server keeps done quarantines isolated.
LEMMA IsolationStep ==
  ASSUME QuarantineSerial, "statobj" \notin QuarantineFaults, DriveInductive, Isolation,
         [DriveNext]_driveVars
  PROVE  Isolation'
<1>1. DriveTypeOK /\ RequestsAlone
  BY DEF DriveInductive
<1>2. CASE QuarantineStep
  BY <1>1, <1>2, QuarantineStepMoves, IsolationMove
<1>3. CASE UNCHANGED driveVars
  <2>1. UNCHANGED <<objects, quar, qstate, qh>>
    BY <1>3 DEF driveVars, vars, quarantineVars
  <2>2. ASSUME NEW r \in QuarantineRequests PROVE FinishesInactive(r)'
    BY <2>1 DEF Isolation, FinishesInactive, Inactive, Q!At
  <2>3. IsolatedIsInactive'
    BY <2>1 DEF Isolation, IsolatedIsInactive, Q!IsolatedIsInactive, Q!IsQuarantined, Q!Claimed
  <2> QED
    BY <2>2, <2>3 DEF Isolation
<1> QED
  BY <1>2, <1>3, IsolationUpload, IsolationRestart DEF DriveNext

\* None is on record at first.
LEMMA IsolationInit == DriveInit => Isolation
<1> SUFFICES ASSUME DriveInit PROVE Isolation
  OBVIOUS
<1>1. /\ \A r \in QuarantineRequests : qh[r].pc = "idle"
      /\ \A n \in Nodes : qstate[n] = None
  BY DEF DriveInit, Q!Idle
<1>2. ASSUME NEW r \in QuarantineRequests PROVE FinishesInactive(r)
  BY <1>1 DEF FinishesInactive, Q!At
<1>3. IsolatedIsInactive
  BY <1>1 DEF IsolatedIsInactive, Q!IsolatedIsInactive, Q!IsQuarantined, Q!Claimed
<1> QED
  BY <1>2, <1>3 DEF Isolation

\* A quarantine on record as done holds a payload that no node serves, also
\* when its node has been published again (ApplyQuarantine beside Finalize):
\* unless requests overlap on the node, or the stat of the object failed, which
\* is taken for no object.
THEOREM IsolatedStaysInactive ==
  ASSUME Serial, ~Durable, "unlink" \notin Faults,
         QuarantineSerial, "statobj" \notin QuarantineFaults
  PROVE  DriveSpec => []IsolatedIsInactive
<1>1. DriveInductive /\ Isolation /\ [DriveNext]_driveVars => Isolation'
  BY IsolationStep
<1>2. Isolation => IsolatedIsInactive
  BY DEF Isolation
<1> QED
  BY <1>1, <1>2, IsolationInit, DriveInvariant, PTL DEF DriveSpec
-----------------------------------------------------------------------------
(* The evidence of a release. *)

\* Releases happen by steps of the uploads, which stand behind the gate.
LEMMA SoundDriveStep ==
  ASSUME Sound, ReleasedOnlyInspected, [DriveNext]_driveVars
  PROVE  Sound' /\ ReleasedOnlyInspected'
<1>1. CASE UploadStep \/ RestartServer \/ UNCHANGED driveVars
  <2>1. [Next]_vars
    BY <1>1, UploadStepMoves, RestartServerMoves, IdlesMove DEF UploadMove
  <2> QED
    BY <2>1, SoundStep, ReleasedOnlyInspectedStep
<1>2. CASE QuarantineStep
  <2>1. UNCHANGED <<clock, repo, staging, data, h, pub, acked>>
    BY <1>2 DEF QuarantineStep, hist
  <2>2. \/ UNCHANGED objects
        \/ \E r \in QuarantineRequests : objects' = [objects EXCEPT ![qh[r].n] = None]
    BY <1>2 DEF QuarantineStep, Q!Read, Q!MoveToTrash, Q!Apply, Q!Start, Q!ApplyStep, Q!ReadStep,
       Q!TrashStep, Q!Fail, Q!ReadState, Q!CheckQuarantine, Q!CheckObject, Q!CreateExclusive,
       Q!WritePending, Q!SyncPending, Q!Reread, Q!StatObject, Q!StatQuarantine, Q!LinkPayload,
       Q!RemoveObject, Q!FinishState, Q!ReadBack, Q!ReadAbsent, Q!ReadPayload, Q!ReadObject,
       Q!TrashLink, Q!TrashRemove, Q!dirs
  <2>3. objects' \in [Nodes -> Inodes \cup {None}]
    BY <2>2 DEF Sound, TypeOK
  <2>4. TypeOK'
    BY <2>1, <2>3 DEF Sound, TypeOK
  <2> QED
    BY <2>1, <2>4, SoundUnchanged DEF ReleasedOnlyInspected, Sound
<1> QED
  BY <1>1, <1>2 DEF DriveNext

\* Nothing reaches the object namespace but on current, clean evidence, also
\* when a node is published again after a quarantine or a move to trash, with
\* requests that overlap, with sessions in memory or in PostgreSQL, and
\* whichever calls fail (Complete, EvaluateUpload).
THEOREM ReleasesStayInspected == DriveSpec => []ReleasedOnlyInspected
<1>1. DriveInit => Sound /\ ReleasedOnlyInspected
  BY InitInductive, InductiveIsSound DEF DriveInit, Inductive
<1>2. Sound /\ ReleasedOnlyInspected /\ [DriveNext]_driveVars => Sound' /\ ReleasedOnlyInspected'
  BY SoundDriveStep
<1> QED
  BY <1>1, <1>2, PTL DEF DriveSpec
=============================================================================
