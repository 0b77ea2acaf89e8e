--------------------------- MODULE UploadsProofs ---------------------------
(***************************************************************************)
(* Proofs about Uploads, for every set of uploads, nodes, requests and     *)
(* inodes, every body, every verdict and every pattern of failures.        *)
(***************************************************************************)
EXTENDS Uploads, ScanEvidenceProofs

USE DEF At

\* Content resized is content of the size asked for.
LEMMA ResizeType ==
  ASSUME NEW s \in Content, NEW n \in Nat
  PROVE  Resize(s, n) \in Content /\ Len(Resize(s, n)) = n
<1>1. Len(s) \in Nat /\ \A i \in 1..Len(s) : s[i] \in Byte
  BY DEF Content
<1>2. ASSUME NEW i \in 1..n PROVE (IF i <= Len(s) THEN s[i] ELSE Zero) \in Byte
  <2>1. CASE i <= Len(s)
    BY <1>1, <2>1
  <2>2. CASE ~(i <= Len(s))
    BY <2>2, ValuesAssumption
  <2> QED BY <2>1, <2>2
<1>3. Resize(s, n) \in [1..n -> Byte]
  BY <1>2 DEF Resize
<1> QED
  BY <1>3 DEF Content

\* A block written into content, wherever it goes, gives content.
LEMMA WriteAtType ==
  ASSUME NEW s \in Content, NEW p \in Nat, NEW b \in Byte
  PROVE  WriteAt(s, p, b) \in Content
<1> DEFINE n == IF p < Len(s) THEN Len(s) ELSE p + 1
<1>1. Len(s) \in Nat
  BY DEF Content
<1>2. n \in Nat /\ p + 1 \in 1..n
  BY <1>1
<1>3. Resize(s, n) \in Content /\ Len(Resize(s, n)) = n
  BY <1>2, ResizeType
<1> HIDE DEF n
<1>4. [Resize(s, n) EXCEPT ![p + 1] = b] \in Content
  BY <1>2, <1>3 DEF Content
<1> QED
  BY <1>4 DEF WriteAt, n

\* What a releasing decision of Evaluate rests on.
LEMMA ReleaseConditions ==
  ASSUME NEW resource, NEW action, NEW envelope, NEW now,
         Evaluate(resource, action, envelope, now).canRelease
  PROVE  /\ EqualFold(envelope.digest, resource.digest)
         /\ envelope.record.scopeID = ResourceID(resource)
         /\ ~(envelope.record.observed > now)
         /\ ~(now > envelope.record.until)
         /\ envelope.record.result = "clean"
         /\ envelope.record.refs # 0
<1>1. /\ \A i \in 1..10 : ~Checks(resource, action, envelope, now)[i].fails
      /\ Evaluate(resource, action, envelope, now) = Judge(action, envelope.record, now)
  BY EvaluateCases, BlockDenies
<1>2. /\ envelope.record.result = "clean" /\ envelope.record.refs # 0
      /\ ~(now > envelope.record.until)
  BY <1>1, Judgements
<1> QED
  BY <1>1, <1>2, ChecksPass

\* The scanner's answer about a node, on the bytes it inspected.
LEMMA ScanEnvelopeType ==
  ASSUME NEW n \in Nodes, NEW inspected \in Content, NEW v \in Verdicts, clock \in Nat
  PROVE  ScanEnvelope(n, inspected, v) \in Envelope
<1>1. /\ v.result \in Results /\ v.refs \in Nat
      /\ clock + v.observed \in Int /\ clock + v.until \in Int
  BY VerdictsAssumption
<1>2. HexDigest(inspected) \in Digests
  BY DEF HexDigest, Digests
<1>3. <<"s", n>> \in ScopeIDs
  BY DEF ScopeIDs
<1>4. ASSUME NEW o \in Int, NEW t \in Int, NEW res \in Results, NEW k \in Nat,
             NEW scope \in ScopeIDs
      PROVE  [version |-> RuntimeContractVersion, type |-> ScanRecordType,
              authoritative |-> TRUE, producer |-> "wardveil",
              scopeType |-> DriveFileResourceType, scopeID |-> scope,
              observed |-> o, until |-> t, result |-> res, refs |-> k] \in ScanRecord
  BY DEF ScanRecord
<1>5. ScanEnvelope(n, inspected, v).record \in ScanRecord
  BY <1>1, <1>3, <1>4 DEF ScanEnvelope
<1> QED
  BY <1>2, <1>3, <1>5 DEF Envelope, ScanEnvelope

\* A publication is not the absence of one.
LEMMA PublicationIsSome == \A p \in Publication : p # None
BY NoneAssumption

-----------------------------------------------------------------------------
(* Types. *)

\* The initial state has the declared types.
LEMMA InitType == Init => TypeOK
<1> SUFFICES ASSUME Init PROVE TypeOK
  OBVIOUS
<1>1. << >> \in Content
  BY DEF Content
<1>2. NoSession \in Session
  BY DEF NoSession, Session
<1>3. Idle \in Handler
  BY <1>1, <1>2 DEF Idle, Handler, PCs
<1> QED
  BY <1>1, <1>2, <1>3 DEF Init, TypeOK

\* Every step keeps the types, given what the handlers rely on.
LEMMA TypeStep ==
  ASSUME TypeOK, HandlersOK, IssuedHaveNodes, [Next]_vars
  PROVE  TypeOK'
<1> USE DEF files, hist
<1>e. << >> \in Content
  BY DEF Content
<1>s. NoSession \in Session
  BY DEF NoSession, Session
<1>i. Idle \in Handler
  BY <1>e, <1>s DEF Idle, Handler, PCs
<1>h. ASSUME NEW r \in Requests, NEW l \in Handler, Become(r, l)
      PROVE  h' \in [Requests -> Handler]
  BY <1>h DEF Become, TypeOK
<1>1. CASE UNCHANGED vars
  BY <1>1 DEF vars, TypeOK
<1>2. CASE Tick
  BY <1>2 DEF Tick, TypeOK
<1>3. CASE Restart
  <2>1. repo' \in [UploadIDs -> Session]
    BY <1>3 DEF Restart, TypeOK, Session
  <2> QED BY <1>3, <1>i, <2>1 DEF Restart, TypeOK
<1>4. ASSUME NEW u \in UploadIDs, Expire(u) PROVE TypeOK'
  BY <1>4 DEF Expire, TypeOK
<1>5. ASSUME NEW u \in UploadIDs, NEW n \in Nodes, Create(u, n) PROVE TypeOK'
  <2>1. [node |-> n, offset |-> 0, state |-> "active", expires |-> clock + TTL] \in Session
    BY BoundsAssumption DEF Session, TypeOK
  <2> QED BY <1>5, <2>1 DEF Create, TypeOK
<1>6. ASSUME NEW r \in Requests, NEW u \in UploadIDs, StartComplete(r, u) PROVE TypeOK'
  <2>1. [Idle EXCEPT !.pc = "openhash", !.u = u, !.sess = repo[u]] \in Handler
    BY <1>e DEF Idle, Handler, PCs, CompletePCs, OpenPCs, TypeOK
  <2> QED BY <1>6, <2>1 DEF StartComplete, Become, TypeOK
<1>7. ASSUME NEW r \in Requests, NEW u \in UploadIDs, NEW body \in Bodies, StartAppend(r, u, body)
      PROVE  TypeOK'
  <2>1. body \in Content
    BY ValuesAssumption DEF Content
  <2>2. [Idle EXCEPT !.pc = "open", !.u = u, !.sess = repo[u], !.body = body] \in Handler
    BY <1>e, <2>1 DEF Idle, Handler, PCs, AppendPCs, TypeOK
  <2> QED BY <1>7, <2>2 DEF StartAppend, Become, TypeOK
<1>8. ASSUME NEW r \in Requests, OpenAppend(r) PROVE TypeOK'
  <2>1. /\ h[r] \in Handler
        /\ h[r].u \in UploadIDs
    BY <1>8 DEF OpenAppend, HandlersOK, SessionKnown, TypeOK
  <2>2. \A i \in Inodes :
          [h[r] EXCEPT !.pc = "write", !.fd = i, !.pos = h[r].sess.offset] \in Handler
    BY <2>1 DEF Handler, Session, PCs, AppendPCs
  <2>3. staging[h[r].u] \in Inodes \cup {None}
    BY <2>1 DEF TypeOK
  <2>4. h' \in [Requests -> Handler]
    BY <1>8, <1>i, <1>h, <2>2, <2>3 DEF OpenAppend, Finish, Free
  <2>5. staging' \in [UploadIDs -> Inodes \cup {None}]
    BY <1>8 DEF OpenAppend, TypeOK, Free
  <2>6. data' \in [Inodes -> Content]
    BY <1>8, <1>e DEF OpenAppend, TypeOK, Free
  <2> QED BY <1>8, <2>4, <2>5, <2>6 DEF OpenAppend, TypeOK
<1>9. ASSUME NEW r \in Requests, WriteBlock(r) PROVE TypeOK'
  <2>1. h[r] \in Handler /\ h[r].fd \in Inodes
    BY <1>9 DEF WriteBlock, HandlersOK, WriterInBounds, TypeOK
  <2>2. /\ h[r].pos \in Nat /\ h[r].sess.offset \in Nat /\ h[r].body \in Content
        /\ Len(h[r].body) \in Nat
    BY <2>1 DEF Handler, Session, Content
  <2>3. Written(r) + 1 \in 1..Len(h[r].body)
    BY <1>9, <2>2 DEF WriteBlock, Written, HandlersOK, WriterInBounds
  <2>4. h[r].body[Written(r) + 1] \in Byte
    BY <2>2, <2>3 DEF Content
  <2>5. data[h[r].fd] \in Content
    BY <2>1 DEF TypeOK
  <2>6. WriteAt(data[h[r].fd], h[r].pos, h[r].body[Written(r) + 1]) \in Content
    BY <2>2, <2>4, <2>5, WriteAtType
  <2>7. data' \in [Inodes -> Content]
    BY <1>9, <2>1, <2>6 DEF WriteBlock, TypeOK
  <2>8. [h[r] EXCEPT !.pos = @ + 1] \in Handler
    BY <2>1 DEF Handler
  <2> QED BY <1>9, <1>h, <2>7, <2>8 DEF WriteBlock, TypeOK
<1>10. ASSUME NEW r \in Requests, EndWrite(r) PROVE TypeOK'
  <2>1. h[r] \in Handler /\ h[r].fd \in Inodes
    BY <1>10 DEF EndWrite, HandlersOK, WriterInBounds, TypeOK
  <2>2. data[h[r].fd] \in Content /\ h[r].sess.offset \in Nat
    BY <2>1 DEF TypeOK, Handler, Session
  <2>3. Resize(data[h[r].fd], h[r].sess.offset) \in Content
    BY <2>2, ResizeType
  <2>4. data' \in [Inodes -> Content]
    BY <1>10, <2>1, <2>3 DEF EndWrite, TypeOK
  <2>5. [h[r] EXCEPT !.pc = "update", !.fd = None, !.sess.offset = h[r].pos] \in Handler
    BY <2>1 DEF Handler, Session, PCs, AppendPCs
  <2>6. h' \in [Requests -> Handler]
    BY <1>10, <1>i, <1>h, <2>5 DEF EndWrite, Finish
  <2> QED BY <1>10, <2>4, <2>6 DEF EndWrite, TypeOK
<1>11. ASSUME NEW r \in Requests, UpdateOffset(r) PROVE TypeOK'
  <2>1. h[r] \in Handler /\ h[r].u \in UploadIDs /\ Len(h[r].body) <= h[r].pos
    BY <1>11 DEF UpdateOffset, HandlersOK, WriterInBounds, SessionKnown, TypeOK
  <2>2. h[r].body \in Content /\ h[r].pos \in Nat /\ h[r].sess \in Session
    BY <2>1 DEF Handler
  <2>3. h[r].pos - Len(h[r].body) \in Nat
    BY <2>1, <2>2 DEF Content
  <2>4. Resize(acked[h[r].u], h[r].pos - Len(h[r].body)) \in Content
    BY <2>1, <2>3, ResizeType DEF TypeOK
  <2>5. Resize(acked[h[r].u], h[r].pos - Len(h[r].body)) \o h[r].body \in Content
    BY <2>2, <2>4 DEF Content
  <2>6. repo' \in [UploadIDs -> Session]
    BY <1>11, <2>1, <2>2 DEF UpdateOffset, TypeOK
  <2>7. acked' \in [UploadIDs -> Content]
    BY <1>11, <2>1, <2>5 DEF UpdateOffset, TypeOK
  <2>8. h' \in [Requests -> Handler]
    BY <1>11, <1>i, <1>h DEF UpdateOffset, Finish
  <2> QED BY <1>11, <2>6, <2>7, <2>8 DEF UpdateOffset, TypeOK
<1>12. ASSUME NEW r \in Requests, OpenStaging(r) PROVE TypeOK'
  <2>1. h[r] \in Handler /\ h[r].u \in UploadIDs
    BY <1>12 DEF OpenStaging, OpenPCs, HandlersOK, SessionKnown, TypeOK
  <2>2. ASSUME NEW i \in Inodes, NEW pc \in ReadPCs
        PROVE  [h[r] EXCEPT !.fd = i, !.buf = << >>, !.pc = pc] \in Handler
    BY <2>1, <1>e DEF Handler, PCs, CompletePCs, ReadPCs
  <2>3. (CASE At(r, "openhash")   -> "hash"
           [] At(r, "openscan")   -> "scan"
           [] At(r, "openrehash") -> "rehash") \in ReadPCs
    BY <1>12 DEF OpenStaging, OpenPCs, ReadPCs
  <2>4. staging[h[r].u] \in Inodes \cup {None}
    BY <2>1 DEF TypeOK
  <2>5. h' \in [Requests -> Handler]
    BY <1>12, <1>i, <1>h, <2>2, <2>3, <2>4 DEF OpenStaging, Finish
  <2> QED BY <1>12, <2>5 DEF OpenStaging, TypeOK
<1>13. ASSUME NEW r \in Requests, ReadBlock(r) PROVE TypeOK'
  <2>1. h[r] \in Handler /\ h[r].fd \in Inodes
    BY <1>13 DEF ReadBlock, HandlersOK, WriterInBounds, TypeOK
  <2>2. h[r].buf \in Content /\ data[h[r].fd] \in Content
    BY <2>1 DEF Handler, TypeOK
  <2>3. Len(h[r].buf) + 1 \in 1..Len(data[h[r].fd])
    BY <1>13, <2>2 DEF ReadBlock, AllRead, Content
  <2>4. Append(h[r].buf, data[h[r].fd][Len(h[r].buf) + 1]) \in Content
    BY <2>2, <2>3 DEF Content
  <2>5. [h[r] EXCEPT !.buf = Append(@, data[h[r].fd][Len(@) + 1])] \in Handler
    BY <2>1, <2>4 DEF Handler
  <2> QED BY <1>13, <1>h, <2>5 DEF ReadBlock, TypeOK
<1>14. ASSUME NEW r \in Requests, EndHash(r) PROVE TypeOK'
  <2>1. [h[r] EXCEPT !.pc = "openscan", !.digest = h[r].buf, !.fd = None, !.buf = << >>] \in Handler
    <3>1. h[r] \in Handler
      BY DEF TypeOK
    <3> QED BY <1>e, <3>1 DEF Handler, PCs, CompletePCs, OpenPCs
  <2> QED BY <1>14, <1>h, <2>1 DEF EndHash, TypeOK
<1>15. ASSUME NEW r \in Requests, Scan(r) PROVE TypeOK'
  <2>1. h[r] \in Handler /\ h[r].sess.node \in Nodes /\ h[r].buf \in Content
    BY <1>15 DEF Scan, HandlersOK, SessionKnown, TypeOK, Handler
  <2>2. ASSUME NEW v \in Verdicts
        PROVE  ScanEnvelope(h[r].sess.node, h[r].buf, v) \in Envelope
    BY <2>1, ScanEnvelopeType DEF TypeOK
  <2>3. ASSUME NEW e \in Envelope
        PROVE  [h[r] EXCEPT !.pc = "evaluate", !.fd = None, !.buf = << >>, !.env = e] \in Handler
    BY <2>1, <1>e DEF Handler, PCs, CompletePCs
  <2>4. h' \in [Requests -> Handler]
    BY <1>15, <1>i, <1>h, <2>2, <2>3 DEF Scan, Finish
  <2> QED BY <1>15, <2>4 DEF Scan, TypeOK
<1>16. ASSUME NEW r \in Requests, EvaluateVerdict(r) PROVE TypeOK'
  <2>1. [h[r] EXCEPT !.pc = "openrehash", !.evalAt = clock] \in Handler
    <3>1. h[r] \in Handler /\ clock \in Nat
      BY DEF TypeOK
    <3> QED BY <3>1 DEF Handler, PCs, CompletePCs, OpenPCs
  <2>2. h' \in [Requests -> Handler]
    BY <1>16, <1>i, <1>h, <2>1 DEF EvaluateVerdict, Finish
  <2> QED BY <1>16, <2>2 DEF EvaluateVerdict, TypeOK
<1>17. ASSUME NEW r \in Requests, EndRehash(r) PROVE TypeOK'
  <2>1. [h[r] EXCEPT !.pc = "recheck", !.fd = None] \in Handler
    <3>1. h[r] \in Handler /\ clock \in Nat
      BY DEF TypeOK
    <3> QED BY <3>1 DEF Handler, PCs, CompletePCs
  <2>2. h' \in [Requests -> Handler]
    BY <1>17, <1>i, <1>h, <2>1 DEF EndRehash, Finish
  <2> QED BY <1>17, <2>2 DEF EndRehash, TypeOK
<1>18. ASSUME NEW r \in Requests, Recheck(r) PROVE TypeOK'
  <2>1. [h[r] EXCEPT !.pc = "link", !.checkedAt = clock] \in Handler
    <3>1. h[r] \in Handler /\ clock \in Nat
      BY DEF TypeOK
    <3> QED BY <3>1 DEF Handler, PCs, CompletePCs
  <2>2. h' \in [Requests -> Handler]
    BY <1>18, <1>i, <1>h, <2>1 DEF Recheck, Finish
  <2>3. staging' \in [UploadIDs -> Inodes \cup {None}]
    BY <1>18 DEF Recheck, TypeOK
  <2> QED BY <1>18, <2>2, <2>3 DEF Recheck, TypeOK
<1>19. ASSUME NEW r \in Requests, Link(r) PROVE TypeOK'
  <2>1. /\ h[r] \in Handler /\ h[r].u \in UploadIDs /\ h[r].sess.node \in Nodes
        /\ h[r].env \in Envelope
    BY <1>19 DEF Link, HandlersOK, SessionKnown, GateProgress, TypeOK
  <2>2. [h[r] EXCEPT !.pc = "unlink"] \in Handler
    BY <2>1 DEF Handler, PCs, CompletePCs
  <2>3. [by |-> h[r].u, digest |-> h[r].digest, after |-> h[r].buf, env |-> h[r].env,
         evalAt |-> h[r].evalAt, checkedAt |-> h[r].checkedAt] \in Publication
    BY <2>1 DEF Handler, Publication
  <2>4. pub' \in [Nodes -> Publication \cup {None}]
    BY <1>19, <2>1, <2>3 DEF Link, TypeOK
  <2>5. objects' \in [Nodes -> Inodes \cup {None}]
    BY <1>19, <2>1 DEF Link, TypeOK
  <2>6. h' \in [Requests -> Handler]
    BY <1>19, <1>i, <1>h, <2>2 DEF Link, Finish
  <2> QED BY <1>19, <2>4, <2>5, <2>6 DEF Link, TypeOK
<1>20. ASSUME NEW r \in Requests, Unlink(r) PROVE TypeOK'
  <2>1. [h[r] EXCEPT !.pc = "complete"] \in Handler
    <3>1. h[r] \in Handler /\ clock \in Nat
      BY DEF TypeOK
    <3> QED BY <3>1 DEF Handler, PCs, CompletePCs
  <2>2. h' \in [Requests -> Handler]
    BY <1>20, <1>i, <1>h, <2>1 DEF Unlink, Finish
  <2>3. staging' \in [UploadIDs -> Inodes \cup {None}]
    BY <1>20 DEF Unlink, TypeOK
  <2> QED BY <1>20, <2>2, <2>3 DEF Unlink, TypeOK
<1>21. ASSUME NEW r \in Requests, UpdateCompleted(r) PROVE TypeOK'
  <2>1. [h[r].sess EXCEPT !.state = "completed"] \in Session
    BY DEF TypeOK, Handler, Session
  <2>2. repo' \in [UploadIDs -> Session]
    BY <1>21, <2>1 DEF UpdateCompleted, TypeOK
  <2> QED BY <1>21, <1>i, <1>h, <2>2 DEF UpdateCompleted, Finish, TypeOK
<1>22. ASSUME NEW r \in Requests, Fail(r) PROVE TypeOK'
  BY <1>22, <1>i, <1>h DEF Fail, Finish, TypeOK
<1> QED
  BY <1>1, <1>2, <1>3, <1>4, <1>5, <1>6, <1>7, <1>8, <1>9, <1>10, <1>11, <1>12, <1>13, <1>14,
     <1>15, <1>16, <1>17, <1>18, <1>19, <1>20, <1>21, <1>22
  DEF Next, AppendStep, GateStep, FinalizeStep
-----------------------------------------------------------------------------
(* What a step may change. *)

\* Only Create, a restart and the two calls of repo.Update touch the sessions.
LEMMA RepoFrame ==
  ASSUME [Next]_vars
  PROVE  \/ UNCHANGED repo
         \/ Restart
         \/ \E u \in UploadIDs, n \in Nodes : Create(u, n)
         \/ \E r \in Requests : UpdateOffset(r) \/ UpdateCompleted(r)
BY DEF Next, vars, files, hist, AppendStep, GateStep, FinalizeStep, Tick, Expire, StartComplete,
       StartAppend, OpenAppend, WriteBlock, EndWrite, OpenStaging, ReadBlock, EndHash, Scan,
       EvaluateVerdict, EndRehash, Recheck, Link, Unlink, Fail

\* Only the link of a finalization touches the object directory.
LEMMA ObjectsFrame ==
  ASSUME [Next]_vars
  PROVE  UNCHANGED <<objects, pub>> \/ \E r \in Requests : Link(r)
BY DEF Next, vars, files, hist, AppendStep, GateStep, FinalizeStep, Tick, Expire, StartComplete,
       StartAppend, OpenAppend, WriteBlock, EndWrite, OpenStaging, ReadBlock, EndHash, Scan,
       EvaluateVerdict, EndRehash, Recheck, Unlink, Fail, Restart, Create, UpdateOffset,
       UpdateCompleted

\* Only an append, an expiry and a finalization touch the staging directory.
LEMMA StagingFrame ==
  ASSUME [Next]_vars
  PROVE  \/ UNCHANGED staging
         \/ \E u \in UploadIDs : Expire(u)
         \/ \E r \in Requests : OpenAppend(r) \/ Recheck(r) \/ Unlink(r)
BY DEF Next, vars, files, hist, AppendStep, GateStep, FinalizeStep, Tick, StartComplete,
       StartAppend, WriteBlock, EndWrite, OpenStaging, ReadBlock, EndHash, Scan,
       EvaluateVerdict, EndRehash, Link, Fail, Restart, Create, UpdateOffset, UpdateCompleted

\* Only a tick moves the clock.
LEMMA ClockFrame ==
  ASSUME [Next]_vars
  PROVE  UNCHANGED clock \/ Tick
BY DEF Next, vars, AppendStep, GateStep, FinalizeStep, Expire, StartComplete, StartAppend,
       OpenAppend, WriteBlock, EndWrite, OpenStaging, ReadBlock, EndHash, Scan, EvaluateVerdict,
       EndRehash, Recheck, Link, Unlink, Fail, Restart, Create, UpdateOffset, UpdateCompleted

\* The steps of a handler.
Acts(r) == \/ \E u \in UploadIDs : StartComplete(r, u)
           \/ \E u \in UploadIDs, body \in Bodies : StartAppend(r, u, body)
           \/ AppendStep(r) \/ GateStep(r) \/ FinalizeStep(r) \/ Fail(r)

\* Handlers change by a restart, or by a step of one of them.
LEMMA HandlersFrame ==
  ASSUME [Next]_vars
  PROVE  h' = h \/ Restart \/ \E r \in Requests : Acts(r)
BY DEF Next, vars, Acts, Tick, Expire, Create

\* A step of a handler touches that handler only.
LEMMA OthersUntouched ==
  ASSUME TypeOK, NEW r \in Requests, Acts(r)
  PROVE  \A q \in Requests : q # r => h'[q] = h[q]
<1>1. \E l : Become(r, l)
  BY DEF Acts, StartComplete, StartAppend, AppendStep, OpenAppend, WriteBlock, EndWrite,
         UpdateOffset, GateStep, OpenStaging, ReadBlock, EndHash, Scan, EvaluateVerdict, EndRehash,
         FinalizeStep, Recheck, Link, Unlink, UpdateCompleted, Fail, Finish
<1> QED
  BY <1>1 DEF Become, TypeOK

\* The node and the expiry of a session are settled when it is created, and
\* its identifier is never handed out again.
LEMMA SessionsSettled ==
  ASSUME TypeOK, HandlersOK, [Next]_vars, NEW u \in UploadIDs, Issued(u)
  PROVE  /\ Issued(u)'
         /\ repo'[u].node = repo[u].node
         /\ repo'[u].expires = repo[u].expires
<1>1. CASE UNCHANGED repo
  BY <1>1 DEF Issued
<1>2. CASE Restart
  <2>1. repo[u] \in Session
    BY DEF TypeOK
  <2>2. \/ repo'[u] = repo[u]
        \/ repo'[u] = [repo[u] EXCEPT !.state = "lost"]
    BY <1>2 DEF Restart, TypeOK
  <2> QED BY <2>1, <2>2 DEF Issued, Session
<1>3. ASSUME NEW v \in UploadIDs, NEW n \in Nodes, Create(v, n)
      PROVE  repo'[u] = repo[u]
  BY <1>3 DEF Create, Issued, TypeOK
<1>4. ASSUME NEW r \in Requests, UpdateOffset(r) \/ UpdateCompleted(r)
      PROVE  /\ Issued(u)'
             /\ repo'[u].node = repo[u].node
             /\ repo'[u].expires = repo[u].expires
  <2>1. /\ h[r].sess \in Session /\ h[r].sess.state = "active"
        /\ h[r].sess.node = repo[h[r].u].node
        /\ h[r].sess.expires = repo[h[r].u].expires
    BY <1>4 DEF UpdateOffset, UpdateCompleted, HandlersOK, SessionKnown, TypeOK, Handler
  <2>2. \/ repo'[u] = repo[u]
        \/ /\ u = h[r].u
           /\ \/ repo'[u] = h[r].sess
              \/ repo'[u] = [h[r].sess EXCEPT !.state = "completed"]
    BY <1>4 DEF UpdateOffset, UpdateCompleted, TypeOK
  <2> QED BY <2>1, <2>2 DEF Issued, Session
<1> QED
  BY <1>1, <1>2, <1>3, <1>4, RepoFrame DEF Issued

\* Time does not go back.
LEMMA ClockAdvances ==
  ASSUME TypeOK, [Next]_vars
  PROVE  clock' \in Nat /\ clock <= clock'
BY ClockFrame DEF Tick, TypeOK

\* A node that has been published keeps its object and its provenance.
LEMMA PublicationsSettled ==
  ASSUME TypeOK, HandlersOK, PublicationsMatch, [Next]_vars, NEW n \in Nodes,
         objects[n] # None
  PROVE  objects'[n] = objects[n] /\ pub'[n] = pub[n]
<1>1. ASSUME NEW r \in Requests, Link(r) PROVE objects'[n] = objects[n] /\ pub'[n] = pub[n]
  BY <1>1 DEF Link, TypeOK
<1> QED
  BY <1>1, ObjectsFrame
-----------------------------------------------------------------------------
(* What handlers rely on. *)

HandlerOK(r) == SessionKnown(r) /\ WriterInBounds(r) /\ GateProgress(r)

\* A handler that a step leaves where it is loses nothing: what it relies on
\* is settled.
LEMMA UntouchedHandler ==
  ASSUME TypeOK, HandlersOK, [Next]_vars,
         NEW q \in Requests, h'[q] = h[q]
  PROVE  HandlerOK(q)'
<1>1. SessionKnown(q)'
  BY SessionsSettled DEF HandlersOK, SessionKnown
<1>2. WriterInBounds(q)'
  BY DEF HandlersOK, WriterInBounds
<1>3. GateProgress(q)'
  <2>1. h[q] \in Handler /\ h[q].evalAt \in Nat /\ clock \in Nat
    BY DEF TypeOK, Handler
  <2> QED
    BY <2>1, ClockAdvances DEF HandlersOK, GateProgress
<1> QED
  BY <1>1, <1>2, <1>3 DEF HandlerOK

\* A handler that is idle relies on nothing.
LEMMA IdleHandler ==
  ASSUME NEW q \in Requests, h'[q] = Idle
  PROVE  HandlerOK(q)'
BY DEF HandlerOK, SessionKnown, WriterInBounds, GateProgress, Idle, ReadPCs

\* Every handler keeps what it relies on: the one that steps by what its step
\* established, the others because what they rely on is settled.
LEMMA HandlersStep ==
  ASSUME TypeOK, HandlersOK, IssuedHaveNodes, [Next]_vars
  PROVE  HandlersOK'
<1> USE DEF files, hist
<1>a. ASSUME NEW r \in Requests, NEW l, Become(r, l), HandlerOK(r)'
      PROVE  HandlersOK'
  <2>1. ASSUME NEW q \in Requests, q # r PROVE HandlerOK(q)'
    BY <1>a, <2>1, UntouchedHandler DEF Become, TypeOK
  <2> QED BY <1>a, <2>1 DEF HandlersOK, HandlerOK
<1>b. ASSUME NEW r \in Requests, Finish(r)
      PROVE  HandlersOK'
  <2>1. h'[r] = Idle
    BY <1>b DEF Finish, Become, TypeOK
  <2> QED BY <1>a, <1>b, <2>1, IdleHandler DEF Finish
<1>c. CASE UNCHANGED h
  BY <1>c, UntouchedHandler DEF HandlersOK, HandlerOK
<1>1. CASE Restart
  BY <1>1, IdleHandler DEF Restart, HandlersOK, HandlerOK
<1>2. ASSUME NEW r \in Requests, NEW u \in UploadIDs, NEW pc \in {"open", "openhash"},
             NEW l, Become(r, l), Get(r, u), l.pc = pc, l.u = u, l.sess = repo[u], UNCHANGED repo
      PROVE  HandlersOK'
  <2>1. h'[r] = l
    BY <1>2 DEF Become, TypeOK
  <2>2. SessionKnown(r)'
    BY <1>2, <2>1 DEF SessionKnown, Get, Issued, IssuedHaveNodes
  <2>3. WriterInBounds(r)' /\ GateProgress(r)'
    BY <1>2, <2>1 DEF WriterInBounds, GateProgress, ReadPCs
  <2> QED BY <1>a, <1>2, <2>2, <2>3 DEF HandlerOK
<1>3. ASSUME NEW r \in Requests, NEW u \in UploadIDs, StartComplete(r, u) PROVE HandlersOK'
  BY <1>3, <1>2 DEF StartComplete, Idle
<1>4. ASSUME NEW r \in Requests, NEW u \in UploadIDs, NEW body \in Bodies, StartAppend(r, u, body)
      PROVE  HandlersOK'
  BY <1>4, <1>2 DEF StartAppend, Idle
\* From here on, a handler moves on with the session copy that it has.
<1>d. ASSUME NEW r \in Requests, NEW l, Become(r, l), UNCHANGED repo, h[r].pc # "idle",
             l.u = h[r].u, l.sess.node = h[r].sess.node, l.sess.expires = h[r].sess.expires,
             l.sess.state = h[r].sess.state,
             WriterInBounds(r)' /\ GateProgress(r)'
      PROVE  HandlersOK'
  <2>1. h'[r] = l
    BY <1>d DEF Become, TypeOK
  <2>2. SessionKnown(r)'
    BY <1>d, <2>1 DEF HandlersOK, SessionKnown, Issued
  <2> QED BY <1>a, <1>d, <2>2 DEF HandlerOK
<1>5. ASSUME NEW r \in Requests, OpenAppend(r) PROVE HandlersOK'
  <2>1. /\ h[r] \in Handler /\ h[r].u \in UploadIDs
        /\ h[r].sess.offset \in Nat /\ Len(h[r].body) \in Nat
    <3>1. h[r] \in Handler /\ h[r].u \in UploadIDs
      BY <1>5 DEF OpenAppend, HandlersOK, SessionKnown, TypeOK
    <3> QED BY <3>1 DEF Handler, Session, Content
  <2>2. ASSUME NEW i \in Inodes,
               Become(r, [h[r] EXCEPT !.pc = "write", !.fd = i, !.pos = h[r].sess.offset])
        PROVE  HandlersOK'
    <3> DEFINE l == [h[r] EXCEPT !.pc = "write", !.fd = i, !.pos = h[r].sess.offset]
    <3>1. h'[r] = l
      BY <2>2 DEF Become, TypeOK
    <3>2. /\ l.pc = "write" /\ l.fd = i /\ l.pos = h[r].sess.offset /\ l.u = h[r].u
          /\ l.sess = h[r].sess /\ l.body = h[r].body
      BY <2>1 DEF Handler
    <3> HIDE DEF l
    <3>3. WriterInBounds(r)' /\ GateProgress(r)'
      BY <2>1, <3>1, <3>2 DEF WriterInBounds, GateProgress, ReadPCs
    <3> QED BY <1>5, <1>d, <2>2, <3>2, <3>3 DEF OpenAppend, l
  <2>3. staging[h[r].u] \in Inodes \cup {None}
    BY <2>1 DEF TypeOK
  <2> QED BY <1>5, <1>b, <2>2, <2>3 DEF OpenAppend, Free
<1>6. ASSUME NEW r \in Requests, WriteBlock(r) PROVE HandlersOK'
  <2> DEFINE l == [h[r] EXCEPT !.pos = @ + 1]
  <2>1. /\ h[r] \in Handler /\ h[r].pc = "write" /\ WriterInBounds(r)
        /\ h[r].sess.offset \in Nat /\ h[r].pos \in Nat /\ Len(h[r].body) \in Nat
    BY <1>6 DEF WriteBlock, HandlersOK, TypeOK, Handler, Session, Content
  <2>2. h'[r] = l
    BY <1>6 DEF WriteBlock, Become, TypeOK
  <2>3. /\ l.pc = "write" /\ l.fd = h[r].fd /\ l.pos = h[r].pos + 1 /\ l.u = h[r].u
        /\ l.sess = h[r].sess /\ l.body = h[r].body
    BY <2>1 DEF Handler
  <2> HIDE DEF l
  <2>4. WriterInBounds(r)'
    BY <1>6, <2>1, <2>2, <2>3 DEF WriterInBounds, ReadPCs, WriteBlock, Written
  <2>5. GateProgress(r)'
    BY <2>2, <2>3 DEF GateProgress
  <2> QED BY <1>6, <1>d, <2>1, <2>3, <2>4, <2>5 DEF WriteBlock, l
<1>7. ASSUME NEW r \in Requests, EndWrite(r) PROVE HandlersOK'
  <2> DEFINE l == [h[r] EXCEPT !.pc = "update", !.fd = None, !.sess.offset = h[r].pos]
  <2>1. /\ h[r] \in Handler /\ h[r].pc = "write" /\ WriterInBounds(r)
        /\ h[r].sess \in Session
        /\ h[r].sess.offset \in Nat /\ h[r].pos \in Nat /\ Len(h[r].body) \in Nat
    BY <1>7 DEF EndWrite, HandlersOK, TypeOK, Handler, Session, Content
  <2>2. CASE Become(r, l)
    <3>1. h'[r] = l
      BY <2>2 DEF Become, TypeOK
    <3>2. /\ l.pc = "update" /\ l.pos = h[r].pos /\ l.u = h[r].u /\ l.body = h[r].body
          /\ l.sess = [h[r].sess EXCEPT !.offset = h[r].pos]
      BY <2>1 DEF Handler
    <3>3. /\ l.sess.node = h[r].sess.node /\ l.sess.expires = h[r].sess.expires
          /\ l.sess.state = h[r].sess.state
      BY <2>1, <3>2 DEF Session
    <3> HIDE DEF l
    <3>4. Len(h[r].body) <= h[r].pos
      BY <1>7, <2>1 DEF EndWrite, Written
    <3>5. WriterInBounds(r)' /\ GateProgress(r)'
      BY <3>1, <3>2, <3>4 DEF WriterInBounds, ReadPCs, GateProgress
    <3> QED BY <1>7, <1>d, <2>1, <2>2, <3>2, <3>3, <3>5 DEF EndWrite
  <2> QED BY <1>7, <1>b, <2>2 DEF EndWrite
<1>8. ASSUME NEW r \in Requests, UpdateOffset(r) \/ UpdateCompleted(r) \/ Fail(r)
      PROVE  HandlersOK'
  BY <1>8, <1>b DEF UpdateOffset, UpdateCompleted, Fail
<1>9. ASSUME NEW r \in Requests, OpenStaging(r) PROVE HandlersOK'
  <2>1. h[r] \in Handler /\ h[r].u \in UploadIDs /\ h[r].pc \in OpenPCs /\ GateProgress(r)
    BY <1>9 DEF OpenStaging, OpenPCs, HandlersOK, SessionKnown, TypeOK
  <2>2. CASE staging[h[r].u] = None
    BY <1>9, <1>b, <2>2 DEF OpenStaging
  <2>3. CASE staging[h[r].u] # None
    <3>1. PICK i \in Inodes, pc \in ReadPCs :
            /\ Become(r, [h[r] EXCEPT !.fd = i, !.buf = << >>, !.pc = pc])
            /\ pc = "rehash" <=> h[r].pc = "openrehash"
      <4>1. staging[h[r].u] \in Inodes
        BY <2>1, <2>3 DEF TypeOK
      <4>2. (CASE At(r, "openhash")   -> "hash"
               [] At(r, "openscan")   -> "scan"
               [] At(r, "openrehash") -> "rehash") \in ReadPCs
        BY <2>1 DEF OpenPCs, ReadPCs
      <4>3. (CASE At(r, "openhash")   -> "hash"
               [] At(r, "openscan")   -> "scan"
               [] At(r, "openrehash") -> "rehash") = "rehash" <=> h[r].pc = "openrehash"
        BY <2>1 DEF OpenPCs
      <4> QED BY <1>9, <2>3, <4>1, <4>2, <4>3 DEF OpenStaging
    <3> DEFINE l == [h[r] EXCEPT !.fd = i, !.buf = << >>, !.pc = pc]
    <3>2. /\ l.pc = pc /\ l.fd = i /\ l.u = h[r].u /\ l.sess = h[r].sess
          /\ l.env = h[r].env /\ l.digest = h[r].digest /\ l.evalAt = h[r].evalAt
      BY <2>1 DEF Handler
    <3>3. h'[r] = l /\ clock' = clock
      BY <1>9, <3>1 DEF OpenStaging, Become, TypeOK
    <3> HIDE DEF l
    <3>4. WriterInBounds(r)'
      BY <3>2, <3>3 DEF WriterInBounds, ReadPCs
    <3>5. GateProgress(r)'
      BY <2>1, <3>1, <3>2, <3>3 DEF GateProgress, ReadPCs
    <3> QED BY <1>9, <1>d, <2>1, <3>1, <3>2, <3>4, <3>5 DEF OpenStaging, OpenPCs, l
  <2> QED BY <2>2, <2>3
<1>10. ASSUME NEW r \in Requests, ReadBlock(r) PROVE HandlersOK'
  <2>1. PICK b : Become(r, [h[r] EXCEPT !.buf = b])
    BY <1>10 DEF ReadBlock
  <2> DEFINE l == [h[r] EXCEPT !.buf = b]
  <2>2. h[r] \in Handler /\ h[r].pc \in ReadPCs /\ GateProgress(r) /\ WriterInBounds(r)
    BY <1>10 DEF ReadBlock, HandlersOK, TypeOK
  <2>3. /\ l.pc = h[r].pc /\ l.fd = h[r].fd /\ l.u = h[r].u /\ l.sess = h[r].sess
        /\ l.env = h[r].env /\ l.digest = h[r].digest /\ l.evalAt = h[r].evalAt
    BY <2>2 DEF Handler
  <2>4. h'[r] = l /\ clock' = clock
    BY <1>10, <2>1 DEF ReadBlock, Become, TypeOK
  <2> HIDE DEF l
  <2>5. WriterInBounds(r)'
    BY <2>2, <2>3, <2>4 DEF WriterInBounds, ReadPCs
  <2>6. GateProgress(r)'
    BY <2>2, <2>3, <2>4 DEF GateProgress, ReadPCs
  <2> QED BY <1>10, <1>d, <2>1, <2>2, <2>3, <2>5, <2>6 DEF ReadBlock, ReadPCs, l
<1>11. ASSUME NEW r \in Requests, EndHash(r) PROVE HandlersOK'
  <2> DEFINE l == [h[r] EXCEPT !.pc = "openscan", !.digest = h[r].buf, !.fd = None, !.buf = << >>]
  <2>1. h[r] \in Handler /\ h[r].pc = "hash"
    BY <1>11 DEF EndHash, TypeOK
  <2>2. l.pc = "openscan" /\ l.u = h[r].u /\ l.sess = h[r].sess
    BY <2>1 DEF Handler
  <2>3. h'[r] = l
    BY <1>11 DEF EndHash, Become, TypeOK
  <2> HIDE DEF l
  <2>4. WriterInBounds(r)' /\ GateProgress(r)'
    BY <2>2, <2>3 DEF WriterInBounds, GateProgress, ReadPCs
  <2> QED BY <1>11, <1>d, <2>1, <2>2, <2>4 DEF EndHash, l
<1>12. ASSUME NEW r \in Requests, Scan(r) PROVE HandlersOK'
  <2>1. /\ h[r] \in Handler /\ h[r].pc = "scan"
        /\ TypeOK'
    BY <1>12, TypeStep DEF Scan, TypeOK
  <2>2. ASSUME NEW e, Become(r, [h[r] EXCEPT !.pc = "evaluate", !.fd = None, !.buf = << >>, !.env = e]),
               e \in Envelope
        PROVE  HandlersOK'
    <3> DEFINE l == [h[r] EXCEPT !.pc = "evaluate", !.fd = None, !.buf = << >>, !.env = e]
    <3>1. l.pc = "evaluate" /\ l.u = h[r].u /\ l.sess = h[r].sess /\ l.env = e
      BY <2>1 DEF Handler
    <3>2. h'[r] = l
      BY <2>2 DEF Become, TypeOK
    <3> HIDE DEF l
    <3>3. WriterInBounds(r)' /\ GateProgress(r)'
      BY <2>2, <3>1, <3>2 DEF WriterInBounds, GateProgress, ReadPCs
    <3> QED BY <1>12, <1>d, <2>1, <2>2, <3>1, <3>3 DEF Scan, l
  <2>3. \A v \in Verdicts : ScanEnvelope(h[r].sess.node, h[r].buf, v) \in Envelope
    BY <1>12, ScanEnvelopeType DEF Scan, HandlersOK, SessionKnown, TypeOK, Handler
  <2> QED BY <1>12, <1>b, <2>2, <2>3 DEF Scan
<1>13. ASSUME NEW r \in Requests, EvaluateVerdict(r) PROVE HandlersOK'
  <2> DEFINE l == [h[r] EXCEPT !.pc = "openrehash", !.evalAt = clock]
  <2>1. h[r] \in Handler /\ h[r].pc = "evaluate" /\ h[r].env \in Envelope /\ clock \in Nat
    BY <1>13 DEF EvaluateVerdict, HandlersOK, GateProgress, TypeOK
  <2>2. CASE ~Evaluate(Resource(r), "upload_finalize", h[r].env, clock).canRelease
    BY <1>13, <1>b, <2>2 DEF EvaluateVerdict
  <2>3. CASE Evaluate(Resource(r), "upload_finalize", h[r].env, clock).canRelease
    <3>1. /\ EqualFold(h[r].env.digest, Resource(r).digest)
          /\ h[r].env.record.scopeID = ResourceID(Resource(r))
          /\ ~(h[r].env.record.observed > clock) /\ ~(clock > h[r].env.record.until)
          /\ h[r].env.record.result = "clean" /\ h[r].env.record.refs # 0
      BY <2>3, ReleaseConditions
    <3>2. /\ h[r].env.record.observed \in Int /\ h[r].env.record.until \in Int
          /\ h[r].env.record.refs \in Nat
      BY <2>1 DEF Envelope, ScanRecord
    <3>3. /\ h[r].env.digest.value = h[r].digest
          /\ h[r].env.record.scopeID = <<"s", h[r].sess.node>>
      BY <3>1 DEF EqualFold, Resource, ResourceID, HexDigest
    <3>4. /\ l.pc = "openrehash" /\ l.u = h[r].u /\ l.sess = h[r].sess /\ l.env = h[r].env
          /\ l.digest = h[r].digest /\ l.evalAt = clock
      BY <2>1 DEF Handler
    <3>5. Become(r, l) /\ h'[r] = l /\ clock' = clock
      BY <1>13, <2>3 DEF EvaluateVerdict, Become, TypeOK
    <3> HIDE DEF l
    <3>6. WriterInBounds(r)'
      BY <3>4, <3>5 DEF WriterInBounds, ReadPCs
    <3>7. GateProgress(r)'
      BY <2>1, <3>1, <3>2, <3>3, <3>4, <3>5 DEF GateProgress
    <3> QED BY <1>13, <1>d, <2>1, <3>4, <3>5, <3>6, <3>7 DEF EvaluateVerdict
  <2> QED BY <2>2, <2>3
<1>14. ASSUME NEW r \in Requests, EndRehash(r) PROVE HandlersOK'
  <2> DEFINE l == [h[r] EXCEPT !.pc = "recheck", !.fd = None]
  <2>1. h[r] \in Handler /\ h[r].pc = "rehash" /\ GateProgress(r)
    BY <1>14 DEF EndRehash, HandlersOK, TypeOK
  <2>2. CASE h[r].buf = h[r].digest
    <3>1. /\ l.pc = "recheck" /\ l.u = h[r].u /\ l.sess = h[r].sess /\ l.env = h[r].env
          /\ l.digest = h[r].digest /\ l.evalAt = h[r].evalAt /\ l.buf = h[r].buf
      BY <2>1 DEF Handler
    <3>2. Become(r, l) /\ h'[r] = l /\ clock' = clock
      BY <1>14, <2>2 DEF EndRehash, Become, TypeOK
    <3> HIDE DEF l
    <3>3. WriterInBounds(r)'
      BY <3>1, <3>2 DEF WriterInBounds, ReadPCs
    <3>4. GateProgress(r)'
      BY <2>1, <2>2, <3>1, <3>2 DEF GateProgress
    <3> QED BY <1>14, <1>d, <2>1, <3>1, <3>2, <3>3, <3>4 DEF EndRehash
  <2> QED BY <1>14, <1>b, <2>2 DEF EndRehash
<1>15. ASSUME NEW r \in Requests, Recheck(r) PROVE HandlersOK'
  <2> DEFINE l == [h[r] EXCEPT !.pc = "link", !.checkedAt = clock]
  <2>1. /\ h[r] \in Handler /\ h[r].pc = "recheck" /\ GateProgress(r) /\ clock \in Nat
        /\ h[r].sess.expires \in Nat
    BY <1>15 DEF Recheck, HandlersOK, TypeOK, Handler, Session
  <2>2. CASE ~IsExpired(h[r].sess)
    <3>1. /\ l.pc = "link" /\ l.u = h[r].u /\ l.sess = h[r].sess /\ l.env = h[r].env
          /\ l.digest = h[r].digest /\ l.evalAt = h[r].evalAt /\ l.buf = h[r].buf
          /\ l.checkedAt = clock
      BY <2>1 DEF Handler
    <3>2. Become(r, l) /\ h'[r] = l /\ clock' = clock
      BY <1>15, <2>2 DEF Recheck, Become, TypeOK
    <3> HIDE DEF l
    <3>3. WriterInBounds(r)'
      BY <3>1, <3>2 DEF WriterInBounds, ReadPCs
    <3>4. GateProgress(r)'
      BY <2>1, <2>2, <3>1, <3>2 DEF GateProgress, IsExpired
    <3> QED BY <1>15, <1>d, <2>1, <3>1, <3>2, <3>3, <3>4 DEF Recheck
  <2> QED BY <1>15, <1>b, <2>2 DEF Recheck
<1>16. ASSUME NEW r \in Requests, Link(r) PROVE HandlersOK'
  <2> DEFINE l == [h[r] EXCEPT !.pc = "unlink"]
  <2>1. h[r] \in Handler /\ h[r].pc = "link" /\ h[r].sess.node \in Nodes
    BY <1>16 DEF Link, HandlersOK, SessionKnown, TypeOK
  <2>2. CASE staging[h[r].u] # None /\ objects[h[r].sess.node] = None
    <3>1. l.pc = "unlink" /\ l.u = h[r].u /\ l.sess = h[r].sess
      BY <2>1 DEF Handler
    <3>2. Become(r, l) /\ h'[r] = l
      BY <1>16, <2>2 DEF Link, Become, TypeOK
    <3> HIDE DEF l
    <3>3. WriterInBounds(r)' /\ GateProgress(r)'
      BY <3>1, <3>2 DEF WriterInBounds, GateProgress, ReadPCs
    <3> QED BY <1>16, <1>d, <2>1, <3>1, <3>2, <3>3 DEF Link
  <2> QED BY <1>16, <1>b, <2>2 DEF Link
<1>17. ASSUME NEW r \in Requests, Unlink(r) PROVE HandlersOK'
  <2> DEFINE l == [h[r] EXCEPT !.pc = "complete"]
  <2>1. h[r] \in Handler /\ h[r].pc = "unlink"
    BY <1>17 DEF Unlink, HandlersOK, TypeOK
  <2>2. CASE staging[h[r].u] # None
    <3>1. l.pc = "complete" /\ l.u = h[r].u /\ l.sess = h[r].sess
      BY <2>1 DEF Handler
    <3>2. Become(r, l) /\ h'[r] = l /\ pub' = pub
      BY <1>17, <2>2 DEF Unlink, Become, TypeOK
    <3> HIDE DEF l
    <3>3. WriterInBounds(r)' /\ GateProgress(r)'
      BY <2>1, <3>1, <3>2 DEF WriterInBounds, GateProgress, ReadPCs
    <3> QED BY <1>17, <1>d, <2>1, <3>1, <3>2, <3>3 DEF Unlink
  <2> QED BY <1>17, <1>b, <2>2 DEF Unlink
<1> QED
  BY <1>c, <1>1, <1>3, <1>4, <1>5, <1>6, <1>7, <1>8, <1>9, <1>10, <1>11, <1>12, <1>13, <1>14,
     <1>15, <1>16, <1>17
  DEF Next, AppendStep, GateStep, FinalizeStep, vars, Tick, Expire, Create

\* An issued session goes on having a node.
LEMMA IssuedHaveNodesStep == Sound /\ [Next]_vars => IssuedHaveNodes'
<1> SUFFICES ASSUME Sound, [Next]_vars, NEW u \in UploadIDs, Issued(u)'
             PROVE  repo'[u].node \in Nodes
  BY DEF IssuedHaveNodes
<1>1. CASE Issued(u)
  BY <1>1, SessionsSettled DEF Sound, IssuedHaveNodes
<1>2. CASE ~Issued(u)
  <2>1. CASE UNCHANGED repo
    BY <1>2, <2>1 DEF Issued
  <2>2. CASE Restart
    BY <1>2, <2>2 DEF Issued, Restart, Sound, TypeOK
  <2>3. ASSUME NEW v \in UploadIDs, NEW n \in Nodes, Create(v, n)
        PROVE  repo'[u].node \in Nodes
    BY <1>2, <2>3 DEF Create, Issued, Sound, TypeOK
  <2>4. ASSUME NEW r \in Requests, UpdateOffset(r) \/ UpdateCompleted(r)
        PROVE  repo'[u].node \in Nodes
    <3>1. Issued(h[r].u) /\ h[r].u \in UploadIDs
      BY <2>4 DEF UpdateOffset, UpdateCompleted, Sound, HandlersOK, SessionKnown
    <3> QED BY <1>2, <2>4, <3>1 DEF UpdateOffset, UpdateCompleted, Issued, Sound, TypeOK
  <2> QED BY <2>1, <2>2, <2>3, <2>4, RepoFrame
<1> QED
  BY <1>1, <1>2

\* Types and what handlers rely on hold whatever becomes of the objects.
LEMMA SoundStep ==
  ASSUME Sound, [Next]_vars
  PROVE  Sound'
BY TypeStep, HandlersStep, IssuedHaveNodesStep DEF Sound

LEMMA InductiveIsSound == Inductive => Sound
BY DEF Inductive, Sound
USE InductiveIsSound

\* A handler gets past the link by the link alone, and past the unlink by the
\* unlink.
LEMMA PastTheLink ==
  ASSUME TypeOK, NEW r \in Requests, Acts(r), h'[r].pc \in {"unlink", "complete"}
  PROVE  Link(r) \/ Unlink(r)
<1>t. h \in [Requests -> Handler] /\ h[r] \in Handler
  BY DEF TypeOK
<1>f. ~Finish(r)
  BY <1>t DEF Finish, Become, Idle
<1>1. \A u \in UploadIDs : ~StartComplete(r, u) /\ \A body \in Bodies : ~StartAppend(r, u, body)
  BY <1>t DEF StartComplete, StartAppend, Become, Idle
<1>2. ~OpenAppend(r) /\ ~WriteBlock(r) /\ ~EndWrite(r) /\ ~UpdateOffset(r)
  <2>1. ~OpenAppend(r)
    <3>1. ASSUME OpenAppend(r)
          PROVE  \E i : Become(r, [h[r] EXCEPT !.pc = "write", !.fd = i, !.pos = h[r].sess.offset])
      BY <1>f, <3>1 DEF OpenAppend
    <3>2. ASSUME NEW i, Become(r, [h[r] EXCEPT !.pc = "write", !.fd = i, !.pos = h[r].sess.offset])
          PROVE  h'[r].pc = "write"
      BY <1>t, <3>2 DEF Become, Handler
    <3> QED BY <3>1, <3>2
  <2>2. ~WriteBlock(r)
    <3>1. ASSUME WriteBlock(r) PROVE h'[r].pc = "write"
      BY <1>t, <3>1 DEF WriteBlock, Become, Handler, At
    <3> QED BY <3>1
  <2>3. ~EndWrite(r) /\ ~UpdateOffset(r)
    <3>1. ASSUME EndWrite(r)
          PROVE  Become(r, [h[r] EXCEPT !.pc = "update", !.fd = None, !.sess.offset = h[r].pos])
      BY <1>f, <3>1 DEF EndWrite
    <3>2. ASSUME Become(r, [h[r] EXCEPT !.pc = "update", !.fd = None, !.sess.offset = h[r].pos])
          PROVE  h'[r].pc = "update"
      BY <1>t, <3>2 DEF Become, Handler
    <3> QED BY <1>f, <3>1, <3>2 DEF UpdateOffset
  <2> QED BY <2>1, <2>2, <2>3
<1>3. ~OpenStaging(r)
  <2>1. ASSUME At(r, "openhash") \/ At(r, "openscan") \/ At(r, "openrehash")
        PROVE  (CASE At(r, "openhash")   -> "hash"
                  [] At(r, "openscan")   -> "scan"
                  [] At(r, "openrehash") -> "rehash") \in {"hash", "scan", "rehash"}
    BY <2>1 DEF At
  <2> QED BY <1>t, <1>f, <2>1 DEF OpenStaging, OpenPCs, Become, Handler, At
<1>4. ~ReadBlock(r) /\ ~EndHash(r)
  BY <1>t, <1>f DEF ReadBlock, EndHash, ReadPCs, Become, Handler
<1>5. ~Scan(r) /\ ~EvaluateVerdict(r) /\ ~EndRehash(r)
  BY <1>t, <1>f DEF Scan, EvaluateVerdict, EndRehash, Become, Handler
<1>6. ~Recheck(r) /\ ~UpdateCompleted(r) /\ ~Fail(r)
  BY <1>t, <1>f DEF Recheck, UpdateCompleted, Fail, Become, Handler
<1> QED
  BY <1>1, <1>2, <1>3, <1>4, <1>5, <1>6 DEF Acts, AppendStep, GateStep, FinalizeStep
-----------------------------------------------------------------------------
(* The safety properties. *)

\* The link of a finalization either leaves the objects alone or publishes the
\* staged file under the node of the session, on what the gate established.
LEMMA LinkEffect ==
  ASSUME Inductive, NEW r \in Requests, Link(r)
  PROVE  \/ UNCHANGED <<objects, pub>>
         \/ LET u == h[r].u
                n == h[r].sess.node
            IN /\ u \in UploadIDs /\ n \in Nodes /\ Issued(u) /\ repo[u].node = n
               /\ staging[u] # None /\ objects[n] = None /\ pub[n] = None
               /\ objects' = [objects EXCEPT ![n] = staging[u]]
               /\ pub' = [pub EXCEPT ![n] =
                     [by |-> u, digest |-> h[r].digest, after |-> h[r].buf, env |-> h[r].env,
                      evalAt |-> h[r].evalAt, checkedAt |-> h[r].checkedAt]]
               /\ pub'[n] \in Publication
<1>1. /\ h[r] \in Handler /\ h[r].u \in UploadIDs /\ h[r].sess.node \in Nodes
      /\ Issued(h[r].u) /\ repo[h[r].u].node = h[r].sess.node /\ h[r].env \in Envelope
  BY DEF Link, Inductive, HandlersOK, SessionKnown, GateProgress, TypeOK
<1>2. [by |-> h[r].u, digest |-> h[r].digest, after |-> h[r].buf, env |-> h[r].env,
       evalAt |-> h[r].evalAt, checkedAt |-> h[r].checkedAt] \in Publication
  BY <1>1 DEF Handler, Publication
<1> QED
  BY <1>1, <1>2 DEF Link, Inductive, PublicationsMatch, TypeOK

\* Past the link, the object of the node stays that of the upload.
LEMMA FinalizersOwnStep == Inductive /\ [Next]_vars => FinalizersOwn'
<1> SUFFICES ASSUME Inductive, [Next]_vars, NEW q \in Requests, h'[q].pc \in {"unlink", "complete"}
             PROVE  pub'[h'[q].sess.node] # None /\ pub'[h'[q].sess.node].by = h'[q].u
  BY DEF FinalizersOwn, FinalizerOwns
<1>t. h \in [Requests -> Handler] /\ h[q] \in Handler
  BY DEF Inductive, TypeOK
<1>1. ASSUME NEW n \in Nodes, pub[n] # None PROVE pub'[n] = pub[n]
  BY <1>1, PublicationsSettled DEF Inductive, PublicationsMatch
<1>2. CASE h'[q] = h[q]
  <2>1. h[q].sess.node \in Nodes /\ pub[h[q].sess.node] # None /\ pub[h[q].sess.node].by = h[q].u
    BY <1>2 DEF Inductive, HandlersOK, SessionKnown, FinalizersOwn, FinalizerOwns
  <2> QED BY <1>1, <1>2, <2>1
<1>3. CASE Link(q)
  <2>1. h'[q].u = h[q].u /\ h'[q].sess = h[q].sess /\ ~UNCHANGED <<objects, pub>>
    <3>1. Become(q, [h[q] EXCEPT !.pc = "unlink"]) /\ staging[h[q].u] # None
          /\ objects[h[q].sess.node] = None
          /\ objects' = [objects EXCEPT ![h[q].sess.node] = staging[h[q].u]]
      BY <1>t, <1>3 DEF Link, Finish, Become, Idle
    <3>2. h[q].sess.node \in Nodes
      BY <1>3 DEF Link, Inductive, HandlersOK, SessionKnown
    <3> QED BY <1>t, <3>1, <3>2 DEF Become, Handler, Inductive, TypeOK
  <2>2. /\ h[q].sess.node \in Nodes /\ pub'[h[q].sess.node] \in Publication
        /\ pub' = [pub EXCEPT ![h[q].sess.node] =
              [by |-> h[q].u, digest |-> h[q].digest, after |-> h[q].buf, env |-> h[q].env,
               evalAt |-> h[q].evalAt, checkedAt |-> h[q].checkedAt]]
    BY <1>3, <2>1, LinkEffect
  <2>3. pub'[h[q].sess.node].by = h[q].u
    BY <2>2 DEF Inductive, TypeOK
  <2> QED BY <2>1, <2>2, <2>3, PublicationIsSome
<1>4. CASE Unlink(q)
  <2>1. h'[q].u = h[q].u /\ h'[q].sess = h[q].sess /\ pub' = pub /\ h[q].pc = "unlink"
    BY <1>t, <1>4 DEF Unlink, Finish, Become, Idle, Handler, hist
  <2> QED BY <2>1 DEF Inductive, FinalizersOwn, FinalizerOwns
<1>5. CASE Restart
  BY <1>5 DEF Restart, Idle
<1> QED
  BY <1>2, <1>3, <1>4, <1>5, HandlersFrame, OthersUntouched, PastTheLink DEF Inductive

\* Objects and publications go on matching each other.
LEMMA PublicationsMatchStep == Inductive /\ [Next]_vars => PublicationsMatch'
<1> SUFFICES ASSUME Inductive, [Next]_vars, NEW n \in Nodes
             PROVE  /\ objects'[n] # None <=> pub'[n] # None
                    /\ pub'[n] # None => /\ repo'[pub'[n].by].state # "unissued"
                                       /\ repo'[pub'[n].by].node = n
  BY DEF PublicationsMatch, Issued
<1>1. ASSUME NEW u \in UploadIDs, Issued(u)
      PROVE  repo'[u].state # "unissued" /\ repo'[u].node = repo[u].node
  BY <1>1, SessionsSettled DEF Inductive, Issued
<1>2. CASE objects'[n] = objects[n] /\ pub'[n] = pub[n]
  <2>1. pub[n] # None => pub[n].by \in UploadIDs
    BY DEF Inductive, TypeOK, Publication
  <2> QED BY <1>1, <1>2, <2>1 DEF Inductive, PublicationsMatch
<1>3. ASSUME NEW r \in Requests, Link(r), ~(objects'[n] = objects[n] /\ pub'[n] = pub[n])
      PROVE  /\ objects'[n] # None <=> pub'[n] # None
             /\ pub'[n] # None => /\ repo'[pub'[n].by].state # "unissued"
                                       /\ repo'[pub'[n].by].node = n
  <2>1. /\ h[r].u \in UploadIDs /\ n = h[r].sess.node /\ Issued(h[r].u) /\ repo[h[r].u].node = n
        /\ staging[h[r].u] # None /\ objects'[n] = staging[h[r].u]
        /\ pub'[n].by = h[r].u /\ pub'[n] \in Publication
    <3> DEFINE m == h[r].sess.node
    <3>1. /\ h[r].u \in UploadIDs /\ m \in Nodes /\ Issued(h[r].u) /\ repo[h[r].u].node = m
          /\ staging[h[r].u] # None /\ objects' = [objects EXCEPT ![m] = staging[h[r].u]]
          /\ pub'[m] \in Publication
      BY <1>3, LinkEffect
    <3>2. pub' = [pub EXCEPT ![m] =
                    [by |-> h[r].u, digest |-> h[r].digest, after |-> h[r].buf, env |-> h[r].env,
                     evalAt |-> h[r].evalAt, checkedAt |-> h[r].checkedAt]]
      BY <1>3, LinkEffect
    <3>3. n = m
      BY <1>3, <3>1, <3>2 DEF Inductive, TypeOK
    <3>4. pub'[m].by = h[r].u
      BY <3>1, <3>2 DEF Inductive, TypeOK
    <3> QED BY <3>1, <3>3, <3>4 DEF Inductive, TypeOK
  <2> QED BY <2>1, <1>1, PublicationIsSome
<1> QED
  BY <1>2, <1>3, ObjectsFrame

\* Only a link publishes, and it stands behind the gate.
LEMMA ReleasedOnlyInspectedStep == Sound /\ ReleasedOnlyInspected /\ [Next]_vars => ReleasedOnlyInspected'
<1> SUFFICES ASSUME Sound, ReleasedOnlyInspected, [Next]_vars, NEW n \in Nodes, pub'[n] # None
             PROVE  LET record == pub'[n].env.record
                    IN /\ pub'[n].env.digest.value = pub'[n].digest
                       /\ pub'[n].after = pub'[n].digest
                       /\ record.result = "clean" /\ record.refs > 0
                       /\ record.scopeID = <<"s", n>>
                       /\ record.observed <= pub'[n].evalAt /\ pub'[n].evalAt <= record.until
  BY DEF ReleasedOnlyInspected
<1>1. CASE pub'[n] = pub[n]
  BY <1>1 DEF ReleasedOnlyInspected
<1>2. ASSUME NEW r \in Requests, Link(r), pub'[n] # pub[n]
      PROVE  LET record == pub'[n].env.record
             IN /\ pub'[n].env.digest.value = pub'[n].digest
                /\ pub'[n].after = pub'[n].digest
                /\ record.result = "clean" /\ record.refs > 0
                /\ record.scopeID = <<"s", n>>
                /\ record.observed <= pub'[n].evalAt /\ pub'[n].evalAt <= record.until
  <2>1. /\ n = h[r].sess.node
        /\ pub'[n] = [by |-> h[r].u, digest |-> h[r].digest, after |-> h[r].buf, env |-> h[r].env,
                      evalAt |-> h[r].evalAt, checkedAt |-> h[r].checkedAt]
    BY <1>2 DEF Link, Sound, TypeOK
  <2>2. GateProgress(r) /\ h[r].pc = "link"
    BY <1>2 DEF Link, Sound, HandlersOK
  <2> QED BY <2>1, <2>2 DEF GateProgress
<1> QED
  BY <1>1, <1>2, ObjectsFrame

\* Only a link publishes, and it stands behind the second look at the expiry.
LEMMA AliveWhenReleasedStep == Inductive /\ [Next]_vars => AliveWhenReleased'
<1> SUFFICES ASSUME Inductive, [Next]_vars, NEW n \in Nodes, pub'[n] # None
             PROVE  /\ pub'[n].evalAt <= pub'[n].checkedAt
                    /\ pub'[n].checkedAt < repo'[pub'[n].by].expires
  BY DEF AliveWhenReleased
<1>1. CASE pub'[n] = pub[n]
  <2>1. pub[n].by \in UploadIDs /\ Issued(pub[n].by)
    BY <1>1 DEF Inductive, TypeOK, Publication, PublicationsMatch
  <2>2. repo'[pub[n].by].expires = repo[pub[n].by].expires
    BY <2>1, SessionsSettled DEF Inductive
  <2> QED BY <1>1, <2>2 DEF Inductive, AliveWhenReleased
<1>2. ASSUME NEW r \in Requests, Link(r), pub'[n] # pub[n]
      PROVE  /\ pub'[n].evalAt <= pub'[n].checkedAt
             /\ pub'[n].checkedAt < repo'[pub'[n].by].expires
  <2>1. pub'[n] = [by |-> h[r].u, digest |-> h[r].digest, after |-> h[r].buf, env |-> h[r].env,
                   evalAt |-> h[r].evalAt, checkedAt |-> h[r].checkedAt]
    BY <1>2, LinkEffect DEF Inductive, TypeOK
  <2>2. GateProgress(r) /\ SessionKnown(r) /\ h[r].pc = "link" /\ repo' = repo
    BY <1>2 DEF Link, Inductive, HandlersOK
  <2> QED BY <2>1, <2>2 DEF GateProgress, SessionKnown
<1> QED
  BY <1>1, <1>2, ObjectsFrame

\* A session is recorded as completed only by the handler that linked its file.
LEMMA CompletedOwnsObjectStep == Inductive /\ [Next]_vars => CompletedOwnsObject'
<1> SUFFICES ASSUME Inductive, [Next]_vars, NEW u \in UploadIDs, repo'[u].state = "completed"
             PROVE  objects'[repo'[u].node] # None /\ pub'[repo'[u].node].by = u
  BY DEF CompletedOwnsObject
<1>1. ASSUME NEW n \in Nodes, objects[n] # None, pub[n].by = u, repo'[u].node = n
      PROVE  objects'[repo'[u].node] # None /\ pub'[repo'[u].node].by = u
  BY <1>1, PublicationsSettled DEF Inductive
<1>2. CASE repo'[u] = repo[u]
  <2>1. repo[u].node \in Nodes
    BY <1>2 DEF Inductive, IssuedHaveNodes, Issued
  <2> QED BY <1>1, <1>2, <2>1 DEF Inductive, CompletedOwnsObject
<1>3. CASE Restart
  <2>1. repo[u] \in Session
    BY DEF Inductive, TypeOK
  <2>2. repo'[u] = repo[u] \/ repo'[u] = [repo[u] EXCEPT !.state = "lost"]
    BY <1>3 DEF Restart, Inductive, TypeOK
  <2> QED BY <1>2, <2>1, <2>2 DEF Session
<1>4. ASSUME NEW v \in UploadIDs, NEW n \in Nodes, Create(v, n)
      PROVE  repo'[u] = repo[u]
  BY <1>4 DEF Create, Inductive, TypeOK
<1>5. ASSUME NEW r \in Requests, UpdateOffset(r)
      PROVE  repo'[u] = repo[u]
  <2>1. h[r].sess.state = "active"
    BY <1>5 DEF UpdateOffset, Inductive, HandlersOK, SessionKnown
  <2> QED BY <1>5, <2>1 DEF UpdateOffset, Inductive, TypeOK
<1>6. ASSUME NEW r \in Requests, UpdateCompleted(r), repo'[u] # repo[u]
      PROVE  objects'[repo'[u].node] # None /\ pub'[repo'[u].node].by = u
  <2>1. /\ u = h[r].u /\ repo'[u] = [h[r].sess EXCEPT !.state = "completed"]
        /\ h[r].sess \in Session
    BY <1>6 DEF UpdateCompleted, Inductive, TypeOK, Handler
  <2>2. repo'[u].node = h[r].sess.node
    BY <2>1 DEF Session
  <2>3. /\ h[r].sess.node \in Nodes /\ pub[h[r].sess.node] # None
        /\ pub[h[r].sess.node].by = u
    BY <1>6, <2>1 DEF UpdateCompleted, Inductive, HandlersOK, SessionKnown, FinalizersOwn, FinalizerOwns
  <2> QED BY <1>1, <2>2, <2>3 DEF Inductive, PublicationsMatch
<1> QED
  BY <1>2, <1>3, <1>4, <1>5, <1>6, RepoFrame

\* New staging files get fresh inodes, and a link stays with its own upload.
LEMMA StagingIsPrivateStep == Inductive /\ [Next]_vars => StagingIsPrivate'
<1> SUFFICES ASSUME Inductive, [Next]_vars PROVE StagingIsPrivate'
  OBVIOUS
<1>t. /\ staging \in [UploadIDs -> Inodes \cup {None}]
      /\ objects \in [Nodes -> Inodes \cup {None}]
  BY DEF Inductive, TypeOK
<1>p. /\ \A u, v \in UploadIDs : staging[u] # None /\ staging[u] = staging[v] => u = v
      /\ \A n, m \in Nodes : objects[n] # None /\ objects[n] = objects[m] => n = m
      /\ \A u \in UploadIDs, n \in Nodes :
           staging[u] # None /\ staging[u] = objects[n] => pub[n].by = u
  BY DEF Inductive, StagingIsPrivate
\* A step that only takes staging names away, or changes no directory.
<1>1. ASSUME UNCHANGED <<objects, pub>>,
             \A u \in UploadIDs : staging'[u] \in {None, staging[u]}
      PROVE  StagingIsPrivate'
  BY <1>1, <1>p DEF StagingIsPrivate
<1>2. ASSUME NEW u \in UploadIDs, Expire(u) PROVE StagingIsPrivate'
  BY <1>2, <1>1, <1>t DEF Expire, hist
<1>3. ASSUME NEW r \in Requests, Recheck(r) PROVE StagingIsPrivate'
  BY <1>3, <1>1, <1>t DEF Recheck, hist
<1>4. ASSUME NEW r \in Requests, Unlink(r) PROVE StagingIsPrivate'
  BY <1>4, <1>1, <1>t DEF Unlink, hist
\* A new staging file has an inode that nothing else reaches.
<1>5. ASSUME NEW r \in Requests, OpenAppend(r) PROVE StagingIsPrivate'
  <2>1. h[r].u \in UploadIDs /\ UNCHANGED <<objects, pub>>
    BY <1>5 DEF OpenAppend, Inductive, HandlersOK, SessionKnown, hist
  <2>2. CASE UNCHANGED staging
    BY <1>1, <2>1, <2>2
  <2>3. ASSUME NEW i \in Free, staging' = [staging EXCEPT ![h[r].u] = i]
        PROVE  StagingIsPrivate'
    <3>1. /\ \A u \in UploadIDs : staging[u] # i
          /\ \A n \in Nodes : objects[n] # i
      BY DEF Free
    <3>2. \A u \in UploadIDs : staging'[u] = IF u = h[r].u THEN i ELSE staging[u]
      BY <1>t, <2>3
    <3> QED BY <1>p, <2>1, <3>1, <3>2 DEF StagingIsPrivate
  <2> QED BY <1>5, <2>2, <2>3 DEF OpenAppend
\* A link shares the inode of an upload with the node of that upload.
<1>6. ASSUME NEW r \in Requests, Link(r) PROVE StagingIsPrivate'
  <2> DEFINE u == h[r].u
             n == h[r].sess.node
  <2>1. staging' = staging
    BY <1>6 DEF Link
  <2>2. CASE UNCHANGED <<objects, pub>>
    BY <1>1, <2>1, <2>2
  <2>3. CASE ~UNCHANGED <<objects, pub>>
    <3>1. /\ u \in UploadIDs /\ n \in Nodes /\ repo[u].node = n
          /\ staging[u] # None /\ objects' = [objects EXCEPT ![n] = staging[u]]
      BY <1>6, <2>3, LinkEffect
    <3>2. pub' = [pub EXCEPT ![n] =
                    [by |-> u, digest |-> h[r].digest, after |-> h[r].buf, env |-> h[r].env,
                     evalAt |-> h[r].evalAt, checkedAt |-> h[r].checkedAt]]
      BY <1>6, <2>3, LinkEffect
    <3>3. /\ \A m \in Nodes : objects'[m] = IF m = n THEN staging[u] ELSE objects[m]
          /\ \A m \in Nodes : m # n => pub'[m] = pub[m]
          /\ pub'[n].by = u
      BY <1>t, <3>1, <3>2 DEF Inductive, TypeOK
    <3>4. ASSUME NEW m \in Nodes, m # n PROVE objects[m] # staging[u]
      <4>1. SUFFICES ASSUME objects[m] = staging[u] PROVE FALSE
        OBVIOUS
      <4>2. pub[m].by = u /\ pub[m] # None
        BY <1>p, <3>1, <4>1 DEF Inductive, PublicationsMatch
      <4> QED BY <3>1, <3>4, <4>2 DEF Inductive, PublicationsMatch
    <3> HIDE DEF u, n
    <3>5. \A x, y \in UploadIDs : staging'[x] # None /\ staging'[x] = staging'[y] => x = y
      BY <1>p, <2>1
    <3>6. \A x, y \in Nodes : objects'[x] # None /\ objects'[x] = objects'[y] => x = y
      BY <1>p, <3>3, <3>4
    <3>7. \A x \in UploadIDs, m \in Nodes :
            staging'[x] # None /\ staging'[x] = objects'[m] => pub'[m].by = x
      BY <1>p, <2>1, <3>1, <3>3
    <3> QED BY <3>5, <3>6, <3>7 DEF StagingIsPrivate
  <2> QED BY <2>2, <2>3
<1>7. CASE UNCHANGED <<staging, objects, pub>>
  BY <1>1, <1>7
<1> QED
  BY <1>2, <1>3, <1>4, <1>5, <1>6, <1>7, ObjectsFrame, StagingFrame
-----------------------------------------------------------------------------
\* Before the first request nothing is staged, published or in flight.
LEMMA InitInductive == Init => Inductive
<1> SUFFICES ASSUME Init PROVE Inductive
  OBVIOUS
<1>1. TypeOK
  BY InitType
<1>2. \A u \in UploadIDs : ~Issued(u) /\ repo[u].state # "completed" /\ staging[u] = None
  BY DEF Init, Issued, NoSession
<1>3. \A n \in Nodes : objects[n] = None /\ pub[n] = None
  BY DEF Init
<1>4. HandlersOK
  BY DEF Init, HandlersOK, SessionKnown, WriterInBounds, GateProgress, Idle, ReadPCs
<1> QED
  BY <1>1, <1>2, <1>3, <1>4
  DEF Inductive, Init, FinalizersOwn, FinalizerOwns, Idle, PublicationsMatch, IssuedHaveNodes,
      ReleasedOnlyInspected, AliveWhenReleased, CompletedOwnsObject, StagingIsPrivate

\* No step of any handler, failure, restart or tick breaks the invariant.
LEMMA InductiveStep == Inductive /\ [Next]_vars => Inductive'
<1> SUFFICES ASSUME Inductive, [Next]_vars PROVE Inductive'
  OBVIOUS
<1>1. TypeOK' /\ HandlersOK' /\ IssuedHaveNodes'
  BY SoundStep, InductiveIsSound DEF Sound
<1> QED
  BY <1>1, FinalizersOwnStep, PublicationsMatchStep, ReleasedOnlyInspectedStep,
     AliveWhenReleasedStep, CompletedOwnsObjectStep, StagingIsPrivateStep
  DEF Inductive

\* The inductive invariant holds throughout: types, what each handler relies on
\* at each of its steps, and the safety properties themselves.
THEOREM InductiveHolds == Spec => []Inductive
BY InitInductive, InductiveStep, PTL DEF Spec

\* Every variable keeps its type however requests overlap, fail and are cut
\* short: no file is ever anything but a sequence of blocks.
THEOREM TypesHold == Spec => []TypeOK
<1>1. Inductive => TypeOK
  BY DEF Inductive
<1> QED BY <1>1, InductiveHolds, PTL

\* Nothing is published but on current, clean evidence about this node, bound
\* to the digest that Drive computed before the scan and again after it: the
\* release path of Complete and EvaluateUpload has no way around the gate.
THEOREM OnlyInspectedIsReleased == Spec => []ReleasedOnlyInspected
<1>1. Inductive => ReleasedOnlyInspected
  BY DEF Inductive
<1> QED BY <1>1, InductiveHolds, PTL

\* A publication comes from a session that was alive when Complete looked again
\* after the verdict.
THEOREM OnlyTheLivingRelease == Spec => []AliveWhenReleased
<1>1. Inductive => AliveWhenReleased
  BY DEF Inductive
<1> QED BY <1>1, InductiveHolds, PTL

\* A session on record as completed owns the object of its node; of several
\* sessions for one node at most one is ever told that it completed.
THEOREM CompletionIsOwnership == Spec => []CompletedOwnsObject
<1>1. Inductive => CompletedOwnsObject
  BY DEF Inductive
<1> QED BY <1>1, InductiveHolds, PTL

\* Two uploads never share a staged file, two nodes never share an object, and
\* a staged file is an object only under the node it was published to.
THEOREM StagingStaysPrivate == Spec => []StagingIsPrivate
<1>1. Inductive => StagingIsPrivate
  BY DEF Inductive
<1> QED BY <1>1, InductiveHolds, PTL

\* The first publication under a node settles its object for good.
THEOREM PublicationIsFinal == Spec => PublishedOnce
<1>1. Inductive /\ [Next]_vars
        => [\A n \in Nodes : objects[n] # None
              => objects'[n] = objects[n] /\ pub'[n] = pub[n]]_vars
  BY PublicationsSettled DEF Inductive
<1> QED BY <1>1, InductiveHolds, PTL DEF Spec, PublishedOnce
-----------------------------------------------------------------------------
(* A session is completed once, and only a late append puts its record back. *)

\* A handler is past the link because it was before, or because it has just
\* linked: then nothing stood under the node, so the session was not completed
\* and none of its other handlers was past the link.
LEMMA PastOrLinks ==
  ASSUME Inductive, [Next]_vars,
         NEW q \in Requests, h'[q].pc \in {"unlink", "complete"}
  PROVE  /\ h'[q].u = h[q].u /\ h[q].u \in UploadIDs
         /\ \/ h[q].pc \in {"unlink", "complete"}
            \/ /\ Acts(q)
               /\ repo[h[q].u].state # "completed"
               /\ \A p \in Requests : h[p].pc \in {"unlink", "complete"} => h[p].u # h[q].u
<1>t. h \in [Requests -> Handler] /\ h[q] \in Handler
  BY DEF Inductive, TypeOK
<1>1. CASE h'[q] = h[q]
  BY <1>1 DEF Inductive, HandlersOK, SessionKnown
<1>2. ASSUME Acts(q), h'[q] # h[q] PROVE Link(q) \/ Unlink(q)
  BY <1>2, PastTheLink DEF Inductive
<1>3. CASE Link(q)
  <2>1. /\ h'[q].u = h[q].u /\ h[q].pc = "link"
        /\ objects[h[q].sess.node] = None
    BY <1>t, <1>3 DEF Link, Finish, Become, Idle, Handler
  <2>2. /\ h[q].u \in UploadIDs /\ h[q].sess.node \in Nodes
        /\ h[q].sess.node = repo[h[q].u].node
    BY <2>1 DEF Inductive, HandlersOK, SessionKnown
  <2>3. repo[h[q].u].state # "completed"
    BY <2>1, <2>2 DEF Inductive, CompletedOwnsObject
  <2>4. ASSUME NEW p \in Requests, h[p].pc \in {"unlink", "complete"} PROVE h[p].u # h[q].u
    <3>1. pub[h[p].sess.node] # None /\ h[p].sess.node = repo[h[p].u].node
      BY <2>4 DEF Inductive, FinalizersOwn, FinalizerOwns, HandlersOK, SessionKnown
    <3>2. pub[h[q].sess.node] = None
      BY <2>1, <2>2 DEF Inductive, PublicationsMatch
    <3> QED
      BY <2>2, <3>1, <3>2
  <2> QED
    BY <1>3, <2>1, <2>2, <2>3, <2>4 DEF Acts, FinalizeStep
<1>4. CASE Unlink(q)
  <2>1. h'[q].u = h[q].u /\ h[q].pc = "unlink"
    BY <1>t, <1>4 DEF Unlink, Finish, Become, Idle, Handler
  <2> QED
    BY <2>1 DEF Inductive, HandlersOK, SessionKnown
<1>5. CASE Restart
  BY <1>5 DEF Restart, Idle
<1> QED
  BY <1>1, <1>2, <1>3, <1>4, <1>5, HandlersFrame, OthersUntouched DEF Inductive

LEMMA FinalizersAloneStep == Inductive /\ FinalizersAlone /\ [Next]_vars => FinalizersAlone'
<1> SUFFICES ASSUME Inductive, FinalizersAlone, [Next]_vars,
                    NEW r \in Requests, h'[r].pc \in {"unlink", "complete"}
             PROVE  /\ repo'[h'[r].u].state # "completed"
                    /\ \A q \in Requests :
                         h'[q].pc \in {"unlink", "complete"} /\ h'[q].u = h'[r].u => q = r
  BY DEF FinalizersAlone
<1> DEFINE u == h[r].u
<1>t. repo \in [UploadIDs -> Session] /\ h \in [Requests -> Handler]
  BY DEF Inductive, TypeOK
<1>u. h'[r].u = u /\ u \in UploadIDs
  BY PastOrLinks
<1>1. repo[u].state # "completed"
  BY PastOrLinks DEF FinalizersAlone
<1>2. repo'[u].state # "completed"
  <2>1. CASE Restart
    BY <2>1 DEF Restart, Idle
  <2>2. ASSUME NEW v \in UploadIDs, NEW n \in Nodes, Create(v, n) PROVE repo'[u].state # "completed"
    BY <1>t, <1>u, <1>1, <2>2 DEF Create
  <2>3. ASSUME NEW s \in Requests, UpdateOffset(s) PROVE repo'[u].state # "completed"
    <3>1. h[s].sess.state = "active"
      BY <2>3 DEF UpdateOffset, Inductive, HandlersOK, SessionKnown
    <3> QED
      BY <1>t, <1>u, <1>1, <2>3, <3>1 DEF UpdateOffset
  <2>4. ASSUME NEW s \in Requests, UpdateCompleted(s) PROVE repo'[u].state # "completed"
    <3>1. h'[s].pc = "idle" /\ h[s].pc = "complete" /\ h' = [h EXCEPT ![s] = Idle]
      BY <1>t, <2>4 DEF UpdateCompleted, Finish, Become, Idle
    <3>2. s # r
      BY <3>1
    <3>3. h[r].pc \in {"unlink", "complete"}
      BY <1>t, <3>1, <3>2
    <3>4. h[s].u # u
      BY <3>1, <3>2, <3>3 DEF FinalizersAlone
    <3> QED
      BY <1>t, <1>u, <1>1, <2>4, <3>4 DEF UpdateCompleted
  <2> QED
    BY <1>1, <2>1, <2>2, <2>3, <2>4, RepoFrame
<1>3. ASSUME NEW q \in Requests, h'[q].pc \in {"unlink", "complete"}, h'[q].u = h'[r].u
      PROVE  q = r
  <2> SUFFICES ASSUME q # r PROVE FALSE
    OBVIOUS
  <2>1. h[q].u = u
    BY <1>3, <1>u, PastOrLinks
  <2>2. CASE h[r].pc \in {"unlink", "complete"} /\ h[q].pc \in {"unlink", "complete"}
    BY <2>1, <2>2 DEF FinalizersAlone
  <2>3. CASE h[r].pc \notin {"unlink", "complete"}
    <3>1. /\ Acts(r)
          /\ \A p \in Requests : h[p].pc \in {"unlink", "complete"} => h[p].u # u
      BY <2>3, PastOrLinks
    <3>2. h'[q] = h[q]
      BY <3>1, OthersUntouched DEF Inductive
    <3> QED
      BY <1>3, <2>1, <3>1, <3>2
  <2>4. CASE h[q].pc \notin {"unlink", "complete"}
    <3>1. /\ Acts(q)
          /\ \A p \in Requests : h[p].pc \in {"unlink", "complete"} => h[p].u # h[q].u
      BY <1>3, <2>4, PastOrLinks
    <3>2. h'[r] = h[r]
      BY <3>1, OthersUntouched DEF Inductive
    <3> QED
      BY <2>1, <3>1, <3>2
  <2> QED
    BY <2>2, <2>3, <2>4
<1> QED
  BY <1>u, <1>2, <1>3

LEMMA RollBackStep ==
  ASSUME Inductive, FinalizersAlone, [Next]_vars,
         NEW u \in UploadIDs, repo[u].state = "completed", repo'[u] # repo[u]
  PROVE  \/ repo'[u].state = "lost"
         \/ /\ \E r \in Requests : At(r, "update") /\ h[r].u = u /\ repo'[u] = h[r].sess
            /\ repo'[u].state = "active"
            /\ objects'[repo[u].node] # None /\ pub'[repo[u].node].by = u
<1>t. repo \in [UploadIDs -> Session]
  BY DEF Inductive, TypeOK
<1>1. CASE Restart
  BY <1>1, <1>t DEF Restart, Session
<1>2. ASSUME NEW v \in UploadIDs, NEW n \in Nodes, Create(v, n) PROVE FALSE
  BY <1>2, <1>t DEF Create
<1>3. ASSUME NEW r \in Requests, UpdateCompleted(r) PROVE FALSE
  <2>1. h[r].u = u /\ h[r].pc = "complete"
    BY <1>3, <1>t DEF UpdateCompleted, At
  <2> QED
    BY <2>1 DEF FinalizersAlone
<1>4. ASSUME NEW r \in Requests, UpdateOffset(r)
      PROVE  /\ At(r, "update") /\ h[r].u = u /\ repo'[u] = h[r].sess
             /\ repo'[u].state = "active"
             /\ objects'[repo[u].node] # None /\ pub'[repo[u].node].by = u
  <2>1. At(r, "update") /\ h[r].u = u /\ repo'[u] = h[r].sess /\ UNCHANGED <<objects, pub>>
    BY <1>4, <1>t DEF UpdateOffset, files
  <2>2. h[r].sess.state = "active"
    BY <2>1 DEF At, Inductive, HandlersOK, SessionKnown
  <2> QED
    BY <2>1, <2>2 DEF Inductive, CompletedOwnsObject
<1> QED
  BY <1>1, <1>2, <1>3, <1>4, RepoFrame

\* Whatever overlaps, fails or is cut short, the record of a completed session
\* is put back only by an append that had read it before; no completion of it,
\* repeated or overlapping, and no request that starts later writes it, and
\* the file stays its own.
THEOREM RollBackIsByLateAppends == Spec => OnlyLateAppendsRollBack
<1>1. Init => Inductive /\ FinalizersAlone
  BY InitInductive DEF Init, FinalizersAlone, Idle
<1>2. Inductive /\ FinalizersAlone /\ [Next]_vars => (Inductive /\ FinalizersAlone)'
  BY InductiveStep, FinalizersAloneStep
<1>3. Inductive /\ FinalizersAlone /\ [Next]_vars =>
        [\A u \in UploadIDs :
           repo[u].state = "completed" /\ repo'[u] # repo[u] =>
             \/ repo'[u].state = "lost"
             \/ /\ \E r \in Requests : At(r, "update") /\ h[r].u = u /\ repo'[u] = h[r].sess
                /\ repo'[u].state = "active"
                /\ objects'[repo[u].node] # None /\ pub'[repo[u].node].by = u]_vars
  BY RollBackStep
<1> QED
  BY <1>1, <1>2, <1>3, PTL DEF Spec, OnlyLateAppendsRollBack
-----------------------------------------------------------------------------
(***************************************************************************)
(* Clients that send one request of a session at a time: what is published *)
(* is what was inspected and what was acknowledged stays stored, for every *)
(* number of uploads, nodes and handlers and contents of any length.       *)
(***************************************************************************)

(* Content. *)

\* Content joined to content.
LEMMA Joined ==
  ASSUME NEW s \in Content, NEW t \in Content
  PROVE  /\ s \o t \in Content /\ Len(s) \in Nat /\ Len(t) \in Nat
         /\ Len(s \o t) = Len(s) + Len(t)
         /\ \A k \in 1..Len(s) : (s \o t)[k] = s[k]
         /\ \A k \in 1..Len(t) : (s \o t)[Len(s) + k] = t[k]
BY DEF Content

\* Contents of one length that agree everywhere are the same.
LEMMA SameContent ==
  ASSUME NEW s \in Content, NEW t \in Content, Len(s) = Len(t),
         \A k \in 1..Len(s) : s[k] = t[k]
  PROVE  s = t
BY DEF Content

\* A file cut down to a size keeps what comes before.
LEMMA Resized ==
  ASSUME NEW s \in Content, NEW n \in Nat, n <= Len(s)
  PROVE  /\ Resize(s, n) \in Content /\ Len(Resize(s, n)) = n /\ Len(s) \in Nat
         /\ \A k \in 1..n : Resize(s, n)[k] = s[k]
<1>1. Len(s) \in Nat
  BY DEF Content
<1>2. \A k \in 1..n : k <= Len(s)
  BY <1>1
<1> QED
  BY <1>1, <1>2, ResizeType DEF Resize

LEMMA ResizedWhole ==
  ASSUME NEW s \in Content
  PROVE  Resize(s, Len(s)) = s
<1>1. Len(s) \in Nat
  BY DEF Content
<1>2. /\ Resize(s, Len(s)) \in Content /\ Len(Resize(s, Len(s))) = Len(s)
      /\ \A k \in 1..Len(s) : Resize(s, Len(s))[k] = s[k]
  BY <1>1, Resized
<1> QED
  BY <1>1, <1>2, SameContent

\* A block written at the end of a file is added to it.
LEMMA WrittenAtEnd ==
  ASSUME NEW s \in Content, NEW b \in Byte
  PROVE  /\ WriteAt(s, Len(s), b) \in Content /\ Len(s) \in Nat
         /\ Len(WriteAt(s, Len(s), b)) = Len(s) + 1
         /\ \A k \in 1..Len(s) : WriteAt(s, Len(s), b)[k] = s[k]
         /\ WriteAt(s, Len(s), b)[Len(s) + 1] = b
<1>1. Len(s) \in Nat /\ ~(Len(s) < Len(s))
  BY DEF Content
<1> DEFINE w == Resize(s, Len(s) + 1)
<1>2. w = [i \in 1..(Len(s) + 1) |-> IF i <= Len(s) THEN s[i] ELSE Zero]
  BY DEF Resize
<1>3. WriteAt(s, Len(s), b) = [w EXCEPT ![Len(s) + 1] = b]
  BY <1>1 DEF WriteAt
<1>4. WriteAt(s, Len(s), b) \in Content
  BY <1>1, WriteAtType
<1>5. WriteAt(s, Len(s), b)
        = [i \in 1..(Len(s) + 1) |-> IF i = Len(s) + 1 THEN b
                                     ELSE IF i <= Len(s) THEN s[i] ELSE Zero]
  BY <1>1, <1>2, <1>3
<1>6. DOMAIN WriteAt(s, Len(s), b) = 1..(Len(s) + 1)
  BY <1>5
<1>7. Len(WriteAt(s, Len(s), b)) = Len(s) + 1
  BY <1>1, <1>4, <1>6 DEF Content
<1>8. \A k \in 1..Len(s) : WriteAt(s, Len(s), b)[k] = s[k]
  BY <1>1, <1>5
<1>9. WriteAt(s, Len(s), b)[Len(s) + 1] = b
  BY <1>1, <1>5
<1> QED
  BY <1>1, <1>4, <1>7, <1>8, <1>9

-----------------------------------------------------------------------------
(* The steps of one handler. *)

LEMMA IdleFields == Idle.pc = "idle" /\ Idle.u = None /\ Idle.fd = None
BY DEF Idle

\* A handler that answers keeps nothing.
LEMMA FinishFields ==
  ASSUME Sound, NEW r \in Requests, Finish(r)
  PROVE  h'[r] = Idle /\ h'[r].pc = "idle" /\ h'[r].u = None /\ h'[r].fd = None
BY IdleFields DEF Sound, TypeOK, Finish, Become

\* What a handler in flight is.
LEMMA InFlightHandler ==
  ASSUME Sound, NEW r \in Requests, h[r].pc # "idle"
  PROVE  /\ h[r] \in Handler /\ h[r].u \in UploadIDs /\ h[r].sess.node \in Nodes
         /\ h[r].sess \in Session /\ h[r].sess.offset \in Nat /\ h[r].pos \in Nat
         /\ h[r].body \in Content /\ h[r].buf \in Content /\ h[r].digest \in Content
         /\ repo[h[r].u] \in Session /\ repo[h[r].u].offset \in Nat
         /\ h[r].sess.node = repo[h[r].u].node /\ h[r].sess.expires = repo[h[r].u].expires
         /\ h[r].sess.state = "active"
         /\ acked[h[r].u] \in Content
<1>1. h[r] \in Handler /\ SessionKnown(r)
  BY DEF Sound, TypeOK, HandlersOK
<1>2. /\ h[r].sess \in Session /\ h[r].pos \in Nat /\ h[r].body \in Content
      /\ h[r].buf \in Content /\ h[r].digest \in Content
  BY <1>1 DEF Handler
<1>3. h[r].u \in UploadIDs /\ repo[h[r].u] \in Session /\ acked[h[r].u] \in Content
  BY <1>1 DEF SessionKnown, Sound, TypeOK
<1> QED
  BY <1>1, <1>2, <1>3 DEF SessionKnown, Session

\* A handler that goes on keeps its upload, and its session but for the offset
\* that an append has reached.
LEMMA GoesOn ==
  ASSUME Sound, NEW r \in Requests, AppendStep(r) \/ GateStep(r) \/ FinalizeStep(r) \/ Fail(r)
  PROVE  /\ Fail(r) \/ h[r].pc # "idle"
         /\ \/ h'[r] = Idle
            \/ /\ h'[r].u = h[r].u /\ h'[r].pc # "idle"
               /\ h'[r].sess = h[r].sess /\ h'[r].pc # "update" /\ h[r].pc # "update"
            \/ /\ EndWrite(r) /\ h'[r].u = h[r].u /\ h'[r].pc = "update"
               /\ h'[r].sess = [h[r].sess EXCEPT !.offset = h[r].pos]
               /\ h'[r].pos = h[r].pos /\ h'[r].body = h[r].body
<1>t. h \in [Requests -> Handler] /\ h[r] \in Handler
  BY DEF Sound, TypeOK
<1> DEFINE Goes == \/ h'[r] = Idle
                   \/ /\ h'[r].u = h[r].u /\ h'[r].pc # "idle"
                      /\ h'[r].sess = h[r].sess /\ h'[r].pc # "update" /\ h[r].pc # "update"
<1>f. Finish(r) => h'[r] = Idle
  BY <1>t DEF Finish, Become
<1>1. OpenAppend(r) => Goes /\ h[r].pc # "idle"
  <2> SUFFICES ASSUME OpenAppend(r) PROVE Goes /\ h[r].pc # "idle"
    OBVIOUS
  <2>1. At(r, "open") /\ (Finish(r) \/ \E i : Become(r, [h[r] EXCEPT !.pc = "write", !.fd = i,
                                                            !.pos = h[r].sess.offset]))
    BY DEF OpenAppend
  <2> QED
    BY <1>t, <1>f, <2>1 DEF Become, Handler
<1>2. WriteBlock(r) => Goes /\ h[r].pc # "idle"
  BY <1>t DEF WriteBlock, Become, Handler
<1>3. ASSUME EndWrite(r)
      PROVE  /\ h[r].pc # "idle"
             /\ \/ h'[r] = Idle
                \/ /\ EndWrite(r) /\ h'[r].u = h[r].u /\ h'[r].pc = "update"
                   /\ h'[r].sess = [h[r].sess EXCEPT !.offset = h[r].pos]
                   /\ h'[r].pos = h[r].pos /\ h'[r].body = h[r].body
  <2>1. CASE Become(r, [h[r] EXCEPT !.pc = "update", !.fd = None, !.sess.offset = h[r].pos])
    BY <1>3, <1>t, <2>1 DEF EndWrite, Become, Handler
  <2>2. CASE Finish(r)
    BY <1>3, <1>f, <2>2 DEF EndWrite
  <2> QED
    BY <1>3, <2>1, <2>2 DEF EndWrite
<1>4. UpdateOffset(r) => Goes /\ h[r].pc # "idle"
  BY <1>f DEF UpdateOffset
<1>5. OpenStaging(r) => Goes /\ h[r].pc # "idle"
  <2> SUFFICES ASSUME OpenStaging(r) PROVE Goes /\ h[r].pc # "idle"
    OBVIOUS
  <2>1. h[r].pc \in OpenPCs
    BY DEF OpenStaging
  <2>2. CASE Finish(r)
    BY <1>f, <2>1, <2>2 DEF OpenPCs
  <2>3. CASE \E pc \in ReadPCs : Become(r, [h[r] EXCEPT !.fd = staging[h[r].u], !.buf = << >>, !.pc = pc])
    BY <1>t, <2>1, <2>3 DEF Become, Handler, OpenPCs, ReadPCs
  <2> QED
    BY <2>1, <2>2, <2>3 DEF OpenStaging, OpenPCs, ReadPCs
<1>6. ReadBlock(r) => Goes /\ h[r].pc # "idle"
  BY <1>t DEF ReadBlock, Become, Handler, ReadPCs
<1>7. EndHash(r) => Goes /\ h[r].pc # "idle"
  BY <1>t DEF EndHash, Become, Handler
<1>8. Scan(r) => Goes /\ h[r].pc # "idle"
  <2> SUFFICES ASSUME Scan(r) PROVE Goes /\ h[r].pc # "idle"
    OBVIOUS
  <2>1. ASSUME NEW env, Become(r, [h[r] EXCEPT !.pc = "evaluate", !.fd = None, !.buf = << >>,
                                              !.env = env])
        PROVE  h'[r].u = h[r].u /\ h'[r].pc = "evaluate" /\ h'[r].sess = h[r].sess
    BY <1>t, <2>1 DEF Become, Handler
  <2>2. CASE Finish(r)
    BY <1>f, <2>2 DEF Scan
  <2> QED
    BY <2>1, <2>2 DEF Scan
<1>9. EvaluateVerdict(r) => Goes /\ h[r].pc # "idle"
  <2> SUFFICES ASSUME EvaluateVerdict(r) PROVE Goes /\ h[r].pc # "idle"
    OBVIOUS
  <2>1. At(r, "evaluate") /\ (Finish(r) \/ Become(r, [h[r] EXCEPT !.pc = "openrehash", !.evalAt = clock]))
    BY DEF EvaluateVerdict
  <2> QED
    BY <1>t, <1>f, <2>1 DEF Become, Handler
<1>10. EndRehash(r) => Goes /\ h[r].pc # "idle"
  BY <1>t, <1>f DEF EndRehash, Become, Handler
<1>11. Recheck(r) => Goes /\ h[r].pc # "idle"
  BY <1>t, <1>f DEF Recheck, Become, Handler
<1>12. Link(r) => Goes /\ h[r].pc # "idle"
  BY <1>t, <1>f DEF Link, Become, Handler
<1>13. Unlink(r) => Goes /\ h[r].pc # "idle"
  BY <1>t, <1>f DEF Unlink, Become, Handler
<1>14. UpdateCompleted(r) => Goes /\ h[r].pc # "idle"
  BY <1>f DEF UpdateCompleted
<1>15. Fail(r) => Goes
  BY <1>f DEF Fail
<1> QED
  BY <1>1, <1>2, <1>3, <1>4, <1>5, <1>6, <1>7, <1>8, <1>9, <1>10, <1>11, <1>12, <1>13, <1>14, <1>15
  DEF AppendStep, GateStep, FinalizeStep

\* A handler starts on a live session that nobody works on.
LEMMA StartEffect ==
  ASSUME Sound, NEW r \in Requests, NEW u \in UploadIDs,
         StartComplete(r, u) \/ \E body \in Bodies : StartAppend(r, u, body)
  PROVE  /\ Get(r, u)
         /\ h'[r].u = u /\ h'[r].sess = repo[u] /\ h'[r].fd = None
         /\ h'[r].pc \in {"open", "openhash"} /\ (h'[r].pc = "openhash" <=> StartComplete(r, u))
         /\ UNCHANGED <<clock, repo, files, hist>>
<1>t. h \in [Requests -> Handler]
  BY DEF Sound, TypeOK
<1>1. CASE StartComplete(r, u)
  BY <1>1, <1>t DEF StartComplete, Become, Idle
<1>2. ASSUME NEW body \in Bodies, StartAppend(r, u, body)
      PROVE  /\ h'[r].pc = "open" /\ h'[r].u = u /\ h'[r].sess = repo[u] /\ h'[r].fd = None
             /\ ~StartComplete(r, u)
             /\ Get(r, u) /\ UNCHANGED <<clock, repo, files, hist>>
  <2>1. h'[r].pc = "open" /\ h'[r].u = u /\ h'[r].sess = repo[u] /\ h'[r].fd = None
    BY <1>2, <1>t DEF StartAppend, Become, Idle
  <2>2. StartComplete(r, u) => h'[r].pc = "openhash"
    BY <1>1
  <2> QED
    BY <1>2, <2>1, <2>2 DEF StartAppend
<1> QED
  BY <1>1, <1>2

\* Only the acknowledgement of an append changes what is acknowledged.
LEMMA AckedFrame ==
  ASSUME [Next]_vars
  PROVE  acked' = acked \/ \E r \in Requests : UpdateOffset(r)
BY DEF Next, vars, files, hist, AppendStep, GateStep, FinalizeStep, Tick, Expire, StartComplete,
       StartAppend, OpenAppend, WriteBlock, EndWrite, OpenStaging, ReadBlock, EndHash, Scan,
       EvaluateVerdict, EndRehash, Recheck, Link, Unlink, Fail, Restart, Create, UpdateCompleted

\* What an acknowledgement does: it adds the body to the acknowledged bytes.
LEMMA UpdateEffect ==
  ASSUME Sound, SerialSessions, NEW r \in Requests, UpdateOffset(r)
  PROVE  /\ h[r].u \in UploadIDs /\ repo[h[r].u].state = "active"
         /\ acked' = [acked EXCEPT ![h[r].u] = acked[h[r].u] \o h[r].body]
         /\ repo' = [repo EXCEPT ![h[r].u] = h[r].sess]
         /\ repo'[h[r].u].offset = Len(acked'[h[r].u])
         /\ repo'[h[r].u].state = "active" /\ repo'[h[r].u].expires = repo[h[r].u].expires
<1> DEFINE u == h[r].u
           body == h[r].body
           base == h[r].pos - Len(body)
<1>1. h[r].pc = "update"
  BY DEF UpdateOffset
<1>2. /\ u \in UploadIDs /\ body \in Content /\ h[r].sess \in Session /\ h[r].sess.state = "active"
      /\ acked[u] \in Content /\ h[r].pos \in Nat /\ h[r].sess.expires = repo[u].expires
  BY <1>1, InFlightHandler
<1>3. repo[u].state = "active" /\ h[r].sess.offset = h[r].pos /\ repo[u].offset = base
  BY <1>1 DEF SerialSessions, HandlerAlone
<1>4. Len(acked[u]) = base
  BY <1>2, <1>3 DEF SerialSessions, OffsetsCount
<1>5. Resize(acked[u], base) = acked[u]
  BY <1>2, <1>4, ResizedWhole
<1>6. acked' = [acked EXCEPT ![u] = acked[u] \o body]
  BY <1>2, <1>5 DEF UpdateOffset
<1>7. acked \in [UploadIDs -> Content] /\ repo \in [UploadIDs -> Session]
  BY DEF Sound, TypeOK
<1>8. acked'[u] = acked[u] \o body
  BY <1>2, <1>6, <1>7
<1>9. Len(acked'[u]) = h[r].pos
  <2>1. PICK s \in Content, t \in Content : s = acked[u] /\ t = body
    BY <1>2
  <2>2. Len(s) \in Nat /\ Len(t) \in Nat /\ Len(s \o t) = Len(s) + Len(t)
    BY Joined
  <2>3. Len(s) = h[r].pos - Len(t) /\ acked'[u] = s \o t
    BY <1>4, <1>8, <2>1
  <2> QED
    BY <1>2, <2>2, <2>3
<1>10. repo' = [repo EXCEPT ![u] = h[r].sess] /\ repo'[u] = h[r].sess
  BY <1>2, <1>7 DEF UpdateOffset
<1> QED
  BY <1>2, <1>3, <1>6, <1>9, <1>10

\* With one request of a session at a time, the offset on record counts the
\* acknowledged bytes, and no handler works on an old copy of the record.
LEMMA OffsetsStep ==
  ASSUME Sound, SerialSessions, [Next]_vars
  PROVE  OffsetsCount'
<1>t. repo \in [UploadIDs -> Session] /\ acked \in [UploadIDs -> Content] /\ OffsetsCount
  BY DEF Sound, TypeOK, SerialSessions
<1> SUFFICES ASSUME NEW u \in UploadIDs
             PROVE  /\ repo'[u].offset = Len(acked'[u])
                    /\ repo'[u].state = "unissued" => acked'[u] = << >>
  BY DEF OffsetsCount, Issued
<1>o. /\ repo[u].offset = Len(acked[u]) /\ (repo[u].state = "unissued" => acked[u] = << >>)
      /\ repo[u] \in Session
  BY <1>t DEF OffsetsCount, Issued
<1>1. ASSUME NEW r \in Requests, UpdateOffset(r)
      PROVE  /\ repo'[u].offset = Len(acked'[u])
             /\ repo'[u].state = "unissued" => acked'[u] = << >>
  <2>1. CASE u = h[r].u
    BY <1>1, <2>1, UpdateEffect
  <2>2. CASE u # h[r].u
    BY <1>1, <1>o, <1>t, <2>2, UpdateEffect
  <2> QED BY <2>1, <2>2
<1>2. ASSUME acked' = acked, \/ repo'[u] = repo[u]
                             \/ /\ repo'[u].offset = repo[u].offset
                                /\ repo'[u].state # "unissued"
      PROVE  /\ repo'[u].offset = Len(acked'[u])
             /\ repo'[u].state = "unissued" => acked'[u] = << >>
  BY <1>2, <1>o
<1>3. CASE UNCHANGED repo /\ acked' = acked
  BY <1>2, <1>3
<1>4. CASE Restart
  <2>1. acked' = acked
    BY <1>4 DEF Restart, hist
  <2>2. \/ repo'[u] = repo[u]
        \/ repo'[u].offset = repo[u].offset /\ repo'[u].state # "unissued"
    BY <1>4, <1>o DEF Restart, Session
  <2> QED BY <1>2, <2>1, <2>2
<1>5. ASSUME NEW v \in UploadIDs, NEW n \in Nodes, Create(v, n)
      PROVE  /\ repo'[u].offset = Len(acked'[u])
             /\ repo'[u].state = "unissued" => acked'[u] = << >>
  <2>1. acked' = acked
    BY <1>5 DEF Create, hist
  <2>2. CASE v = u
    <3>1. repo'[u] = [node |-> n, offset |-> 0, state |-> "active", expires |-> clock + TTL]
      BY <1>5, <1>t, <2>2 DEF Create
    <3>2. acked[u] = << >>
      BY <1>5, <1>o, <2>2 DEF Create
    <3> QED BY <2>1, <3>1, <3>2
  <2>3. CASE v # u
    BY <1>2, <1>5, <1>t, <2>1, <2>3 DEF Create
  <2> QED BY <2>2, <2>3
<1>6. ASSUME NEW r \in Requests, UpdateCompleted(r)
      PROVE  /\ repo'[u].offset = Len(acked'[u])
             /\ repo'[u].state = "unissued" => acked'[u] = << >>
  <2>1. acked' = acked /\ h[r].pc = "complete"
    BY <1>6 DEF UpdateCompleted, hist
  <2>2. CASE h[r].u = u
    <3>1. h[r].sess \in Session /\ h[r].sess.offset = repo[u].offset
      BY <2>1, <2>2, InFlightHandler DEF SerialSessions, HandlerAlone
    <3>2. repo'[u] = [h[r].sess EXCEPT !.state = "completed"]
      BY <1>6, <1>t, <2>2 DEF UpdateCompleted
    <3>3. repo'[u].offset = repo[u].offset /\ repo'[u].state = "completed"
      BY <3>1, <3>2 DEF Session
    <3> QED BY <1>2, <2>1, <3>3
  <2>3. CASE h[r].u # u
    BY <1>2, <1>6, <1>t, <2>1, <2>3 DEF UpdateCompleted
  <2> QED BY <2>2, <2>3
<1> QED
  BY <1>1, <1>3, <1>4, <1>5, <1>6, RepoFrame, AckedFrame

\* The record of a session that a handler works on changes by that handler only.
LEMMA RecordKept ==
  ASSUME Sound, NEW q \in Requests, HandlerAlone(q), h[q].pc # "idle", [Next]_vars,
         h'[q] = h[q]
  PROVE  repo'[h[q].u] = repo[h[q].u] /\ acked'[h[q].u] = acked[h[q].u]
<1> DEFINE u == h[q].u
<1>t. /\ repo \in [UploadIDs -> Session] /\ acked \in [UploadIDs -> Content] /\ u \in UploadIDs
      /\ h \in [Requests -> Handler] /\ repo[u].state = "active"
  BY InFlightHandler DEF Sound, TypeOK, HandlerAlone
<1>1. ASSUME NEW r \in Requests, UpdateOffset(r) \/ UpdateCompleted(r)
      PROVE  repo'[u] = repo[u] /\ acked'[u] = acked[u]
  <2>1. h'[r].pc = "idle"
    BY <1>1, FinishFields DEF UpdateOffset, UpdateCompleted
  <2>2. r # q
    BY <2>1
  <2>3. h[r].u # u
    BY <2>2 DEF HandlerAlone
  <2> QED
    BY <1>1, <1>t, <2>3 DEF UpdateOffset, UpdateCompleted, hist
<1>2. ASSUME Restart PROVE FALSE
  BY <1>2 DEF Restart, Idle
<1>3. ASSUME NEW v \in UploadIDs, NEW n \in Nodes, Create(v, n) PROVE repo'[u] = repo[u]
  BY <1>3, <1>t DEF Create
<1> QED
  BY <1>1, <1>2, <1>3, RepoFrame, AckedFrame

LEMMA HandlersAloneStep ==
  ASSUME Serial, Sound, SerialSessions, [Next]_vars, NEW x \in Requests
  PROVE  HandlerAlone(x)'
<1>a. \A r \in Requests : HandlerAlone(r)
  BY DEF SerialSessions
<1>i. h'[x].pc = "idle" => HandlerAlone(x)'
  BY DEF HandlerAlone
\* The others keep their uploads, or let go of them.
<1>o. ASSUME NEW u \in UploadIDs, NEW r \in Requests, Acts(r), \A q \in Requests : h[q].u = u => q = x,
             r # x
      PROVE  h'[r].u # u \/ \E v \in UploadIDs : Get(r, v) /\ v = u
  <2>1. CASE \E v \in UploadIDs : StartComplete(r, v) \/ \E body \in Bodies : StartAppend(r, v, body)
    BY <2>1, StartEffect
  <2>2. CASE AppendStep(r) \/ GateStep(r) \/ FinalizeStep(r) \/ Fail(r)
    <3>1. h'[r] = Idle \/ h'[r].u = h[r].u
      BY <2>2, GoesOn
    <3> QED
      BY <1>o, <3>1, IdleFields, ValuesAssumption
  <2> QED
    BY <1>o, <2>1, <2>2 DEF Acts
<1>1. CASE h'[x] = h[x] /\ h[x].pc # "idle"
  <2> DEFINE u == h[x].u
  <2>1. u \in UploadIDs /\ \A q \in Requests : h[q].u = u => q = x
    BY <1>1, <1>a, InFlightHandler DEF HandlerAlone
  <2>2. repo'[u] = repo[u]
    BY <1>1, <1>a, RecordKept
  <2>3. ASSUME NEW q \in Requests, h'[q].u = u PROVE q = x
    <3> SUFFICES ASSUME q # x PROVE FALSE
      OBVIOUS
    <3>1. CASE h' = h
      BY <2>1, <2>3, <3>1
    <3>2. CASE Restart
      BY <1>1, <3>2 DEF Restart, Idle
    <3>3. ASSUME NEW r \in Requests, Acts(r) PROVE FALSE
      <4>1. r = q
        BY <2>1, <2>3, <3>3, OthersUntouched DEF Sound
      <4>2. PICK w \in UploadIDs : w = u
        BY <2>1
      <4>3. Get(q, w)
        BY <2>1, <2>3, <3>3, <4>1, <4>2, <1>o
      <4> QED
        BY <4>2, <4>3 DEF Get
    <3> QED
      BY <3>1, <3>2, <3>3, HandlersFrame
  <2> QED
    BY <1>1, <1>a, <2>2, <2>3 DEF HandlerAlone
<1>2. ASSUME NEW u \in UploadIDs,
             StartComplete(x, u) \/ \E body \in Bodies : StartAppend(x, u, body)
      PROVE  HandlerAlone(x)'
  <2>1. /\ Get(x, u) /\ h'[x].u = u /\ h'[x].sess = repo[u] /\ repo' = repo
        /\ h'[x].pc # "update"
    BY <1>2, StartEffect
  <2>2. repo[u].state = "active" /\ \A q \in Requests : h[q].u # u
    BY <2>1 DEF Get
  <2>3. \A q \in Requests : h'[q].u = u => q = x
    BY <1>2, <2>2, OthersUntouched DEF Acts, Sound
  <2> QED
    BY <2>1, <2>2, <2>3 DEF HandlerAlone
<1>3. ASSUME AppendStep(x) \/ GateStep(x) \/ FinalizeStep(x) \/ Fail(x), h'[x].pc # "idle"
      PROVE  HandlerAlone(x)'
  <2> DEFINE u == h[x].u
  <2>f. h'[x] # Idle /\ ~Fail(x)
    <3>1. h \in [Requests -> Handler]
      BY DEF Sound, TypeOK
    <3> QED
      BY <1>3, <3>1 DEF Idle, Fail, Finish, Become
  <2>1. /\ h[x].pc # "idle" /\ h'[x].u = u
        /\ \/ h'[x].sess = h[x].sess /\ h'[x].pc # "update" /\ h[x].pc # "update"
           \/ /\ EndWrite(x) /\ h'[x].pc = "update"
              /\ h'[x].sess = [h[x].sess EXCEPT !.offset = h[x].pos]
              /\ h'[x].pos = h[x].pos /\ h'[x].body = h[x].body
    BY <1>3, <2>f, GoesOn
  <2>2. /\ u \in UploadIDs /\ \A q \in Requests : h[q].u = u => q = x
        /\ repo[u].state = "active"
    BY <2>1, <1>a, InFlightHandler DEF HandlerAlone
  <2>3. \A q \in Requests : h'[q].u = u => q = x
    BY <1>3, <2>2, OthersUntouched DEF Acts, Sound
  <2>4. repo'[u] = repo[u]
    <3>1. ~UpdateOffset(x) /\ ~UpdateCompleted(x)
      BY <1>3, FinishFields DEF UpdateOffset, UpdateCompleted
    <3> QED
      BY <1>3, <2>f, <3>1
      DEF files, hist, AppendStep, GateStep, FinalizeStep, OpenAppend, WriteBlock, EndWrite,
          OpenStaging, ReadBlock, EndHash, Scan, EvaluateVerdict, EndRehash, Recheck, Link, Unlink
  <2>5. CASE h'[x].sess = h[x].sess /\ h'[x].pc # "update" /\ h[x].pc # "update"
    BY <1>a, <2>1, <2>2, <2>3, <2>4, <2>5 DEF HandlerAlone
  <2>6. CASE /\ EndWrite(x) /\ h'[x].pc = "update"
             /\ h'[x].sess = [h[x].sess EXCEPT !.offset = h[x].pos]
             /\ h'[x].pos = h[x].pos /\ h'[x].body = h[x].body
    <3>1. /\ h[x].sess \in Session /\ h[x].pos \in Nat /\ h[x].body \in Content
          /\ h[x].sess.offset \in Nat
      BY <2>1, InFlightHandler
    <3>2. h'[x].sess.offset = h[x].pos
      BY <2>6, <3>1 DEF Session
    <3>3. h[x].pos - h[x].sess.offset = Len(h[x].body) /\ h[x].sess.offset = repo[u].offset
      BY <2>1, <2>6, <1>a DEF EndWrite, Written, HandlerAlone
    <3>4. Len(h[x].body) \in Nat
      BY <3>1 DEF Content
    <3>5. repo'[u].offset = h'[x].pos - Len(h'[x].body)
      BY <2>4, <2>6, <3>1, <3>3, <3>4
    <3> QED
      BY <2>1, <2>2, <2>3, <2>4, <2>6, <3>2, <3>5 DEF HandlerAlone
  <2> QED
    BY <2>1, <2>5, <2>6
<1>4. CASE Restart
  BY <1>4, <1>i DEF Restart, Idle
<1>5. ASSUME NEW r \in Requests, Acts(r), r # x PROVE h'[x] = h[x]
  BY <1>5, OthersUntouched DEF Sound
<1> QED
  BY <1>i, <1>1, <1>2, <1>3, <1>4, <1>5, HandlersFrame DEF Acts

\* One request of a session at a time is enough for this much, whatever fails
\* and wherever the sessions are kept.
LEMMA SerialSessionsStep ==
  ASSUME Serial, Sound, SerialSessions, [Next]_vars
  PROVE  SerialSessions'
BY OffsetsStep, HandlersAloneStep DEF SerialSessions

LEMMA InitSessions == Init => SerialSessions
<1> SUFFICES ASSUME Init PROVE SerialSessions
  OBVIOUS
<1>1. \A u \in UploadIDs : repo[u].offset = 0 /\ acked[u] = << >>
  BY DEF Init, NoSession
<1>2. \A r \in Requests : h[r].pc = "idle"
  BY IdleFields DEF Init
<1> QED
  BY <1>1, <1>2 DEF SerialSessions, OffsetsCount, HandlerAlone

-----------------------------------------------------------------------------
(* How the files change. *)

\* Only appends write.
LEMMA DataFrame ==
  ASSUME [Next]_vars
  PROVE  data' = data \/ \E r \in Requests : WriteBlock(r) \/ EndWrite(r) \/ OpenAppend(r)
BY DEF Next, vars, files, hist, AppendStep, GateStep, FinalizeStep, Tick, Expire, StartComplete,
       StartAppend, UpdateOffset, OpenStaging, ReadBlock, EndHash, Scan,
       EvaluateVerdict, EndRehash, Recheck, Link, Unlink, Fail, Restart, Create, UpdateCompleted

\* A file in use keeps its content unless an append writes to it.
LEMMA DataKept ==
  ASSUME Sound, [Next]_vars, NEW x \in Inodes, x \notin Free,
         \A r \in Requests : WriteBlock(r) \/ EndWrite(r) => h[r].fd # x
  PROVE  data'[x] = data[x]
<1>t. data \in [Inodes -> Content]
  BY DEF Sound, TypeOK
<1>1. ASSUME NEW r \in Requests, WriteBlock(r) PROVE data'[x] = data[x]
  BY <1>1, <1>t DEF WriteBlock
<1>2. ASSUME NEW r \in Requests, EndWrite(r) PROVE data'[x] = data[x]
  BY <1>2, <1>t DEF EndWrite
<1>3. ASSUME NEW r \in Requests, OpenAppend(r) PROVE data'[x] = data[x]
  BY <1>3, <1>t DEF OpenAppend
<1> QED
  BY <1>1, <1>2, <1>3, DataFrame

\* A handler that writes moves on.
LEMMA WriterMoves ==
  ASSUME Sound, NEW r \in Requests, WriteBlock(r) \/ EndWrite(r)
  PROVE  h[r].pc = "write" /\ h'[r] # h[r]
<1>t. h \in [Requests -> Handler] /\ h[r] \in Handler /\ h[r].pos \in Nat
  BY DEF Sound, TypeOK, Handler
<1>1. CASE WriteBlock(r)
  <2>1. h'[r].pos = h[r].pos + 1
    BY <1>1, <1>t DEF WriteBlock, Become, Handler
  <2> QED
    BY <1>1, <1>t, <2>1 DEF WriteBlock
<1>2. CASE EndWrite(r)
  <2>1. CASE Finish(r)
    BY <1>2, <2>1, FinishFields DEF EndWrite
  <2>2. CASE Become(r, [h[r] EXCEPT !.pc = "update", !.fd = None, !.sess.offset = h[r].pos])
    BY <1>2, <1>t, <2>2 DEF EndWrite, Become, Handler
  <2> QED
    BY <1>2, <2>1, <2>2 DEF EndWrite
<1> QED
  BY <1>1, <1>2

\* A staged file keeps its content unless its own upload writes.
LEMMA StagedKept ==
  ASSUME Inductive, SerialFiles, [Next]_vars, NEW u \in UploadIDs, staging[u] # None,
         \A r \in Requests : WriteBlock(r) \/ EndWrite(r) => h[r].u # u
  PROVE  staging[u] \in Inodes /\ data'[staging[u]] = data[staging[u]]
<1>1. staging[u] \in Inodes /\ staging[u] \notin Free
  BY DEF Inductive, TypeOK, Free
<1>2. ASSUME NEW r \in Requests, WriteBlock(r) \/ EndWrite(r) PROVE h[r].fd # staging[u]
  BY <1>2 DEF SerialFiles, DescriptorPrivate
<1>3. PICK x \in Inodes : x = staging[u]
  BY <1>1
<1> QED
  BY <1>1, <1>2, <1>3, DataKept

\* So does a file that a handler has open, unless that handler writes.
LEMMA OpenKept ==
  ASSUME Inductive, SerialFiles, [Next]_vars, NEW q \in Requests, h[q].fd \in Inodes,
         ~WriteBlock(q), ~EndWrite(q)
  PROVE  data'[h[q].fd] = data[h[q].fd]
<1>1. h[q].fd \notin Free /\ h[q].fd # None
  BY ValuesAssumption DEF Free
<1>2. ASSUME NEW r \in Requests, WriteBlock(r) \/ EndWrite(r) PROVE h[r].fd # h[q].fd
  BY <1>1, <1>2 DEF SerialFiles, DescriptorPrivate
<1>3. PICK x \in Inodes : x = h[q].fd
  OBVIOUS
<1> QED
  BY <1>1, <1>2, <1>3, DataKept

\* An object keeps its content.
LEMMA ObjectKept ==
  ASSUME Inductive, SerialFiles, [Next]_vars, NEW n \in Nodes, objects[n] # None
  PROVE  objects[n] \in Inodes /\ data'[objects[n]] = data[objects[n]]
<1>1. objects[n] \in Inodes /\ objects[n] \notin Free
  BY DEF Inductive, TypeOK, Free
<1>2. ASSUME NEW r \in Requests, WriteBlock(r) \/ EndWrite(r) PROVE h[r].fd # objects[n]
  BY <1>2 DEF SerialFiles, DescriptorPrivate
<1>3. PICK x \in Inodes : x = objects[n]
  BY <1>1
<1> QED
  BY <1>1, <1>2, <1>3, DataKept

\* A staging name comes from an append, and goes with an expiry or a
\* finalization of its upload.
LEMMA StagingNext ==
  ASSUME Sound, [Next]_vars, NEW u \in UploadIDs
  PROVE  \/ staging'[u] = staging[u]
         \/ /\ staging'[u] = None
            /\ \/ Expire(u)
               \/ \E r \in Requests : /\ h[r].u = u
                                      /\ (Recheck(r) /\ IsExpired(h[r].sess)) \/ Unlink(r)
         \/ /\ staging[u] = None /\ staging'[u] \in Free /\ data'[staging'[u]] = << >>
            /\ \E r \in Requests : h[r].u = u /\ OpenAppend(r)
<1>t. staging \in [UploadIDs -> Inodes \cup {None}] /\ data \in [Inodes -> Content]
  BY DEF Sound, TypeOK
<1>1. ASSUME NEW v \in UploadIDs, Expire(v), staging'[u] # staging[u]
      PROVE  v = u /\ staging'[u] = None
  BY <1>1, <1>t DEF Expire
<1>2. ASSUME NEW r \in Requests, Recheck(r), staging'[u] # staging[u]
      PROVE  h[r].u = u /\ staging'[u] = None /\ IsExpired(h[r].sess)
  BY <1>2, <1>t DEF Recheck
<1>3. ASSUME NEW r \in Requests, Unlink(r), staging'[u] # staging[u]
      PROVE  h[r].u = u /\ staging'[u] = None
  BY <1>3, <1>t DEF Unlink
<1>4. ASSUME NEW r \in Requests, OpenAppend(r), staging'[u] # staging[u]
      PROVE  /\ h[r].u = u /\ staging[u] = None /\ staging'[u] \in Free
             /\ data'[staging'[u]] = << >>
  <2>1. PICK i \in Free : /\ staging[h[r].u] = None
                          /\ staging' = [staging EXCEPT ![h[r].u] = i]
                          /\ data' = [data EXCEPT ![i] = << >>]
    BY <1>4 DEF OpenAppend
  <2> QED
    BY <1>4, <1>t, <2>1 DEF Free
<1> QED
  BY <1>1, <1>2, <1>3, <1>4, StagingFrame

\* An object comes from the staged file of a finalization, and stays.
LEMMA ObjectsNext ==
  ASSUME Inductive, [Next]_vars, NEW n \in Nodes
  PROVE  \/ objects'[n] = objects[n] /\ pub'[n] = pub[n]
         \/ \E r \in Requests :
              /\ Link(r) /\ h[r].sess.node = n /\ objects[n] = None /\ pub[n] = None
              /\ h[r].u \in UploadIDs /\ staging[h[r].u] # None /\ objects'[n] = staging[h[r].u]
              /\ pub'[n].by = h[r].u /\ pub'[n].digest = h[r].digest
<1>t. objects \in [Nodes -> Inodes \cup {None}] /\ pub \in [Nodes -> Publication \cup {None}]
  BY DEF Inductive, TypeOK
<1>1. ASSUME NEW r \in Requests, Link(r), ~(objects'[n] = objects[n] /\ pub'[n] = pub[n])
      PROVE  /\ h[r].sess.node = n /\ objects[n] = None /\ pub[n] = None
             /\ h[r].u \in UploadIDs /\ staging[h[r].u] # None /\ objects'[n] = staging[h[r].u]
             /\ pub'[n].by = h[r].u /\ pub'[n].digest = h[r].digest
  <2> DEFINE m == h[r].sess.node
  <2>1. /\ h[r].u \in UploadIDs /\ m \in Nodes /\ staging[h[r].u] # None
        /\ objects' = [objects EXCEPT ![m] = staging[h[r].u]]
    BY <1>1, LinkEffect
  <2>2. pub' = [pub EXCEPT ![m] =
                  [by |-> h[r].u, digest |-> h[r].digest, after |-> h[r].buf, env |-> h[r].env,
                   evalAt |-> h[r].evalAt, checkedAt |-> h[r].checkedAt]]
    BY <1>1, LinkEffect
  <2>3. n = m
    BY <1>1, <1>t, <2>1, <2>2
  <2>4. objects[n] = None
    BY <1>1, <2>3, PublicationsSettled DEF Inductive
  <2>5. pub[n] = None
    BY <2>4 DEF Inductive, PublicationsMatch
  <2>6. pub'[m].by = h[r].u /\ pub'[m].digest = h[r].digest
    BY <1>t, <2>1, <2>2
  <2> QED
    BY <1>t, <2>1, <2>3, <2>4, <2>5, <2>6
<1> QED
  BY <1>1, ObjectsFrame

\* A file in use keeps the names it has, and gets no other.
LEMMA NamesInUse ==
  ASSUME Sound, [Next]_vars, NEW x \in Inodes, x \notin Free, NEW u \in UploadIDs,
         staging'[u] = x
  PROVE  staging[u] = x
BY StagingNext, ValuesAssumption

\* A handler that opens, checks, links or unlinks is somewhere else afterwards.
LEMMA HandlerMoves ==
  ASSUME Sound, NEW r \in Requests, OpenAppend(r) \/ Recheck(r) \/ Link(r) \/ Unlink(r)
  PROVE  h'[r] # h[r]
<1>t. h \in [Requests -> Handler] /\ h[r] \in Handler
  BY DEF Sound, TypeOK
<1>f. Finish(r) => h'[r].pc = "idle"
  BY FinishFields
<1>1. CASE OpenAppend(r)
  <2>1. h[r].pc = "open"
        /\ (Finish(r) \/ \E i : Become(r, [h[r] EXCEPT !.pc = "write", !.fd = i, !.pos = h[r].sess.offset]))
    BY <1>1 DEF OpenAppend
  <2> QED
    BY <1>t, <1>f, <2>1 DEF Become, Handler
<1>2. CASE Recheck(r)
  BY <1>2, <1>t, <1>f DEF Recheck, Become, Handler
<1>3. CASE Link(r)
  BY <1>3, <1>t, <1>f DEF Link, Become, Handler
<1>4. CASE Unlink(r)
  BY <1>4, <1>t, <1>f DEF Unlink, Become, Handler
<1> QED
  BY <1>1, <1>2, <1>3, <1>4

\* A descriptor is kept, closed, or opened on the staged file of the upload.
LEMMA FdNext ==
  ASSUME Sound, NEW r \in Requests, Acts(r)
  PROVE  \/ h'[r].fd = None
         \/ h'[r].fd = h[r].fd
         \/ h[r].pc # "idle" /\ h'[r].fd = staging'[h[r].u]
<1>t. h \in [Requests -> Handler] /\ h[r] \in Handler /\ staging \in [UploadIDs -> Inodes \cup {None}]
  BY DEF Sound, TypeOK
<1> DEFINE Goal == \/ h'[r].fd = None
                   \/ h'[r].fd = h[r].fd
                   \/ h[r].pc # "idle" /\ h'[r].fd = staging'[h[r].u]
<1>f. Finish(r) => Goal
  BY FinishFields
<1>0. ASSUME NEW u \in UploadIDs,
             StartComplete(r, u) \/ \E body \in Bodies : StartAppend(r, u, body)
      PROVE  Goal
  BY <1>0, StartEffect
<1>1. ASSUME OpenAppend(r) PROVE Goal
  <2>1. h[r].pc = "open" /\ h[r].u \in UploadIDs
    BY <1>1, InFlightHandler DEF OpenAppend
  <2>2. Finish(r) \/ \E i : /\ Become(r, [h[r] EXCEPT !.pc = "write", !.fd = i, !.pos = h[r].sess.offset])
                            /\ staging'[h[r].u] = i
    BY <1>1, <1>t, <2>1 DEF OpenAppend
  <2> QED
    BY <1>t, <1>f, <2>1, <2>2 DEF Become, Handler
<1>2. ASSUME WriteBlock(r) PROVE Goal
  BY <1>2, <1>t DEF WriteBlock, Become, Handler
<1>3. ASSUME EndWrite(r) PROVE Goal
  BY <1>3, <1>t, <1>f DEF EndWrite, Become, Handler
<1>4. ASSUME UpdateOffset(r) \/ UpdateCompleted(r) \/ Fail(r) PROVE Goal
  BY <1>4, <1>f DEF UpdateOffset, UpdateCompleted, Fail
<1>5. ASSUME OpenStaging(r) PROVE Goal
  <2>1. h[r].pc \in OpenPCs /\ staging' = staging
    BY <1>5 DEF OpenStaging, files
  <2>2. Finish(r) \/ \E pc : Become(r, [h[r] EXCEPT !.fd = staging[h[r].u], !.buf = << >>, !.pc = pc])
    BY <1>5 DEF OpenStaging
  <2> QED
    BY <1>t, <1>f, <2>1, <2>2 DEF Become, Handler, OpenPCs
<1>6. ASSUME ReadBlock(r) PROVE Goal
  BY <1>6, <1>t DEF ReadBlock, Become, Handler
<1>7. ASSUME EndHash(r) PROVE Goal
  BY <1>7, <1>t DEF EndHash, Become, Handler
<1>8. ASSUME Scan(r) PROVE Goal
  <2>1. ASSUME NEW env, Become(r, [h[r] EXCEPT !.pc = "evaluate", !.fd = None, !.buf = << >>,
                                              !.env = env])
        PROVE  Goal
    BY <1>t, <2>1 DEF Become, Handler
  <2> QED
    BY <1>8, <1>f, <2>1 DEF Scan
<1>9. ASSUME EvaluateVerdict(r) PROVE Goal
  <2>1. Finish(r) \/ Become(r, [h[r] EXCEPT !.pc = "openrehash", !.evalAt = clock])
    BY <1>9 DEF EvaluateVerdict
  <2> QED
    BY <1>t, <1>f, <2>1 DEF Become, Handler
<1>10. ASSUME EndRehash(r) PROVE Goal
  BY <1>10, <1>t, <1>f DEF EndRehash, Become, Handler
<1>11. ASSUME Recheck(r) PROVE Goal
  <2>1. Finish(r) \/ Become(r, [h[r] EXCEPT !.pc = "link", !.checkedAt = clock])
    BY <1>11 DEF Recheck
  <2> QED
    BY <1>t, <1>f, <2>1 DEF Become, Handler
<1>12. ASSUME Link(r) PROVE Goal
  BY <1>12, <1>t, <1>f DEF Link, Become, Handler
<1>13. ASSUME Unlink(r) PROVE Goal
  BY <1>13, <1>t, <1>f DEF Unlink, Become, Handler
<1> QED
  BY <1>0, <1>1, <1>2, <1>3, <1>4, <1>5, <1>6, <1>7, <1>8, <1>9, <1>10, <1>11, <1>12, <1>13
  DEF Acts, AppendStep, GateStep, FinalizeStep

-----------------------------------------------------------------------------
(* What a handler relies on while others step. *)

FilesOK(r) == DescriptorPrivate(r) /\ AppendProgress(r) /\ FinalizeProgress(r)

\* Whoever works on the upload of a handler is that handler.
LEMMA SameUpload ==
  ASSUME Sound, SerialSessions, NEW q \in Requests, h[q].pc # "idle",
         NEW r \in Requests, h[r].u = h[q].u
  PROVE  r = q
BY DEF SerialSessions, HandlerAlone

\* A handler that does not step keeps the staged file of its upload, unless the
\* session expires.
LEMMA OwnStagingKept ==
  ASSUME Inductive, SerialSessions, SerialFiles, [Next]_vars,
         NEW q \in Requests, h[q].pc # "idle", h'[q] = h[q]
  PROVE  /\ \/ staging'[h[q].u] = staging[h[q].u]
            \/ staging'[h[q].u] = None /\ IsExpired(h[q].sess)
         /\ staging[h[q].u] # None => data'[staging[h[q].u]] = data[staging[h[q].u]]
<1>1. PICK u \in UploadIDs : u = h[q].u
  BY InFlightHandler
<1>2. ASSUME NEW r \in Requests, h[r].u = u,
             WriteBlock(r) \/ EndWrite(r) \/ OpenAppend(r) \/ Recheck(r) \/ Link(r) \/ Unlink(r)
      PROVE  FALSE
  <2>1. r = q
    BY <1>1, <1>2, SameUpload
  <2> QED
    BY <1>2, <2>1, WriterMoves, HandlerMoves
<1>3. Expire(u) => IsExpired(h[q].sess)
  BY <1>1, InFlightHandler DEF Expire, IsExpired
<1>4. \/ staging'[u] = staging[u]
      \/ staging'[u] = None /\ IsExpired(h[q].sess)
  BY <1>2, <1>3, StagingNext
<1>5. staging[u] # None => data'[staging[u]] = data[staging[u]]
  BY <1>2, StagedKept
<1> QED
  BY <1>1, <1>4, <1>5

\* What a handler knows of its files holds while others step.
LEMMA UntouchedDescriptor ==
  ASSUME Inductive, SerialSessions, SerialFiles, [Next]_vars,
         NEW q \in Requests, h[q].pc # "idle", h'[q] = h[q]
  PROVE  DescriptorPrivate(q)'
<1>d. DescriptorPrivate(q)
  BY DEF SerialFiles
<1>1. PICK u \in UploadIDs : u = h[q].u
  BY InFlightHandler
<1> SUFFICES ASSUME h[q].fd # None
             PROVE  /\ staging'[u] \in {None, h[q].fd}
                    /\ \A p \in Requests : h'[p].fd = h[q].fd => p = q
                    /\ \A v \in UploadIDs : staging'[v] = h[q].fd => v = u
                    /\ \A n \in Nodes : objects'[n] # h[q].fd
  BY <1>1, <1>d DEF DescriptorPrivate
<1>2. PICK x \in Inodes : x = h[q].fd
  BY DEF Inductive, TypeOK, Handler
<1>3. /\ staging[u] \in {None, x} /\ x # None /\ x \notin Free
      /\ \A p \in Requests : h[p].fd = x => p = q
      /\ \A v \in UploadIDs : staging[v] = x => v = u
      /\ \A n \in Nodes : objects[n] # x
  BY <1>1, <1>2, <1>d DEF DescriptorPrivate, Free
<1>4. staging'[u] \in {None, x}
  BY <1>1, <1>3, OwnStagingKept
<1>5. \A v \in UploadIDs : staging'[v] = x => v = u
  BY <1>3, NamesInUse
<1>6. ASSUME NEW p \in Requests, h'[p].fd = x PROVE p = q
  <2>1. CASE h' = h
    BY <1>3, <1>6, <2>1
  <2>2. CASE Restart
    BY <2>2, IdleFields DEF Restart
  <2>3. ASSUME NEW r \in Requests, Acts(r) PROVE p = q
    <3>1. CASE p # r
      BY <1>3, <1>6, <2>3, <3>1, OthersUntouched DEF Inductive
    <3>2. CASE p = r /\ h[p].fd = x
      BY <1>3, <3>2
    <3>3. CASE p = r /\ h[p].pc # "idle" /\ staging'[h[p].u] = x
      <4>1. PICK v \in UploadIDs : v = h[p].u
        BY <3>3, InFlightHandler
      <4>2. v = u
        BY <1>5, <3>3, <4>1
      <4> QED
        BY <1>1, <4>1, <4>2, SameUpload
    <3> QED
      BY <1>3, <1>6, <2>3, <3>1, <3>2, <3>3, FdNext
  <2> QED
    BY <2>1, <2>2, <2>3, HandlersFrame
<1>7. ASSUME NEW n \in Nodes, objects'[n] = x PROVE FALSE
  <2>1. PICK r \in Requests : Link(r) /\ h[r].u \in UploadIDs /\ staging[h[r].u] = x
    BY <1>3, <1>7, ObjectsNext
  <2>2. h[r].u = u
    BY <1>3, <2>1
  <2>3. r = q
    BY <1>1, <2>2, SameUpload
  <2> QED
    BY <2>1, <2>3, HandlerMoves
<1> QED
  BY <1>2, <1>4, <1>5, <1>6, <1>7

LEMMA UntouchedFiles ==
  ASSUME Inductive, SerialSessions, SerialFiles, [Next]_vars,
         NEW q \in Requests, h[q].pc # "idle", h'[q] = h[q]
  PROVE  FilesOK(q)'
<1> DEFINE u == h[q].u
           n == h[q].sess.node
<1>a. AppendProgress(q) /\ FinalizeProgress(q) /\ WriterInBounds(q) /\ FinalizerOwns(q)
  BY DEF SerialFiles, Inductive, HandlersOK, FinalizersOwn
<1>t. u \in UploadIDs /\ n \in Nodes
  BY InFlightHandler
<1>r. acked'[u] = acked[u]
  BY RecordKept DEF SerialSessions
<1>s. /\ staging'[u] = staging[u] \/ (staging'[u] = None /\ IsExpired(h[q].sess))
      /\ staging[u] # None => data'[staging[u]] = data[staging[u]]
  BY OwnStagingKept
<1>e. IsExpired(h[q].sess) => clock' >= h[q].sess.expires
  <2>1. h[q].sess.expires \in Nat /\ clock \in Nat
    BY InFlightHandler DEF Session, Inductive, TypeOK
  <2> QED
    BY <2>1, ClockAdvances DEF IsExpired, Inductive
<1>w. h[q].pc \in {"write"} \cup ReadPCs => data'[h[q].fd] = data[h[q].fd]
  <2>1. ~WriteBlock(q) /\ ~EndWrite(q)
    BY WriterMoves
  <2> QED
    BY <1>a, <2>1, OpenKept DEF WriterInBounds
<1>o. /\ objects[n] # None => objects'[n] = objects[n] /\ data'[objects[n]] = data[objects[n]]
      /\ h[q].pc \in {"unlink", "complete"} => objects[n] # None
  <2>1. objects[n] # None => objects'[n] = objects[n] /\ data'[objects[n]] = data[objects[n]]
    BY <1>t, ObjectKept, PublicationsSettled DEF Inductive
  <2>2. h[q].pc \in {"unlink", "complete"} => objects[n] # None
    BY <1>t, <1>a DEF FinalizerOwns, Inductive, PublicationsMatch
  <2> QED
    BY <2>1, <2>2
<1>1. AppendProgress(q)'
  <2>1. At(q, "write") => /\ Len(data'[h[q].fd]) = h[q].pos
                          /\ Begins(acked'[u], data'[h[q].fd])
                          /\ \A k \in 1..Written(q) : data'[h[q].fd][h[q].sess.offset + k] = h[q].body[k]
    BY <1>a, <1>r, <1>w DEF AppendProgress
  <2>2. At(q, "update") /\ staging'[u] # None => Begins(acked'[u] \o h[q].body, data'[staging'[u]])
    BY <1>a, <1>r, <1>s DEF AppendProgress
  <2>3. h[q].pc \in {"write", "update"} /\ ~(clock' >= h[q].sess.expires) => staging'[u] # None
    BY <1>a, <1>s, <1>e DEF AppendProgress
  <2> QED
    BY <2>1, <2>2, <2>3 DEF AppendProgress, IsExpired, Written, Begins
<1>2. FinalizeProgress(q)'
  <2>1. At(q, "hash") => Begins(h[q].buf, data'[h[q].fd])
    BY <1>a, <1>w DEF FinalizeProgress, ReadPCs
  <2>2. h[q].pc \in CompletePCs \ {"openhash", "hash", "unlink", "complete"} /\ staging'[u] # None
          => data'[staging'[u]] = h[q].digest
    BY <1>a, <1>s DEF FinalizeProgress
  <2>3. h[q].pc \in CompletePCs \ {"unlink", "complete"} /\ staging'[u] # None /\ objects'[n] = None
          => Begins(acked'[u], data'[staging'[u]])
    BY <1>a, <1>r, <1>s, <1>o DEF FinalizeProgress
  <2>4. At(q, "unlink") => staging'[u] \in {None, objects'[n]}
    BY <1>a, <1>s, <1>o DEF FinalizeProgress
  <2>5. At(q, "complete") => staging'[u] = None
    BY <1>a, <1>s DEF FinalizeProgress
  <2>6. h[q].pc \in {"unlink", "complete"} => Begins(acked'[u], data'[objects'[n]])
    BY <1>a, <1>r, <1>o DEF FinalizeProgress
  <2> QED
    BY <2>1, <2>2, <2>3, <2>4, <2>5, <2>6 DEF FinalizeProgress, Begins
<1> QED
  BY <1>1, <1>2, UntouchedDescriptor DEF FilesOK

-----------------------------------------------------------------------------
(* What a handler relies on after its own steps. *)

\* A handler that has answered relies on nothing.
LEMMA AnsweredFiles ==
  ASSUME NEW r \in Requests, h'[r].pc = "idle", h'[r].fd = None
  PROVE  FilesOK(r)'
BY DEF FilesOK, DescriptorPrivate, AppendProgress, FinalizeProgress, CompletePCs, OpenPCs, ReadPCs

LEMMA FinishedFiles ==
  ASSUME Inductive, NEW r \in Requests, Finish(r)
  PROVE  FilesOK(r)'
BY FinishFields, AnsweredFiles

\* A handler that has just opened the staged file of its upload is the only one
\* that reaches it.
LEMMA OpenedDescriptor ==
  ASSUME Inductive, Inductive', SerialSessions, SerialFiles, NEW r \in Requests,
         h[r].pc # "idle", h[r].pc # "unlink", Acts(r),
         UNCHANGED objects, h'[r].u = h[r].u, h'[r].fd = staging'[h[r].u],
         h'[r].pc \in {"write"} \cup ReadPCs, staging'[h[r].u] # None,
         staging'[h[r].u] = staging[h[r].u] \/ staging'[h[r].u] \in Free
  PROVE  DescriptorPrivate(r)'
<1>1. PICK u \in UploadIDs : u = h[r].u
  BY InFlightHandler
<1>2. PICK x : x = staging'[u]
  OBVIOUS
<1>3. ASSUME NEW q \in Requests, h'[q].fd = x PROVE q = r
  <2> SUFFICES ASSUME q # r PROVE FALSE
    OBVIOUS
  <2>1. h[q].fd = x
    BY <1>3, OthersUntouched DEF Inductive
  <2>2. staging[u] = x
    BY <1>1, <1>2, <2>1 DEF Free
  <2>3. DescriptorPrivate(q) /\ x # None
    BY <1>1, <1>2 DEF SerialFiles
  <2>4. u = h[q].u
    BY <2>1, <2>2, <2>3 DEF DescriptorPrivate
  <2> QED
    BY <1>1, <2>4, SameUpload
<1>4. ASSUME NEW v \in UploadIDs, staging'[v] = x PROVE v = u
  BY <1>1, <1>2, <1>4 DEF Inductive, StagingIsPrivate
<1>5. ASSUME NEW n \in Nodes, objects'[n] = x PROVE FALSE
  <2>1. objects[n] = x /\ staging[u] = x /\ x # None
    BY <1>1, <1>2, <1>5 DEF Free
  <2>2. repo[u].state = "active"
    BY <1>1 DEF SerialSessions, HandlerAlone
  <2>3. \A q \in Requests : h[q].u = u => q = r
    BY <1>1, SameUpload
  <2> QED
    BY <2>1, <2>2, <2>3 DEF SerialFiles, TwoNames
<1> QED
  BY <1>1, <1>2, <1>3, <1>4, <1>5 DEF DescriptorPrivate

\* A handler that keeps its descriptor, with no change of directories.
LEMMA KeptDescriptor ==
  ASSUME Inductive, SerialFiles, NEW r \in Requests, Acts(r), UNCHANGED <<staging, objects>>,
         h'[r].fd = h[r].fd, h'[r].u = h[r].u, h'[r].pc = h[r].pc
  PROVE  DescriptorPrivate(r)'
<1>1. DescriptorPrivate(r)
  BY DEF SerialFiles
<1>2. \A q \in Requests : h'[q].fd = h[q].fd
  BY OthersUntouched DEF Inductive
<1> QED
  BY <1>1, <1>2 DEF DescriptorPrivate

LEMMA ClosedDescriptor ==
  ASSUME NEW r \in Requests, h'[r].fd = None
  PROVE  DescriptorPrivate(r)'
BY DEF DescriptorPrivate

\* No bytes are the beginning of any content.
LEMMA EmptyBegins ==
  ASSUME NEW c \in Content
  PROVE  Begins(<< >>, c)
BY DEF Begins, Content

\* Content begins with itself.
LEMMA BeginsWhole ==
  ASSUME NEW s \in Content, NEW c \in Content, Begins(s, c), Len(s) >= Len(c)
  PROVE  s = c
<1>1. Len(s) \in Nat /\ Len(c) \in Nat /\ Len(s) <= Len(c)
  BY DEF Begins, Content
<1> QED
  BY <1>1, SameContent DEF Begins

\* Acknowledged bytes count as many as the offset that a handler works from.
LEMMA AckedLength ==
  ASSUME Sound, SerialSessions, NEW r \in Requests, h[r].pc \notin {"idle", "update"}
  PROVE  /\ Len(acked[h[r].u]) = h[r].sess.offset
         /\ h[r].sess.offset = 0 => acked[h[r].u] = << >>
<1>1. /\ h[r].u \in UploadIDs /\ acked[h[r].u] \in Content /\ h[r].sess.offset = repo[h[r].u].offset
  BY InFlightHandler DEF SerialSessions, HandlerAlone
<1>2. Len(acked[h[r].u]) = h[r].sess.offset
  BY <1>1 DEF SerialSessions, OffsetsCount
<1> QED
  BY <1>1, <1>2 DEF Content

\* A completion starts from a staged file that holds what was acknowledged,
\* unless the upload has been published before.
LEMMA StartFiles ==
  ASSUME Inductive, SerialSessions, SerialFiles, NEW r \in Requests, NEW u \in UploadIDs,
         StartComplete(r, u) \/ \E body \in Bodies : StartAppend(r, u, body)
  PROVE  FilesOK(r)'
<1>1. /\ Get(r, u)
      /\ h'[r].u = u /\ h'[r].sess = repo[u] /\ h'[r].fd = None
      /\ h'[r].pc \in {"open", "openhash"}
      /\ UNCHANGED <<staging, objects, data, acked>>
  BY StartEffect DEF files, hist
<1> DEFINE n == repo[u].node
<1>2. ASSUME staging[u] # None, objects[n] = None
      PROVE  Begins(acked[u], data[staging[u]])
  <2>1. data[staging[u]] \in Content
    BY <1>2 DEF Inductive, TypeOK
  <2>2. CASE acked[u] = << >>
    BY <2>1, <2>2, EmptyBegins
  <2>3. CASE acked[u] # << >>
    <3>1. PICK i \in Holders(u) : Begins(acked[u], data[i])
      BY <1>1, <2>3 DEF Get, SerialFiles, AckedBytesDurable
    <3>2. ASSUME NEW m \in Nodes, pub[m] # None, pub[m].by = u PROVE objects[m] = None
      BY <1>2, <3>2 DEF Inductive, PublicationsMatch
    <3>3. i = staging[u]
      BY <3>2 DEF Holders
    <3> QED
      BY <3>1, <3>3
  <2> QED
    BY <2>2, <2>3
<1>3. AppendProgress(r)'
  BY <1>1 DEF AppendProgress
<1>4. FinalizeProgress(r)'
  BY <1>1, <1>2 DEF FinalizeProgress, CompletePCs, OpenPCs, ReadPCs
<1> QED
  BY <1>1, <1>3, <1>4, ClosedDescriptor DEF FilesOK

\* An append opens a file that ends at its offset, which is where the
\* acknowledged bytes end.
LEMMA OpenAppendFiles ==
  ASSUME Inductive, Inductive', SerialSessions, SerialFiles, NEW r \in Requests, OpenAppend(r)
  PROVE  FilesOK(r)'
<1>1. h[r].pc = "open" /\ UNCHANGED <<clock, objects, acked>>
  BY DEF OpenAppend, hist
<1>2. PICK u \in UploadIDs : u = h[r].u
  BY <1>1, InFlightHandler
<1>3. /\ Len(acked[u]) = h[r].sess.offset /\ (h[r].sess.offset = 0 => acked[u] = << >>)
      /\ h[r].sess.offset \in Nat /\ h[r] \in Handler
  BY <1>1, <1>2, AckedLength, InFlightHandler
<1>t. /\ h \in [Requests -> Handler] /\ staging \in [UploadIDs -> Inodes \cup {None}]
      /\ data \in [Inodes -> Content] /\ acked \in [UploadIDs -> Content]
  BY DEF Inductive, TypeOK
<1>4. ASSUME NEW i \in Inodes,
             Become(r, [h[r] EXCEPT !.pc = "write", !.fd = i, !.pos = h[r].sess.offset]),
             staging'[u] = i, i = staging[u] \/ i \in Free,
             Len(data'[i]) = h[r].sess.offset, Begins(acked[u], data'[i])
      PROVE  FilesOK(r)'
  <2>1. /\ h'[r].pc = "write" /\ h'[r].fd = i /\ h'[r].pos = h[r].sess.offset
        /\ h'[r].u = u /\ h'[r].sess = h[r].sess
    BY <1>2, <1>3, <1>4, <1>t DEF Become, Handler
  <2>2. DescriptorPrivate(r)'
    BY <1>1, <1>2, <1>4, <2>1, OpenedDescriptor, ValuesAssumption DEF Acts, AppendStep
  <2>3. h'[r].pos - h'[r].sess.offset = 0
    BY <1>3, <2>1
  <2>4. AppendProgress(r)'
    <3>1. staging'[u] # None /\ h'[r].pc # "update"
      BY <1>4, <2>1, ValuesAssumption
    <3>2. /\ Len(data'[h'[r].fd]) = h'[r].pos /\ Begins(acked'[u], data'[h'[r].fd])
          /\ \A k \in 1..(h'[r].pos - h'[r].sess.offset) :
                data'[h'[r].fd][h'[r].sess.offset + k] = h'[r].body[k]
      BY <1>1, <1>4, <2>1, <2>3
    <3> QED
      BY <2>1, <3>1, <3>2 DEF AppendProgress, Written
  <2>5. FinalizeProgress(r)'
    BY <2>1 DEF FinalizeProgress, CompletePCs, OpenPCs, ReadPCs
  <2> QED
    BY <2>2, <2>4, <2>5 DEF FilesOK
<1>5. ASSUME NEW i \in Free, staging' = [staging EXCEPT ![u] = i], data' = [data EXCEPT ![i] = << >>],
             h[r].sess.offset = 0,
             Become(r, [h[r] EXCEPT !.pc = "write", !.fd = i, !.pos = h[r].sess.offset])
      PROVE  FilesOK(r)'
  <2>1. i \in Inodes
    BY DEF Free
  <2>2. staging'[u] = i /\ data'[i] = << >> /\ acked[u] = << >> /\ << >> \in Content /\ Len(<< >>) = 0
    BY <1>3, <1>5, <1>t, <2>1 DEF Content
  <2>3. Begins(acked[u], data'[i])
    BY <2>2, EmptyBegins
  <2> QED
    BY <1>4, <1>5, <2>1, <2>2, <2>3
<1>6. ASSUME staging[u] # None, UNCHANGED <<staging, data>>, Len(data[staging[u]]) = h[r].sess.offset,
             Become(r, [h[r] EXCEPT !.pc = "write", !.fd = staging[u], !.pos = h[r].sess.offset])
      PROVE  FilesOK(r)'
  <2>1. PICK i \in Inodes : i = staging[u]
    BY <1>6, <1>t
  <2>2. data[i] \in Content /\ (data[i] = << >> \/ Begins(acked[u], data[i]))
    BY <1>6, <1>t, <2>1 DEF SerialFiles, StagedContinues
  <2>3. CASE data[i] = << >>
    <3>1. h[r].sess.offset = 0
      BY <1>6, <2>1, <2>3
    <3>2. Begins(acked[u], data[i])
      BY <1>3, <2>2, <3>1, EmptyBegins
    <3> QED
      BY <1>4, <1>6, <2>1, <3>2
  <2>4. CASE Begins(acked[u], data[i])
    BY <1>4, <1>6, <2>1, <2>4
  <2> QED
    BY <2>2, <2>3, <2>4
<1> QED
  BY <1>2, <1>5, <1>6, FinishedFiles DEF OpenAppend

\* What the files of a writer hold.
LEMMA WriterFiles ==
  ASSUME Inductive, SerialSessions, SerialFiles, NEW r \in Requests, h[r].pc = "write"
  PROVE  /\ h[r].fd \in Inodes /\ h[r].fd # None /\ data[h[r].fd] \in Content
         /\ Len(data[h[r].fd]) = h[r].pos
         /\ Begins(acked[h[r].u], data[h[r].fd]) /\ Len(acked[h[r].u]) = h[r].sess.offset
         /\ \A k \in 1..Written(r) : data[h[r].fd][h[r].sess.offset + k] = h[r].body[k]
         /\ h[r].sess.offset <= h[r].pos /\ Len(h[r].body) \in Nat
         /\ ~IsExpired(h[r].sess) => staging[h[r].u] # None
<1>1. WriterInBounds(r) /\ AppendProgress(r)
  BY DEF Inductive, HandlersOK, SerialFiles
<1>2. h[r].fd \in Inodes /\ h[r].sess.offset <= h[r].pos
  BY <1>1 DEF WriterInBounds
<1>3. data[h[r].fd] \in Content
  BY <1>2 DEF Inductive, TypeOK
<1>4. Len(h[r].body) \in Nat
  BY InFlightHandler DEF Content
<1> QED
  BY <1>1, <1>2, <1>3, <1>4, AckedLength, ValuesAssumption DEF AppendProgress

\* A block goes to the end of the file.
LEMMA BlockWritten ==
  ASSUME Inductive, SerialSessions, SerialFiles, NEW r \in Requests, WriteBlock(r)
  PROVE  /\ Len(data'[h[r].fd]) = h[r].pos + 1
         /\ Begins(acked[h[r].u], data'[h[r].fd])
         /\ \A k \in 1..(Written(r) + 1) : data'[h[r].fd][h[r].sess.offset + k] = h[r].body[k]
<1>1. h[r].pc = "write" /\ Written(r) < Len(h[r].body)
  BY DEF WriteBlock
<1>2. PICK s \in Content, p \in Nat, off \in Nat, body \in Content, a \in Content, w \in Nat :
         /\ s = data[h[r].fd] /\ p = h[r].pos /\ off = h[r].sess.offset /\ body = h[r].body
         /\ a = acked[h[r].u] /\ w = Written(r)
  <2>1. Written(r) \in Nat
    BY <1>1, WriterFiles, InFlightHandler DEF Written
  <2> QED
    BY <1>1, <2>1, WriterFiles, InFlightHandler
<1>3. /\ Len(s) = p /\ Begins(a, s) /\ Len(a) = off /\ w = p - off /\ w < Len(body)
      /\ \A k \in 1..w : s[off + k] = body[k]
      /\ h[r].fd \in Inodes
  BY <1>1, <1>2, WriterFiles DEF Written
<1>4. Len(body) \in Nat /\ w + 1 \in 1..Len(body) /\ body[w + 1] \in Byte
  BY <1>2, <1>3 DEF Content
<1>5. PICK b \in Byte : b = body[w + 1]
  BY <1>4
<1>6. PICK t : t = WriteAt(s, Len(s), b)
  OBVIOUS
<1>7. /\ t \in Content /\ Len(t) = p + 1 /\ (\A k \in 1..p : t[k] = s[k]) /\ t[p + 1] = b
  BY <1>3, <1>6, WrittenAtEnd
<1>8. data'[h[r].fd] = t
  BY <1>2, <1>3, <1>5, <1>6 DEF WriteBlock, Inductive, TypeOK
<1>9. Begins(a, t)
  BY <1>3, <1>7 DEF Begins
<1>10. ASSUME NEW k \in 1..(w + 1) PROVE t[off + k] = body[k]
  <2>1. CASE k = w + 1
    BY <1>3, <1>5, <1>7, <2>1
  <2>2. CASE k \in 1..w
    BY <1>3, <1>7, <2>2
  <2> QED
    BY <2>1, <2>2
<1> QED
  BY <1>2, <1>7, <1>8, <1>9, <1>10

LEMMA WriteBlockFiles ==
  ASSUME Inductive, SerialSessions, SerialFiles, NEW r \in Requests, WriteBlock(r)
  PROVE  FilesOK(r)'
<1>1. h[r].pc = "write" /\ UNCHANGED <<clock, staging, objects, acked>>
  BY DEF WriteBlock, hist
<1>2. /\ h'[r].pc = "write" /\ h'[r].u = h[r].u /\ h'[r].fd = h[r].fd /\ h'[r].sess = h[r].sess
      /\ h'[r].body = h[r].body /\ h'[r].pos = h[r].pos + 1
  <2>1. h \in [Requests -> Handler] /\ h[r] \in Handler
    BY DEF Inductive, TypeOK
  <2> QED
    BY <1>1, <2>1 DEF WriteBlock, Become, Handler
<1>3. h[r].pos \in Nat /\ h[r].sess.offset \in Nat
  BY <1>1, InFlightHandler
<1>4. h'[r].pos - h'[r].sess.offset = Written(r) + 1
  BY <1>2, <1>3 DEF Written
<1>5. DescriptorPrivate(r)'
  BY <1>1, <1>2, KeptDescriptor DEF Acts, AppendStep
<1>6. AppendProgress(r)'
  <2>1. ~IsExpired(h[r].sess) => staging[h[r].u] # None
    BY <1>1, WriterFiles
  <2> QED
    BY <1>1, <1>2, <1>4, <2>1, BlockWritten DEF AppendProgress, Written, IsExpired
<1>7. FinalizeProgress(r)'
  BY <1>2 DEF FinalizeProgress, CompletePCs, OpenPCs, ReadPCs
<1> QED
  BY <1>5, <1>6, <1>7 DEF FilesOK

\* A body that has been copied follows the acknowledged bytes.
LEMMA EndWriteFiles ==
  ASSUME Inductive, SerialSessions, SerialFiles, NEW r \in Requests, EndWrite(r)
  PROVE  FilesOK(r)'
<1>1. h[r].pc = "write" /\ UNCHANGED <<clock, staging, objects, acked>> /\ Written(r) = Len(h[r].body)
  BY DEF EndWrite, hist
<1>2. ASSUME Become(r, [h[r] EXCEPT !.pc = "update", !.fd = None, !.sess.offset = h[r].pos]),
             UNCHANGED data
      PROVE  FilesOK(r)'
  <2>1. /\ h'[r].pc = "update" /\ h'[r].u = h[r].u /\ h'[r].fd = None /\ h'[r].body = h[r].body
        /\ h'[r].sess.expires = h[r].sess.expires
    <3>1. h \in [Requests -> Handler] /\ h[r] \in Handler
      BY DEF Inductive, TypeOK
    <3>2. h[r].sess \in Session
      BY <3>1 DEF Handler
    <3>3. /\ h'[r].pc = "update" /\ h'[r].u = h[r].u /\ h'[r].fd = None /\ h'[r].body = h[r].body
          /\ h'[r].sess = [h[r].sess EXCEPT !.offset = h[r].pos]
      BY <1>2, <3>1 DEF Become, Handler
    <3> QED
      BY <3>2, <3>3 DEF Session
  <2>2. ASSUME staging[h[r].u] # None
        PROVE  Begins(acked[h[r].u] \o h[r].body, data[staging[h[r].u]])
    <3>1. PICK s \in Content, p \in Nat, off \in Nat, body \in Content, a \in Content :
             /\ s = data[h[r].fd] /\ p = h[r].pos /\ off = h[r].sess.offset /\ body = h[r].body
             /\ a = acked[h[r].u]
      BY <1>1, WriterFiles, InFlightHandler
    <3>2. /\ Len(s) = p /\ Begins(a, s) /\ Len(a) = off /\ Len(body) = p - off
          /\ \A k \in 1..Len(body) : s[off + k] = body[k]
      BY <1>1, <3>1, WriterFiles DEF Written
    <3>3. staging[h[r].u] = h[r].fd
      BY <1>1, <2>2, WriterFiles DEF SerialFiles, DescriptorPrivate
    <3>4. /\ Len(a) \in Nat /\ Len(body) \in Nat /\ Len(a \o body) = Len(a) + Len(body)
          /\ \A k \in 1..Len(a) : (a \o body)[k] = a[k]
          /\ \A k \in 1..Len(body) : (a \o body)[Len(a) + k] = body[k]
      BY Joined
    <3>5. ASSUME NEW k \in 1..Len(a \o body) PROVE s[k] = (a \o body)[k]
      <4>1. CASE k <= off
        BY <3>2, <3>4, <4>1 DEF Begins
      <4>2. CASE k > off
        <5>1. PICK j \in 1..Len(body) : k = off + j
          <6>1. k - off \in 1..Len(body) /\ k = off + (k - off)
            BY <3>2, <3>4, <4>2
          <6> QED BY <6>1
        <5> QED
          BY <3>2, <3>4, <5>1
      <4> QED
        BY <3>2, <3>4, <4>1, <4>2
    <3>6. Begins(a \o body, s)
      BY <3>2, <3>4, <3>5 DEF Begins
    <3> QED
      BY <3>1, <3>3, <3>6
  <2>3. ~IsExpired(h[r].sess) => staging[h[r].u] # None
    BY <1>1, WriterFiles
  <2>4. AppendProgress(r)'
    BY <1>1, <1>2, <2>1, <2>2, <2>3 DEF AppendProgress, IsExpired
  <2>5. FinalizeProgress(r)'
    BY <2>1 DEF FinalizeProgress, CompletePCs, OpenPCs, ReadPCs
  <2> QED
    BY <2>1, <2>4, <2>5, ClosedDescriptor DEF FilesOK
<1> QED
  BY <1>2, FinishedFiles DEF EndWrite

\* The three readings of the staged file start from nothing read.
LEMMA OpenStagingFiles ==
  ASSUME Inductive, Inductive', SerialSessions, SerialFiles, NEW r \in Requests, OpenStaging(r)
  PROVE  FilesOK(r)'
<1>1. h[r].pc \in OpenPCs /\ UNCHANGED <<clock, staging, objects, data, acked>>
  BY DEF OpenStaging, files, hist
<1>2. h[r].pc # "idle" /\ h[r].pc # "unlink"
  BY <1>1 DEF OpenPCs
<1>3. PICK u \in UploadIDs : u = h[r].u
  BY <1>2, InFlightHandler
<1>t. h \in [Requests -> Handler] /\ h[r] \in Handler /\ FinalizeProgress(r)
  BY DEF Inductive, TypeOK, SerialFiles
<1>4. ASSUME NEW pc \in ReadPCs, staging[u] # None, pc # "hash" => h[r].pc # "openhash",
             Become(r, [h[r] EXCEPT !.fd = staging[u], !.buf = << >>, !.pc = pc])
      PROVE  FilesOK(r)'
  <2>1. /\ h'[r].pc = pc /\ h'[r].fd = staging[u] /\ h'[r].u = u /\ h'[r].sess = h[r].sess
        /\ h'[r].digest = h[r].digest /\ h'[r].buf = << >>
    BY <1>3, <1>4, <1>t DEF Become, Handler
  <2>2. DescriptorPrivate(r)'
    BY <1>1, <1>2, <1>3, <1>4, <2>1, OpenedDescriptor DEF Acts, GateStep
  <2>3. AppendProgress(r)'
    BY <1>4, <2>1 DEF AppendProgress, ReadPCs
  <2>4. Begins(<< >>, data[staging[u]])
    BY <1>4, EmptyBegins DEF Inductive, TypeOK
  <2>5. /\ pc # "hash" => data[staging[u]] = h[r].digest
        /\ objects[h[r].sess.node] = None => Begins(acked[u], data[staging[u]])
    BY <1>1, <1>3, <1>4, <1>t DEF FinalizeProgress, OpenPCs, CompletePCs
  <2>6. FinalizeProgress(r)'
    BY <1>1, <1>4, <2>1, <2>4, <2>5 DEF FinalizeProgress, ReadPCs
  <2> QED
    BY <2>2, <2>3, <2>6 DEF FilesOK
<1>5. ASSUME staging[u] # None
      PROVE  \E pc \in ReadPCs : /\ pc # "hash" => h[r].pc # "openhash"
                                 /\ Become(r, [h[r] EXCEPT !.fd = staging[u], !.buf = << >>, !.pc = pc])
  BY <1>1, <1>3, <1>5 DEF OpenStaging, OpenPCs, ReadPCs
<1>6. staging[u] = None => Finish(r)
  BY <1>3 DEF OpenStaging
<1> QED
  BY <1>4, <1>5, <1>6, FinishedFiles

\* What has been read of a file is how it begins.
LEMMA ReadBlockFiles ==
  ASSUME Inductive, SerialSessions, SerialFiles, NEW r \in Requests, ReadBlock(r)
  PROVE  FilesOK(r)'
<1>1. h[r].pc \in ReadPCs /\ UNCHANGED <<clock, staging, objects, data, acked>> /\ ~AllRead(r)
  BY DEF ReadBlock, files, hist
<1>2. h[r].pc # "idle"
  BY <1>1 DEF ReadPCs
<1>t. /\ h \in [Requests -> Handler] /\ h[r] \in Handler /\ FinalizeProgress(r)
      /\ h[r].fd \in Inodes /\ data \in [Inodes -> Content]
  BY <1>1 DEF Inductive, TypeOK, SerialFiles, HandlersOK, WriterInBounds
<1>3. /\ h'[r].pc = h[r].pc /\ h'[r].fd = h[r].fd /\ h'[r].u = h[r].u /\ h'[r].sess = h[r].sess
      /\ h'[r].digest = h[r].digest
      /\ h'[r].buf = Append(h[r].buf, data[h[r].fd][Len(h[r].buf) + 1])
  BY <1>t DEF ReadBlock, Become, Handler
<1>4. DescriptorPrivate(r)'
  BY <1>1, <1>3, KeptDescriptor DEF Acts, GateStep
<1>5. AppendProgress(r)'
  BY <1>1, <1>3 DEF AppendProgress, ReadPCs
<1>6. ASSUME h[r].pc = "hash"
      PROVE  Begins(h'[r].buf, data[h[r].fd])
  <2>1. PICK s \in Content, c \in Content : s = h[r].buf /\ c = data[h[r].fd]
    BY <1>2, <1>t, InFlightHandler
  <2>2. Begins(s, c) /\ Len(s) < Len(c) /\ Len(s) \in Nat /\ Len(c) \in Nat
    BY <1>1, <1>6, <1>t, <2>1 DEF FinalizeProgress, AllRead, Content
  <2>3. Len(s) + 1 \in 1..Len(c) /\ c[Len(s) + 1] \in Byte
    BY <2>2 DEF Content
  <2>4. PICK t : t = Append(s, c[Len(s) + 1])
    OBVIOUS
  <2>5. /\ Len(t) = Len(s) + 1 /\ t[Len(s) + 1] = c[Len(s) + 1]
        /\ \A k \in 1..Len(s) : t[k] = s[k]
    BY <2>3, <2>4 DEF Content
  <2>6. \A k \in 1..Len(t) : c[k] = t[k]
    BY <2>2, <2>5 DEF Begins
  <2>7. Begins(t, c)
    BY <2>2, <2>5, <2>6 DEF Begins
  <2> QED
    BY <1>3, <2>1, <2>4, <2>7
<1>7. FinalizeProgress(r)'
  BY <1>1, <1>3, <1>6, <1>t DEF FinalizeProgress, ReadPCs
<1> QED
  BY <1>4, <1>5, <1>7 DEF FilesOK

\* The first hash is that of the whole staged file.
LEMMA EndHashFiles ==
  ASSUME Inductive, SerialSessions, SerialFiles, NEW r \in Requests, EndHash(r)
  PROVE  FilesOK(r)'
<1>1. h[r].pc = "hash" /\ UNCHANGED <<clock, staging, objects, data, acked>> /\ AllRead(r)
  BY DEF EndHash, files, hist
<1>t. /\ h \in [Requests -> Handler] /\ h[r] \in Handler /\ FinalizeProgress(r) /\ DescriptorPrivate(r)
      /\ h[r].fd \in Inodes /\ data \in [Inodes -> Content]
  BY <1>1 DEF Inductive, TypeOK, SerialFiles, HandlersOK, WriterInBounds, ReadPCs
<1>2. /\ h'[r].pc = "openscan" /\ h'[r].fd = None /\ h'[r].u = h[r].u /\ h'[r].sess = h[r].sess
      /\ h'[r].digest = h[r].buf
  BY <1>t DEF EndHash, Become, Handler
<1>3. h[r].buf = data[h[r].fd]
  <2>1. PICK s \in Content, c \in Content : s = h[r].buf /\ c = data[h[r].fd]
    BY <1>1, <1>t, InFlightHandler
  <2>2. Begins(s, c) /\ Len(s) >= Len(c)
    BY <1>1, <1>t, <2>1 DEF FinalizeProgress, AllRead
  <2> QED
    BY <2>1, <2>2, BeginsWhole
<1>4. staging[h[r].u] # None => staging[h[r].u] = h[r].fd
  BY <1>t, ValuesAssumption DEF DescriptorPrivate
<1>5. AppendProgress(r)'
  BY <1>2 DEF AppendProgress
<1>6. FinalizeProgress(r)'
  BY <1>1, <1>2, <1>3, <1>4, <1>t DEF FinalizeProgress, CompletePCs, ReadPCs, OpenPCs
<1> QED
  BY <1>2, <1>5, <1>6, ClosedDescriptor DEF FilesOK

\* From one step of the gate to the next, with the file closed, nothing changes.
LEMMA GateGoesOn ==
  ASSUME SerialFiles, NEW r \in Requests,
         h[r].pc \in {"scan", "evaluate", "rehash", "recheck"},
         h'[r].pc \in {"evaluate", "openrehash", "recheck", "link"},
         h'[r].u = h[r].u, h'[r].sess = h[r].sess, h'[r].digest = h[r].digest, h'[r].fd = None,
         UNCHANGED <<staging, objects, data, acked>>
  PROVE  FilesOK(r)'
<1>1. FinalizeProgress(r)
  BY DEF SerialFiles
<1>2. AppendProgress(r)'
  BY DEF AppendProgress
<1>3. FinalizeProgress(r)'
  BY <1>1 DEF FinalizeProgress, CompletePCs, ReadPCs, OpenPCs
<1> QED
  BY <1>2, <1>3, ClosedDescriptor DEF FilesOK

\* The scan, its evaluation, the second hash and the second look at the expiry.
LEMMA GateFiles ==
  ASSUME Inductive, SerialSessions, SerialFiles, NEW r \in Requests,
         Scan(r) \/ EvaluateVerdict(r) \/ EndRehash(r) \/ Recheck(r)
  PROVE  FilesOK(r)'
<1>t. h \in [Requests -> Handler] /\ h[r] \in Handler /\ DescriptorPrivate(r)
  BY DEF Inductive, TypeOK, SerialFiles
<1>1. CASE Scan(r)
  <2>1. ASSUME NEW env, Become(r, [h[r] EXCEPT !.pc = "evaluate", !.fd = None, !.buf = << >>,
                                              !.env = env])
        PROVE  FilesOK(r)'
    <3>1. /\ h[r].pc = "scan" /\ UNCHANGED <<staging, objects, data, acked>>
      BY <1>1 DEF Scan, files, hist
    <3>2. /\ h'[r].pc = "evaluate" /\ h'[r].u = h[r].u /\ h'[r].sess = h[r].sess
          /\ h'[r].digest = h[r].digest /\ h'[r].fd = None
      BY <1>t, <2>1 DEF Become, Handler
    <3> QED
      BY <3>1, <3>2, GateGoesOn
  <2> QED
    BY <1>1, <2>1, FinishedFiles DEF Scan
<1>2. CASE EvaluateVerdict(r)
  <2>1. /\ h[r].pc = "evaluate" /\ UNCHANGED <<staging, objects, data, acked>>
        /\ Finish(r) \/ Become(r, [h[r] EXCEPT !.pc = "openrehash", !.evalAt = clock])
    BY <1>2 DEF EvaluateVerdict, files, hist
  <2>2. h[r].fd = None
    BY <1>t, <2>1 DEF DescriptorPrivate, ReadPCs
  <2>3. ASSUME Become(r, [h[r] EXCEPT !.pc = "openrehash", !.evalAt = clock])
        PROVE  /\ h'[r].pc = "openrehash" /\ h'[r].u = h[r].u /\ h'[r].sess = h[r].sess
               /\ h'[r].digest = h[r].digest /\ h'[r].fd = None
    BY <1>t, <2>2, <2>3 DEF Become, Handler
  <2> QED
    BY <2>1, <2>3, GateGoesOn, FinishedFiles
<1>3. CASE EndRehash(r)
  <2>1. /\ h[r].pc = "rehash" /\ UNCHANGED <<staging, objects, data, acked>>
        /\ Finish(r) \/ Become(r, [h[r] EXCEPT !.pc = "recheck", !.fd = None])
    BY <1>3 DEF EndRehash, files, hist
  <2>2. ASSUME Become(r, [h[r] EXCEPT !.pc = "recheck", !.fd = None])
        PROVE  /\ h'[r].pc = "recheck" /\ h'[r].u = h[r].u /\ h'[r].sess = h[r].sess
               /\ h'[r].digest = h[r].digest /\ h'[r].fd = None
    BY <1>t, <2>2 DEF Become, Handler
  <2> QED
    BY <2>1, <2>2, GateGoesOn, FinishedFiles
<1>4. CASE Recheck(r)
  <2>1. /\ h[r].pc = "recheck"
        /\ \/ Finish(r)
           \/ /\ Become(r, [h[r] EXCEPT !.pc = "link", !.checkedAt = clock])
              /\ UNCHANGED <<staging, objects, data, acked>>
    BY <1>4 DEF Recheck, hist
  <2>2. h[r].fd = None
    BY <1>t, <2>1 DEF DescriptorPrivate, ReadPCs
  <2>3. ASSUME Become(r, [h[r] EXCEPT !.pc = "link", !.checkedAt = clock])
        PROVE  /\ h'[r].pc = "link" /\ h'[r].u = h[r].u /\ h'[r].sess = h[r].sess
               /\ h'[r].digest = h[r].digest /\ h'[r].fd = None
    BY <1>t, <2>2, <2>3 DEF Become, Handler
  <2> QED
    BY <2>1, <2>3, GateGoesOn, FinishedFiles
<1> QED
  BY <1>1, <1>2, <1>3, <1>4

\* A link publishes the staged file, with what was acknowledged; the unlink
\* leaves the object alone.
LEMMA LinkFiles ==
  ASSUME Inductive, SerialSessions, SerialFiles, NEW r \in Requests, Link(r) \/ Unlink(r)
  PROVE  FilesOK(r)'
<1>t. /\ h \in [Requests -> Handler] /\ h[r] \in Handler /\ DescriptorPrivate(r) /\ FinalizeProgress(r)
      /\ objects \in [Nodes -> Inodes \cup {None}] /\ staging \in [UploadIDs -> Inodes \cup {None}]
  BY DEF Inductive, TypeOK, SerialFiles
<1>1. h[r].pc \in {"link", "unlink"} /\ UNCHANGED <<data, acked>>
  BY DEF Link, Unlink, hist
<1>2. PICK u \in UploadIDs, n \in Nodes : u = h[r].u /\ n = h[r].sess.node
  BY <1>1, InFlightHandler
<1>3. h[r].fd = None
  BY <1>1, <1>t DEF DescriptorPrivate, ReadPCs
<1>4. ASSUME NEW pc \in {"unlink", "complete"}, Become(r, [h[r] EXCEPT !.pc = pc]),
             IF pc = "unlink" THEN staging'[u] \in {None, objects'[n]} ELSE staging'[u] = None,
             Begins(acked[u], data[objects'[n]])
      PROVE  FilesOK(r)'
  <2>1. h'[r].pc = pc /\ h'[r].u = u /\ h'[r].sess = h[r].sess /\ h'[r].fd = None
    BY <1>2, <1>3, <1>4, <1>t DEF Become, Handler
  <2>2. AppendProgress(r)'
    BY <2>1 DEF AppendProgress
  <2>3. FinalizeProgress(r)'
    BY <1>1, <1>2, <1>4, <2>1 DEF FinalizeProgress
  <2> QED
    BY <2>1, <2>2, <2>3, ClosedDescriptor DEF FilesOK
<1>5. CASE Link(r)
  <2>1. ASSUME ~Finish(r) PROVE FilesOK(r)'
    <3>1. /\ h[r].pc = "link" /\ staging[u] # None /\ objects[n] = None /\ staging' = staging
          /\ objects' = [objects EXCEPT ![n] = staging[u]]
          /\ Become(r, [h[r] EXCEPT !.pc = "unlink"])
      BY <1>2, <1>5, <2>1 DEF Link
    <3>2. Begins(acked[u], data[staging[u]])
      BY <1>2, <1>t, <3>1 DEF FinalizeProgress, CompletePCs
    <3>3. objects'[n] = staging[u]
      BY <1>t, <3>1
    <3> QED
      BY <1>4, <3>1, <3>2, <3>3
  <2> QED
    BY <2>1, FinishedFiles
<1>6. CASE Unlink(r)
  <2>1. ASSUME ~Finish(r) PROVE FilesOK(r)'
    <3>1. /\ h[r].pc = "unlink" /\ staging' = [staging EXCEPT ![u] = None] /\ objects' = objects
          /\ Become(r, [h[r] EXCEPT !.pc = "complete"])
      BY <1>2, <1>6, <2>1 DEF Unlink
    <3>2. Begins(acked[u], data[objects[n]])
      BY <1>2, <1>t, <3>1 DEF FinalizeProgress
    <3> QED
      BY <1>4, <1>t, <3>1, <3>2
  <2> QED
    BY <2>1, FinishedFiles
<1> QED
  BY <1>5, <1>6

\* Every handler keeps what it relies on.
LEMMA HandlersFilesStep ==
  ASSUME Inductive, Inductive', SerialSessions, SerialFiles, [Next]_vars, NEW q \in Requests
  PROVE  FilesOK(q)'
<1>i. ASSUME h'[q] = h[q], h[q].pc = "idle" PROVE FilesOK(q)'
  <2>1. DescriptorPrivate(q)
    BY DEF SerialFiles
  <2>2. h[q].fd = None
    BY <1>i, <2>1 DEF DescriptorPrivate, ReadPCs
  <2> QED
    BY <1>i, <2>2, AnsweredFiles
<1>1. CASE h'[q] = h[q]
  BY <1>1, <1>i, UntouchedFiles
<1>2. CASE Restart
  <2>1. h'[q].pc = "idle" /\ h'[q].fd = None
    BY <1>2, IdleFields DEF Restart
  <2> QED
    BY <2>1, AnsweredFiles
<1>3. CASE Acts(q)
  <2>1. CASE UpdateOffset(q) \/ UpdateCompleted(q) \/ Fail(q)
    BY <2>1, FinishedFiles DEF UpdateOffset, UpdateCompleted, Fail
  <2> QED
    BY <1>3, <2>1, StartFiles, OpenAppendFiles, WriteBlockFiles, EndWriteFiles, OpenStagingFiles,
       ReadBlockFiles, EndHashFiles, GateFiles, LinkFiles
    DEF Acts, AppendStep, GateStep, FinalizeStep
<1>4. ASSUME NEW r \in Requests, Acts(r), r # q PROVE h'[q] = h[q]
  BY <1>4, OthersUntouched DEF Inductive
<1> QED
  BY <1>1, <1>2, <1>3, <1>4, HandlersFrame

-----------------------------------------------------------------------------
(* The files themselves. *)

\* A session that a restart lost stays lost.
LEMMA LostStays ==
  ASSUME Sound, SerialSessions, [Next]_vars, NEW u \in UploadIDs, repo[u].state = "lost"
  PROVE  repo'[u].state = "lost"
<1>t. repo \in [UploadIDs -> Session] /\ repo[u] \in Session
  BY DEF Sound, TypeOK
<1>1. ASSUME NEW r \in Requests, UpdateOffset(r) \/ UpdateCompleted(r) PROVE repo'[u] = repo[u]
  <2>1. h[r].u # u
    BY <1>1 DEF UpdateOffset, UpdateCompleted, SerialSessions, HandlerAlone
  <2> QED
    BY <1>1, <1>t, <2>1 DEF UpdateOffset, UpdateCompleted
<1>2. ASSUME NEW v \in UploadIDs, NEW n \in Nodes, Create(v, n) PROVE repo'[u] = repo[u]
  BY <1>2, <1>t DEF Create
<1>3. ASSUME Restart PROVE repo'[u].state = "lost"
  BY <1>3, <1>t DEF Restart, Session
<1> QED
  BY <1>1, <1>2, <1>3, RepoFrame

\* A handler at the unlink leaves it by the unlink.
LEMMA AtUnlink ==
  ASSUME Sound, "unlink" \notin Faults, NEW r \in Requests, h[r].pc = "unlink", Acts(r)
  PROVE  Unlink(r)
BY DEF Acts, StartComplete, StartAppend, Get, AppendStep, OpenAppend, WriteBlock, EndWrite,
       UpdateOffset, GateStep, OpenStaging, ReadBlock, EndHash, Scan, EvaluateVerdict, EndRehash,
       FinalizeStep, Recheck, Link, UpdateCompleted, Fail, OpenPCs, ReadPCs

\* Two names of one file are the link's doing, and do not outlive it unless the
\* session is lost.
LEMMA TwoNamesStep ==
  ASSUME ~Durable, "unlink" \notin Faults, Inductive, SerialSessions, SerialFiles, [Next]_vars
  PROVE  TwoNames'
<1> SUFFICES ASSUME NEW u \in UploadIDs, NEW n \in Nodes,
                    staging'[u] # None, staging'[u] = objects'[n], repo'[u].state # "lost"
             PROVE  \E r \in Requests : h'[r].pc = "unlink" /\ h'[r].u = u
  BY DEF TwoNames
<1>1. ASSUME NEW r \in Requests, Link(r), h[r].u \in UploadIDs, staging[h[r].u] # None,
             objects'[n] = staging[h[r].u], objects'[n] # objects[n]
      PROVE  h'[r].pc = "unlink" /\ h'[r].u = u
  <2>1. staging' = staging
    BY <1>1 DEF Link
  <2>2. h[r].u = u
    BY <1>1, <2>1 DEF Inductive, StagingIsPrivate
  <2>3. Become(r, [h[r] EXCEPT !.pc = "unlink"]) /\ h \in [Requests -> Handler]
    BY <1>1 DEF Link, Inductive, TypeOK
  <2> QED
    BY <2>2, <2>3 DEF Become, Handler
<1>2. CASE objects'[n] = objects[n]
  <2>1. staging'[u] = staging[u]
    BY <1>2, StagingNext DEF Free
  <2>2. repo[u].state # "lost"
    BY LostStays
  <2>3. PICK r \in Requests : h[r].pc = "unlink" /\ h[r].u = u
    BY <1>2, <2>1, <2>2 DEF SerialFiles, TwoNames
  <2>4. CASE h'[r] = h[r]
    BY <2>3, <2>4
  <2>5. CASE Restart
    <3>1. repo \in [UploadIDs -> Session] /\ repo[u].state = "active"
      BY <2>3 DEF Inductive, TypeOK, SerialSessions, HandlerAlone
    <3>2. repo'[u].state = "lost"
      BY <2>5, <3>1 DEF Restart, Session
    <3> QED
      BY <3>2
  <2>6. ASSUME Acts(r) PROVE FALSE
    <3>1. Unlink(r)
      BY <2>3, <2>6, AtUnlink
    <3>2. staging'[u] = None
      BY <2>3, <3>1 DEF Unlink, Inductive, TypeOK
    <3> QED
      BY <3>2
  <2>7. ASSUME NEW q \in Requests, Acts(q), q # r PROVE h'[r] = h[r]
    BY <2>7, OthersUntouched DEF Inductive
  <2> QED
    BY <2>4, <2>5, <2>6, <2>7, HandlersFrame
<1> QED
  BY <1>1, <1>2, ObjectsNext

\* What was acknowledged stays at the beginning of the staged file.
LEMMA StagedPrefix ==
  ASSUME Inductive, SerialSessions, SerialFiles, [Next]_vars, NEW u \in UploadIDs,
         staging[u] # None, Begins(acked[u], data[staging[u]])
  PROVE  Begins(acked[u], data'[staging[u]])
<1>1. ASSUME NEW r \in Requests, WriteBlock(r) \/ EndWrite(r), h[r].u = u
      PROVE  Begins(acked[u], data'[staging[u]])
  <2>1. h[r].pc = "write"
    BY <1>1 DEF WriteBlock, EndWrite
  <2>2. staging[u] = h[r].fd
    BY <1>1, <2>1, WriterFiles DEF SerialFiles, DescriptorPrivate
  <2>3. CASE WriteBlock(r)
    BY <1>1, <2>2, <2>3, BlockWritten
  <2>4. CASE EndWrite(r) /\ data' = data
    BY <2>4
  <2>5. CASE data' = [data EXCEPT ![h[r].fd] = Resize(data[h[r].fd], h[r].sess.offset)]
    <3>1. PICK s \in Content, off \in Nat, a \in Content :
            s = data[h[r].fd] /\ off = h[r].sess.offset /\ a = acked[u]
      BY <1>1, <2>1, WriterFiles, InFlightHandler
    <3>2. Begins(a, s) /\ Len(a) = off /\ h[r].fd \in Inodes
      BY <1>1, <2>1, <3>1, WriterFiles
    <3>3. off <= Len(s)
      BY <3>2 DEF Begins
    <3>4. /\ Len(Resize(s, off)) = off
          /\ \A k \in 1..off : Resize(s, off)[k] = s[k]
      BY <3>3, Resized
    <3>5. Begins(a, Resize(s, off))
      BY <3>2, <3>4 DEF Begins
    <3>6. data'[h[r].fd] = Resize(s, off)
      BY <2>5, <3>1, <3>2 DEF Inductive, TypeOK
    <3> QED
      BY <2>2, <3>1, <3>5, <3>6
  <2> QED
    BY <1>1, <2>3, <2>4, <2>5 DEF EndWrite
<1>2. CASE \A r \in Requests : WriteBlock(r) \/ EndWrite(r) => h[r].u # u
  BY <1>2, StagedKept
<1> QED
  BY <1>1, <1>2

\* An append that is acknowledged adds to what the staged file is known to hold.
LEMMA AckedContinues ==
  ASSUME Inductive, SerialSessions, SerialFiles, NEW r \in Requests, UpdateOffset(r),
         staging[h[r].u] # None
  PROVE  /\ staging' = staging /\ data' = data
         /\ Begins(acked'[h[r].u], data[staging[h[r].u]])
<1>1. h[r].pc = "update" /\ staging' = staging /\ data' = data
  BY DEF UpdateOffset, files
<1>2. Begins(acked[h[r].u] \o h[r].body, data[staging[h[r].u]])
  BY <1>1 DEF SerialFiles, AppendProgress
<1>3. h[r].u \in UploadIDs /\ acked' = [acked EXCEPT ![h[r].u] = acked[h[r].u] \o h[r].body]
  BY UpdateEffect
<1>4. acked'[h[r].u] = acked[h[r].u] \o h[r].body
  BY <1>3 DEF Inductive, TypeOK
<1> QED
  BY <1>1, <1>2, <1>4

\* What one upload has acknowledged changes by its own acknowledgements only.
LEMMA AckedNext ==
  ASSUME Inductive, SerialSessions, [Next]_vars, NEW u \in UploadIDs
  PROVE  acked'[u] = acked[u] \/ \E r \in Requests : UpdateOffset(r) /\ h[r].u = u
<1>1. ASSUME NEW r \in Requests, UpdateOffset(r), h[r].u # u PROVE acked'[u] = acked[u]
  <2>1. h[r].u \in UploadIDs /\ acked' = [acked EXCEPT ![h[r].u] = acked[h[r].u] \o h[r].body]
    BY <1>1, UpdateEffect
  <2> QED
    BY <1>1, <2>1 DEF Inductive, TypeOK
<1> QED
  BY <1>1, AckedFrame

LEMMA StagedContinuesStep ==
  ASSUME Inductive, SerialSessions, SerialFiles, [Next]_vars
  PROVE  StagedContinues'
<1> SUFFICES ASSUME NEW u \in UploadIDs
             PROVE  /\ staging'[u] # None => \/ data'[staging'[u]] = << >>
                                             \/ Begins(acked'[u], data'[staging'[u]])
                    /\ repo'[u].state = "completed" => staging'[u] = None
  BY DEF StagedContinues
<1>s. /\ staging[u] # None => data[staging[u]] = << >> \/ Begins(acked[u], data[staging[u]])
      /\ repo[u].state = "completed" => staging[u] = None
  BY DEF SerialFiles, StagedContinues
<1>1. ASSUME staging'[u] # None
      PROVE  data'[staging'[u]] = << >> \/ Begins(acked'[u], data'[staging'[u]])
  <2>1. CASE staging[u] = None
    BY <1>1, <2>1, StagingNext
  <2>2. CASE staging[u] # None
    <3>1. staging'[u] = staging[u]
      BY <1>1, <2>2, StagingNext
    <3>2. ASSUME NEW r \in Requests, UpdateOffset(r), h[r].u = u
          PROVE  Begins(acked'[u], data'[staging'[u]])
      BY <2>2, <3>1, <3>2, AckedContinues
    <3>3. ASSUME NEW r \in Requests, WriteBlock(r) \/ EndWrite(r), h[r].u = u
          PROVE  Begins(acked[u], data[staging[u]]) /\ acked'[u] = acked[u]
      <4>1. h[r].pc = "write" /\ acked' = acked
        BY <3>3 DEF WriteBlock, EndWrite, hist
      <4>2. staging[u] = h[r].fd
        BY <2>2, <3>3, <4>1, WriterFiles DEF SerialFiles, DescriptorPrivate
      <4> QED
        BY <3>3, <4>1, <4>2, WriterFiles
    <3>4. CASE /\ \A r \in Requests : WriteBlock(r) \/ EndWrite(r) => h[r].u # u
               /\ acked'[u] = acked[u]
      BY <1>s, <2>2, <3>1, <3>4, StagedKept
    <3>5. CASE acked'[u] = acked[u] /\ Begins(acked[u], data[staging[u]])
      BY <2>2, <3>1, <3>5, StagedPrefix
    <3> QED
      BY <3>2, <3>3, <3>4, <3>5, AckedNext
  <2> QED
    BY <2>1, <2>2
<1>2. ASSUME repo'[u].state = "completed" PROVE staging'[u] = None
  <2>1. ASSUME repo[u].state # "active", staging[u] = None PROVE staging'[u] = None
    <3>1. ASSUME NEW r \in Requests, OpenAppend(r) PROVE h[r].u # u
      <4>1. h[r].pc = "open" /\ HandlerAlone(r)
        BY <3>1 DEF OpenAppend, SerialSessions
      <4>2. repo[h[r].u].state = "active"
        BY <4>1 DEF HandlerAlone
      <4> QED
        BY <2>1, <4>2
    <3> QED
      BY <2>1, <3>1, StagingNext
  <2>2. CASE repo[u].state = "completed"
    BY <1>s, <2>1, <2>2
  <2>3. CASE repo[u].state # "completed"
    <3>t. repo \in [UploadIDs -> Session]
      BY DEF Inductive, TypeOK
    <3>1. ASSUME Restart PROVE FALSE
      BY <1>2, <2>3, <3>1, <3>t DEF Restart, Session
    <3>2. ASSUME NEW v \in UploadIDs, NEW n \in Nodes, Create(v, n) PROVE FALSE
      BY <1>2, <2>3, <3>2, <3>t DEF Create
    <3>3. ASSUME NEW r \in Requests, UpdateOffset(r) PROVE FALSE
      <4>1. h[r].sess.state = "active"
        BY <3>3, InFlightHandler DEF UpdateOffset
      <4> QED
        BY <1>2, <2>3, <3>3, <3>t, <4>1 DEF UpdateOffset
    <3>4. ASSUME NEW r \in Requests, UpdateCompleted(r) PROVE staging'[u] = None
      <4>1. h[r].u = u /\ h[r].pc = "complete" /\ staging' = staging
        BY <1>2, <2>3, <3>4, <3>t DEF UpdateCompleted, files
      <4> QED
        BY <4>1 DEF SerialFiles, FinalizeProgress
    <3> QED
      BY <1>2, <2>3, <3>1, <3>2, <3>3, <3>4, RepoFrame
  <2> QED
    BY <2>2, <2>3
<1> QED
  BY <1>1, <1>2

\* The object of a node holds what was inspected: the link publishes a file
\* that has the inspected content, and no step changes an object.
LEMMA PublishedIsVerifiedStep ==
  ASSUME Inductive, SerialSessions, SerialFiles, [Next]_vars
  PROVE  PublishedIsVerified'
<1> SUFFICES ASSUME NEW n \in Nodes, pub'[n] # None
             PROVE  data'[objects'[n]] = pub'[n].digest
  BY DEF PublishedIsVerified
<1>1. CASE objects'[n] = objects[n] /\ pub'[n] = pub[n]
  <2>1. objects[n] # None
    BY <1>1 DEF Inductive, PublicationsMatch
  <2>2. data[objects[n]] = pub[n].digest
    BY <1>1 DEF SerialFiles, PublishedIsVerified
  <2> QED
    BY <1>1, <2>1, <2>2, ObjectKept
<1>2. ASSUME NEW r \in Requests, Link(r), staging[h[r].u] # None, objects'[n] = staging[h[r].u],
             pub'[n].digest = h[r].digest
      PROVE  data'[objects'[n]] = pub'[n].digest
  <2>1. data' = data /\ h[r].pc = "link"
    BY <1>2 DEF Link
  <2>2. data[staging[h[r].u]] = h[r].digest
    BY <1>2, <2>1 DEF SerialFiles, FinalizeProgress, CompletePCs
  <2> QED
    BY <1>2, <2>1, <2>2
<1> QED
  BY <1>1, <1>2, ObjectsNext

\* Acknowledged bytes stay stored.
LEMMA AckedBytesDurableStep ==
  ASSUME Inductive, SerialSessions, SerialFiles, [Next]_vars
  PROVE  AckedBytesDurable'
<1> SUFFICES ASSUME NEW u \in UploadIDs, acked'[u] # << >>,
                    \/ repo'[u].state = "completed"
                    \/ repo'[u].state = "active" /\ ~(clock' >= repo'[u].expires)
             PROVE  \E i \in Holders(u)' : Begins(acked'[u], data'[i])
  BY DEF AckedBytesDurable, IsExpired
<1>t. /\ repo \in [UploadIDs -> Session] /\ repo[u] \in Session /\ clock \in Nat
      /\ acked \in [UploadIDs -> Content]
  BY DEF Inductive, TypeOK
\* The two places where the bytes may be.
<1>s. ASSUME staging'[u] # None, Begins(acked'[u], data'[staging'[u]])
      PROVE  \E i \in Holders(u)' : Begins(acked'[u], data'[i])
  BY <1>s DEF Holders
<1>o. ASSUME NEW n \in Nodes, pub[n] # None, pub[n].by = u, Begins(acked'[u], data[objects[n]])
      PROVE  \E i \in Holders(u)' : Begins(acked'[u], data'[i])
  <2>1. objects[n] # None
    BY <1>o DEF Inductive, PublicationsMatch
  <2>2. objects'[n] = objects[n] /\ pub'[n] = pub[n] /\ data'[objects[n]] = data[objects[n]]
    BY <2>1, PublicationsSettled, ObjectKept DEF Inductive
  <2>3. objects'[n] \in Holders(u)'
    BY <1>o, <2>1, <2>2 DEF Holders
  <2> QED
    BY <1>o, <2>2, <2>3
<1>1. ASSUME NEW r \in Requests, UpdateOffset(r), h[r].u = u
      PROVE  \E i \in Holders(u)' : Begins(acked'[u], data'[i])
  <2>1. h[r].pc = "update" /\ clock' = clock
    BY <1>1 DEF UpdateOffset
  <2>2. repo'[u].state = "active" /\ repo'[u].expires = repo[u].expires
    BY <1>1, UpdateEffect
  <2>3. ~IsExpired(h[r].sess)
    BY <1>1, <2>1, <2>2, InFlightHandler DEF IsExpired
  <2>4. staging[u] # None
    BY <1>1, <2>1, <2>3 DEF SerialFiles, AppendProgress
  <2> QED
    BY <1>1, <1>s, <2>4, AckedContinues
<1>2. ASSUME NEW r \in Requests, UpdateCompleted(r), h[r].u = u, acked'[u] = acked[u]
      PROVE  \E i \in Holders(u)' : Begins(acked'[u], data'[i])
  <2>1. h[r].pc = "complete"
    BY <1>2 DEF UpdateCompleted
  <2>2. PICK n \in Nodes : n = h[r].sess.node
    BY <2>1, InFlightHandler
  <2>3. pub[n] # None /\ pub[n].by = u
    BY <1>2, <2>1, <2>2 DEF Inductive, FinalizersOwn, FinalizerOwns
  <2>4. Begins(acked[u], data[objects[n]])
    BY <1>2, <2>1, <2>2 DEF SerialFiles, FinalizeProgress
  <2> QED
    BY <1>2, <1>o, <2>3, <2>4
<1>3. ASSUME acked'[u] = acked[u], repo'[u] = repo[u]
      PROVE  \E i \in Holders(u)' : Begins(acked'[u], data'[i])
  <2>1. repo[u].state = "completed" \/ (repo[u].state = "active" /\ ~IsExpired(repo[u]))
    <3>1. repo[u].expires \in Nat /\ clock' \in Nat /\ clock <= clock'
      BY <1>t, ClockAdvances DEF Session, Inductive
    <3> QED
      BY <1>3, <1>t, <3>1 DEF IsExpired
  <2>2. PICK i \in Holders(u) : Begins(acked[u], data[i])
    BY <1>3, <2>1 DEF SerialFiles, AckedBytesDurable
  <2>3. ASSUME NEW n \in Nodes, pub[n] # None, pub[n].by = u, i = objects[n]
        PROVE  \E j \in Holders(u)' : Begins(acked'[u], data'[j])
    BY <1>3, <1>o, <2>2, <2>3
  <2>4. ASSUME i = staging[u], i # None
        PROVE  \E j \in Holders(u)' : Begins(acked'[u], data'[j])
    <3>1. repo[u].state = "active" /\ ~IsExpired(repo[u])
      BY <2>1, <2>4 DEF SerialFiles, StagedContinues
    <3>2. CASE staging'[u] = staging[u]
      BY <1>3, <1>s, <2>2, <2>4, <3>2, StagedPrefix
    <3>3. ASSUME Expire(u) PROVE FALSE
      BY <3>1, <3>3 DEF Expire
    <3>4. ASSUME NEW r \in Requests, h[r].u = u, Recheck(r), IsExpired(h[r].sess) PROVE FALSE
      BY <3>1, <3>4, InFlightHandler DEF Recheck, IsExpired
    <3>5. ASSUME NEW r \in Requests, h[r].u = u, Unlink(r)
          PROVE  \E j \in Holders(u)' : Begins(acked'[u], data'[j])
      <4>1. h[r].pc = "unlink"
        BY <3>5 DEF Unlink
      <4>2. PICK n \in Nodes : n = h[r].sess.node
        BY <4>1, InFlightHandler
      <4>3. pub[n] # None /\ pub[n].by = u
        BY <3>5, <4>1, <4>2 DEF Inductive, FinalizersOwn, FinalizerOwns
      <4>4. Begins(acked[u], data[objects[n]])
        BY <3>5, <4>1, <4>2 DEF SerialFiles, FinalizeProgress
      <4> QED
        BY <1>3, <1>o, <4>3, <4>4
    <3> QED
      BY <2>4, <3>2, <3>3, <3>4, <3>5, StagingNext
  <2> QED
    BY <2>2, <2>3, <2>4 DEF Holders
<1>4. ASSUME NEW v \in UploadIDs, NEW n \in Nodes, Create(v, n)
      PROVE  \E i \in Holders(u)' : Begins(acked'[u], data'[i])
  <2>1. acked' = acked
    BY <1>4 DEF Create, hist
  <2>2. v # u
    BY <1>4, <2>1 DEF Create, SerialSessions, OffsetsCount, Issued
  <2>3. repo'[u] = repo[u]
    BY <1>4, <1>t, <2>2 DEF Create
  <2> QED
    BY <1>3, <2>1, <2>3
<1>5. CASE Restart
  <2>1. acked' = acked /\ repo'[u] = repo[u]
    BY <1>5, <1>t DEF Restart, hist, Session
  <2> QED
    BY <1>3, <2>1
<1>6. ASSUME NEW r \in Requests, UpdateOffset(r) \/ UpdateCompleted(r), h[r].u # u
      PROVE  repo'[u] = repo[u]
  BY <1>6, <1>t DEF UpdateOffset, UpdateCompleted
<1>7. CASE UNCHANGED repo
  BY <1>1, <1>3, <1>7, AckedNext
<1>8. ASSUME NEW r \in Requests, UpdateOffset(r) \/ UpdateCompleted(r)
      PROVE  \E i \in Holders(u)' : Begins(acked'[u], data'[i])
  BY <1>1, <1>2, <1>3, <1>6, <1>8, AckedNext
<1> QED
  BY <1>4, <1>5, <1>7, <1>8, RepoFrame

-----------------------------------------------------------------------------
\* Before the first request nothing is stored and nothing is acknowledged.
LEMMA InitFiles == Init => SerialFiles
<1> SUFFICES ASSUME Init PROVE SerialFiles
  OBVIOUS
<1>1. /\ \A u \in UploadIDs : staging[u] = None /\ acked[u] = << >> /\ repo[u].state = "unissued"
      /\ \A n \in Nodes : pub[n] = None
  BY DEF Init, NoSession
<1>2. \A r \in Requests : h[r].pc = "idle" /\ h[r].fd = None
  BY IdleFields DEF Init
<1>3. \A r \in Requests : DescriptorPrivate(r) /\ AppendProgress(r) /\ FinalizeProgress(r)
  BY <1>2 DEF DescriptorPrivate, AppendProgress, FinalizeProgress, CompletePCs, OpenPCs, ReadPCs
<1> QED
  BY <1>1, <1>3 DEF SerialFiles, TwoNames, StagedContinues, PublishedIsVerified, AckedBytesDurable

LEMMA SerialInductiveStep ==
  ASSUME Serial, ~Durable, "unlink" \notin Faults, SerialInductive, [Next]_vars
  PROVE  SerialInductive'
<1>1. Inductive /\ SerialSessions /\ SerialFiles
  BY DEF SerialInductive
<1>2. Inductive' /\ SerialSessions'
  BY <1>1, InductiveStep, SerialSessionsStep
<1>3. \A r \in Requests : FilesOK(r)'
  BY <1>1, <1>2, HandlersFilesStep
<1>4. TwoNames' /\ StagedContinues' /\ PublishedIsVerified' /\ AckedBytesDurable'
  BY <1>1, TwoNamesStep, StagedContinuesStep, PublishedIsVerifiedStep, AckedBytesDurableStep
<1>5. SerialFiles'
  BY <1>3, <1>4 DEF SerialFiles, FilesOK
<1> QED
  BY <1>2, <1>5 DEF SerialInductive

\* With sessions in memory, one request of a session at a time and removals of
\* staging names that do not fail, every handler knows the content of the files
\* it works on: the invariant behind the two theorems that follow.  It needs
\* the last two conditions: a failed removal, and a restart between the link
\* and the removal that the session survives, leave a published file with a
\* staging name under which it can be appended to (Finalize, os.Remove).
THEOREM SerialInvariant ==
  ASSUME Serial, ~Durable, "unlink" \notin Faults
  PROVE  Spec => []SerialInductive
<1>1. Init => SerialInductive
  BY InitInductive, InitSessions, InitFiles DEF SerialInductive
<1>2. SerialInductive /\ [Next]_vars => SerialInductive'
  BY SerialInductiveStep DEF vars
<1> QED
  BY <1>1, <1>2, PTL DEF Spec

\* "Final objects - immutable": under the same conditions, what lies under a
\* node is, and stays, exactly the content that was hashed, scanned and hashed
\* again, whatever requests for other sessions do in between (Complete,
\* Finalize, AppendStaging).
THEOREM VerifiedStaysPublished ==
  ASSUME Serial, ~Durable, "unlink" \notin Faults
  PROVE  Spec => []PublishedIsVerified
<1>1. SerialInductive => PublishedIsVerified
  BY DEF SerialInductive, SerialFiles
<1> QED
  BY <1>1, SerialInvariant, PTL

\* Under the same conditions, the bytes that appends acknowledged are stored, in
\* order and unchanged, in the staged file or in the object made from it, for as
\* long as the session lives (AppendStaging, repo.Update).
THEOREM AckedStaysStored ==
  ASSUME Serial, ~Durable, "unlink" \notin Faults
  PROVE  Spec => []AckedBytesDurable
<1>1. SerialInductive => AckedBytesDurable
  BY DEF SerialInductive, SerialFiles
<1> QED
  BY <1>1, SerialInvariant, PTL
=============================================================================
