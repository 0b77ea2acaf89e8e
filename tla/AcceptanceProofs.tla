-------------------------- MODULE AcceptanceProofs --------------------------
(***************************************************************************)
(* Proofs about the acceptance commands, for every build, scanner and      *)
(* input that may come under acceptance and any number of outages.         *)
(***************************************************************************)
EXTENDS Acceptance, ScanEvidenceProofs

-----------------------------------------------------------------------------
(* What the reason of a decision says of the evidence. *)

\* The reasons of the checks that come before the verdict.
LEMMA CheckReasons ==
  ASSUME NEW resource, NEW act, NEW envelope, NEW t, NEW i \in 1..10
  PROVE  /\ Checks(resource, act, envelope, t)[i].reason = "wardveil_digest_mismatch" => i = 4
         /\ Checks(resource, act, envelope, t)[i].reason
              \notin {"drive_content_changed_during_scan", "wardveil_evidence_expired",
                      "wardveil_suspicious_review_required", "wardveil_result_unknown",
                      "wardveil_result_unsupported"}
<1> DEFINE checks == Checks(resource, act, envelope, t)
<1>1. i \in {1, 2, 3, 4, 5, 6, 7, 8, 9, 10}
  OBVIOUS
<1>2. /\ checks[1].reason = "drive_resource_invalid"
      /\ checks[2].reason = "drive_action_invalid"
      /\ checks[3].reason = "wardveil_resource_id_mismatch"
      /\ checks[4].reason = "wardveil_digest_mismatch"
      /\ checks[5].reason = "wardveil_contract_version_mismatch"
      /\ checks[6].reason = "wardveil_record_type_invalid"
      /\ checks[7].reason = "wardveil_producer_not_authoritative"
      /\ checks[8].reason = "wardveil_scope_mismatch"
      /\ checks[9].reason = "wardveil_evidence_window_invalid"
      /\ checks[10].reason = "wardveil_evidence_future_dated"
  BY DEF Checks
<1> HIDE DEF checks
<1>3. checks[i].reason = "wardveil_digest_mismatch" => i = 4
  BY <1>1, <1>2
<1>4. checks[i].reason
        \notin {"drive_content_changed_during_scan", "wardveil_evidence_expired",
                "wardveil_suspicious_review_required", "wardveil_result_unknown",
                "wardveil_result_unsupported"}
  BY <1>1, <1>2
<1> QED
  BY <1>3, <1>4 DEF checks

\* The reasons of a verdict.
LEMMA JudgeReasons ==
  ASSUME NEW act, NEW record, NEW t
  PROVE  LET d == Judge(act, record, t)
         IN /\ d.reason \notin {"wardveil_digest_mismatch", "drive_content_changed_during_scan"}
            /\ d.reason = "wardveil_evidence_expired" => t > record.until
            /\ d.reason = "wardveil_suspicious_review_required" => record.result = "suspicious"
            /\ d.reason = "wardveil_result_unknown" => record.result = "unknown"
            /\ d.reason = "wardveil_result_unsupported" => record.result = "unsupported"
            /\ d.disposition = "block_quarantine" => record.result = "malicious"
BY DEF Judge, MaliciousMatch, Lapsed, Block

\* A decision gives its reason truthfully.
LEMMA ReasonIsTrue ==
  ASSUME NEW resource, NEW act, NEW envelope, NEW t
  PROVE  LET d == Evaluate(resource, act, envelope, t)
         IN /\ d.reason = "wardveil_digest_mismatch" => ~EqualFold(envelope.digest, resource.digest)
            /\ d.reason # "drive_content_changed_during_scan"
            /\ d.reason = "wardveil_evidence_expired" => t > envelope.record.until
            /\ d.reason = "wardveil_suspicious_review_required" => envelope.record.result = "suspicious"
            /\ d.reason = "wardveil_result_unknown" => envelope.record.result = "unknown"
            /\ d.reason = "wardveil_result_unsupported" => envelope.record.result = "unsupported"
            /\ d.disposition = "block_quarantine" => envelope.record.result = "malicious"
<1> DEFINE checks == Checks(resource, act, envelope, t)
           d == Evaluate(resource, act, envelope, t)
<1>1. CASE d = Judge(act, envelope.record, t)
  BY <1>1, JudgeReasons
<1>2. ASSUME NEW i \in 1..10, checks[i].fails, d = Block(act, checks[i].reason)
      PROVE  /\ d.reason = checks[i].reason /\ d.disposition = "blocked_unverified"
             /\ checks[i].reason = "wardveil_digest_mismatch"
                  => ~EqualFold(envelope.digest, resource.digest)
  <2>1. d.reason = checks[i].reason /\ d.disposition = "blocked_unverified"
    BY <1>2 DEF Block
  <2>2. checks[4].fails = ~EqualFold(envelope.digest, resource.digest)
    BY DEF Checks
  <2> QED
    BY <1>2, <2>1, <2>2, CheckReasons
<1>3. CASE \E i \in 1..10 : checks[i].fails /\ d = Block(act, checks[i].reason)
  BY <1>2, <1>3, CheckReasons
<1> QED
  BY <1>1, <1>3, EvaluateCases

-----------------------------------------------------------------------------
(* What the outcome of an upload says of the build. *)

\* The answer of Complete tells which safeguard has decided it.
LEMMA OutcomeCases ==
  ASSUME NEW case, NEW reply
  PROVE  LET o == Complete(case, reply)
         IN /\ o.err = "none" => o.object = IF "exact" \in build THEN "exact" ELSE "altered"
            /\ o.err = "blocked" => /\ reply.code = 200
                                    /\ o.staging => "hold" \in build
                                    /\ o.decision = EvaluateUpload(case, reply.envelope)
            /\ o.err = "unavailable" => /\ reply.code # 200
                                        /\ "failclosed" \in build
                                        /\ o.staging => "keep" \in build
<1> DEFINE o == Complete(case, reply)
           d == EvaluateUpload(case, reply.envelope)
<1>1. CASE reply.code = 200 /\ d.canRelease
  <2>1. o = Released(d)
    BY <1>1 DEF Complete
  <2>2. /\ o.err = "none"
        /\ o.object = IF "exact" \in build THEN "exact" ELSE "altered"
    BY <2>1 DEF Released, Outcome
  <2> QED
    BY <2>2
<1>2. CASE reply.code = 200 /\ ~d.canRelease
  <2>1. PICK held \in BOOLEAN : held <=> "hold" \in build
    OBVIOUS
  <2>2. o = Outcome("blocked", d, "none", held)
    BY <1>2, <2>1 DEF Complete
  <2>3. o.err = "blocked" /\ o.decision = d /\ o.staging = held
    BY <2>2 DEF Outcome
  <2> HIDE DEF o, d
  <2>4. o.staging => "hold" \in build
    BY <2>1, <2>3
  <2> QED
    BY <1>2, <2>3, <2>4 DEF o, d
<1>3. CASE reply.code # 200 /\ "failclosed" \in build
  <2>1. PICK kept \in BOOLEAN : kept <=> "keep" \in build
    OBVIOUS
  <2>2. PICK block : block = Block("upload_finalize", "")
    OBVIOUS
  <2>3. o = Outcome("unavailable", block, "none", kept)
    BY <1>3, <2>1, <2>2 DEF Complete
  <2>4. o.err = "unavailable" /\ o.staging = kept
    BY <2>3 DEF Outcome
  <2> HIDE DEF o
  <2>5. o.staging => "keep" \in build
    BY <2>1, <2>4
  <2> QED
    BY <1>3, <2>4, <2>5 DEF o
<1>4. CASE reply.code # 200 /\ "failclosed" \notin build
  <2>1. PICK block : block = Block("upload_finalize", "")
    OBVIOUS
  <2>2. o = Released(block)
    BY <1>4, <2>1 DEF Complete
  <2>3. /\ o.err = "none"
        /\ o.object = IF "exact" \in build THEN "exact" ELSE "altered"
    BY <2>2 DEF Released, Outcome
  <2> QED
    BY <2>3
<1> QED
  BY <1>1, <1>2, <1>3, <1>4

\* The build judges an envelope for what it takes it for; beyond that, it
\* blocks only content that changed.
LEMMA UploadEvaluated ==
  ASSUME NEW case, NEW envelope
  PROVE  LET d == EvaluateUpload(case, envelope)
         IN \/ d = Evaluate(Resource(case), "upload_finalize",
                            Taken(Resource(case), envelope), now)
            \/ /\ "rehash" \in build
               /\ d = Block("upload_finalize", "drive_content_changed_during_scan")
BY DEF EvaluateUpload

\* An envelope of a case, with a digest of the case's own.
Reply(case, digest, observed, until, result) ==
  [authoritativeEnvelope(case, observed, until, result) EXCEPT !.digest = digest]

\* The envelope e is about a case, and says this of it.
Tells(e, case, digest, observed, until, result) ==
  /\ e.resourceID = ResourceID(Resource(case)) /\ e.digest = digest
  /\ e.record.version = RuntimeContractVersion /\ e.record.type = ScanRecordType
  /\ e.record.authoritative = TRUE /\ e.record.producer = "controlled-acceptance"
  /\ e.record.scopeType = DriveFileResourceType
  /\ e.record.scopeID = ResourceID(Resource(case))
  /\ e.record.observed = observed /\ e.record.until = until
  /\ e.record.result = result /\ e.record.refs = 1

\* What a build takes such an envelope for.
LEMMA TakenTells ==
  ASSUME NEW case, NEW digest, NEW observed, NEW until, NEW result
  PROVE  Tells(Taken(Resource(case), Reply(case, digest, observed, until, result)), case,
               IF "digest" \in build THEN digest ELSE HexDigest(case), observed,
               IF "window" \in build THEN until ELSE now,
               IF result \in build THEN result ELSE "clean")
<1>1. PICK id, r : /\ id = ResourceID(Resource(case))
                   /\ r = [version |-> RuntimeContractVersion, type |-> ScanRecordType,
                           authoritative |-> TRUE, producer |-> "controlled-acceptance",
                           scopeType |-> DriveFileResourceType, scopeID |-> id,
                           observed |-> observed, until |-> until, result |-> result,
                           refs |-> 1]
  OBVIOUS
<1>2. PICK e : e = [resourceID |-> id, digest |-> digest, record |-> r]
  OBVIOUS
<1>3. e = Reply(case, digest, observed, until, result)
  <2>1. PICK a, dg : a = [resourceID |-> id, digest |-> dg, record |-> r] /\ dg = HexDigest(case)
    OBVIOUS
  <2>2. a = authoritativeEnvelope(case, observed, until, result)
    BY <1>1, <2>1, Zenon DEF authoritativeEnvelope
  <2>3. e = [a EXCEPT !.digest = digest]
    BY <1>2, <2>1
  <2> QED
    BY <2>2, <2>3 DEF Reply
<1>4. PICK dg, ut, rs : /\ dg = (IF "digest" \in build THEN digest ELSE HexDigest(case))
                        /\ ut = (IF "window" \in build THEN until ELSE now)
                        /\ rs = (IF result \in build THEN result ELSE "clean")
  OBVIOUS
<1>5. Resource(case).digest = HexDigest(case)
  BY DEF Resource
<1>6. r.until = until /\ r.result = result
  BY <1>1
<1>7. e.digest = digest /\ e.record = r
  BY <1>2
<1>8. Taken(Resource(case), e) = [e EXCEPT !.digest = dg, !.record.until = ut, !.record.result = rs]
  BY <1>4, <1>5, <1>6, <1>7 DEF Taken
<1>9. PICK r2 : r2 = [r EXCEPT !.until = ut, !.result = rs]
  OBVIOUS
<1>10. /\ r2.version = RuntimeContractVersion /\ r2.type = ScanRecordType
       /\ r2.authoritative = TRUE /\ r2.producer = "controlled-acceptance"
       /\ r2.scopeType = DriveFileResourceType /\ r2.scopeID = id
       /\ r2.observed = observed /\ r2.until = ut /\ r2.result = rs /\ r2.refs = 1
  BY <1>1, <1>9
<1>11. PICK t : t = Taken(Resource(case), e)
  OBVIOUS
<1>12. t.resourceID = id /\ t.digest = dg /\ t.record = r2
  BY <1>2, <1>8, <1>9, <1>11
<1>13. Tells(t, case, dg, observed, ut, rs)
  BY <1>1, <1>10, <1>12 DEF Tells
<1> QED
  BY <1>3, <1>4, <1>11, <1>13

\* The reason for which a build blocks an upload, and what it shows.
LEMMA UploadReason ==
  ASSUME NEW case, NEW digest, NEW observed, NEW until, NEW result
  PROVE  LET d == EvaluateUpload(case, Reply(case, digest, observed, until, result))
         IN /\ d.reason = "wardveil_digest_mismatch" => "digest" \in build
            /\ d.reason = "drive_content_changed_during_scan" => "rehash" \in build
            /\ d.reason = "wardveil_evidence_expired" => "window" \in build
            /\ d.reason = "wardveil_suspicious_review_required" => "suspicious" \in build
            /\ d.reason = "wardveil_result_unknown" => "unknown" \in build
            /\ d.reason = "wardveil_result_unsupported" => "unsupported" \in build
            /\ d.disposition = "block_quarantine" => "malicious" \in build /\ result = "malicious"
<1> DEFINE d == EvaluateUpload(case, Reply(case, digest, observed, until, result))
<1>1. CASE "rehash" \in build /\ d = Block("upload_finalize", "drive_content_changed_during_scan")
  BY <1>1 DEF Block
<1>2. CASE d = Evaluate(Resource(case), "upload_finalize",
                        Taken(Resource(case), Reply(case, digest, observed, until, result)), now)
  <2>1. PICK dg, ut, rs : /\ dg = (IF "digest" \in build THEN digest ELSE HexDigest(case))
                          /\ ut = (IF "window" \in build THEN until ELSE now)
                          /\ rs = (IF result \in build THEN result ELSE "clean")
    OBVIOUS
  <2>2. PICK e : e = Taken(Resource(case), Reply(case, digest, observed, until, result))
    OBVIOUS
  <2>3. d = Evaluate(Resource(case), "upload_finalize", e, now)
    BY <1>2, <2>2
  <2>4. e.digest = dg /\ e.record.until = ut /\ e.record.result = rs
    <3>1. Tells(e, case, dg, observed, ut, rs)
      BY <2>1, <2>2, TakenTells
    <3> QED
      BY <3>1 DEF Tells
  <2>5. Resource(case).digest = HexDigest(case)
    BY DEF Resource
  <2>6. "digest" \notin build => EqualFold(e.digest, Resource(case).digest)
    BY <2>1, <2>4, <2>5 DEF EqualFold
  <2>7. "window" \notin build => ~(now > e.record.until)
    BY <2>1, <2>4 DEF now
  <2> HIDE DEF d
  <2>8. /\ d.reason = "wardveil_digest_mismatch" => ~EqualFold(e.digest, Resource(case).digest)
        /\ d.reason # "drive_content_changed_during_scan"
        /\ d.reason = "wardveil_evidence_expired" => now > e.record.until
        /\ d.reason = "wardveil_suspicious_review_required" => rs = "suspicious"
        /\ d.reason = "wardveil_result_unknown" => rs = "unknown"
        /\ d.reason = "wardveil_result_unsupported" => rs = "unsupported"
        /\ d.disposition = "block_quarantine" => rs = "malicious"
    BY <2>3, <2>4, ReasonIsTrue
  <2> QED
    BY <2>1, <2>6, <2>7, <2>8 DEF d
<1> QED
  BY <1>1, <1>2, UploadEvaluated


-----------------------------------------------------------------------------
(* What a case that passes shows. *)

LEMMA OwnDigest ==
  ASSUME NEW case, NEW observed, NEW until, NEW result
  PROVE  authoritativeEnvelope(case, observed, until, result)
           = Reply(case, HexDigest(case), observed, until, result)
<1>1. PICK id, dg, r : authoritativeEnvelope(case, observed, until, result)
                         = [resourceID |-> id, digest |-> dg, record |-> r] /\ dg = HexDigest(case)
  BY DEF authoritativeEnvelope
<1>2. PICK a : a = authoritativeEnvelope(case, observed, until, result)
  OBVIOUS
<1>3. [a EXCEPT !.digest = dg] = a
  BY <1>1, <1>2
<1> QED
  BY <1>1, <1>2, <1>3 DEF Reply

LEMMA ReplyCodes ==
  ASSUME NEW envelope, NEW code
  PROVE  /\ Success(envelope).code = 200 /\ Success(envelope).envelope = envelope
         /\ Failure(code).code = code
BY DEF Success, Failure

\* What the deployed scanner answers.
LEMMA ScanAnswers ==
  ASSUME NEW case, NEW signed \in BOOLEAN
  PROVE  /\ ~up => WardveilScan(case, signed) = Failure(0)
         /\ up /\ ~signed /\ "auth" \in scanner => WardveilScan(case, signed) = Failure(401)
         /\ up /\ (signed \/ "auth" \notin scanner) =>
              WardveilScan(case, signed)
                = Success(authoritativeEnvelope(case, now, now + 60,
                            IF case = "malicious" /\ "detect" \in scanner
                              THEN "malicious" ELSE "clean"))
BY DEF WardveilScan

LEMMA CleanShows ==
  ASSUME NEW reply, CleanPasses(Complete("clean", reply))
  PROVE  "exact" \in build
<1>1. PICK o : o = Complete("clean", reply)
  OBVIOUS
<1>2. o.err = "none" /\ o.object = "exact"
  BY <1>1 DEF CleanPasses
<1>3. o.err = "none" => o.object = IF "exact" \in build THEN "exact" ELSE "altered"
  BY <1>1, OutcomeCases
<1> QED
  BY <1>2, <1>3

\* The hand-off that a case accepts is not destructive.
LEMMA HandoffShows ==
  ASSUME NEW o, MaliciousPasses(o)
  PROVE  "handoff" \in build
<1>1. PICK handoff \in QuarantineHandoff(o.decision, Resource("malicious")) :
        ~[handoff EXCEPT !.destructive = "handoff" \notin build].destructive
  BY DEF MaliciousPasses
<1>2. PICK id, dg, refs : handoff = [resourceID |-> id, digest |-> dg, refs |-> refs,
                                     needsExecutorAuthority |-> TRUE, destructive |-> FALSE]
  BY <1>1 DEF QuarantineHandoff
<1>3. PICK deletes \in BOOLEAN : deletes <=> "handoff" \notin build
  OBVIOUS
<1>4. ~[handoff EXCEPT !.destructive = deletes].destructive
  BY <1>1, <1>3
<1>5. [handoff EXCEPT !.destructive = deletes].destructive = deletes
  BY <1>2
<1> QED
  BY <1>3, <1>4, <1>5

LEMMA MaliciousShows ==
  ASSUME MaliciousPasses(Complete("malicious", WardveilScan("malicious", TRUE)))
  PROVE  {"malicious", "hold", "handoff"} \subseteq build /\ "detect" \in scanner
<1>1. PICK reply : reply = WardveilScan("malicious", TRUE)
  OBVIOUS
<1>2. PICK o : o = Complete("malicious", reply)
  OBVIOUS
<1>3. MaliciousPasses(o)
  BY <1>1, <1>2
<1>4. "handoff" \in build
  BY <1>3, HandoffShows
<1>5. o.err = "blocked" /\ o.staging /\ o.decision.disposition = "block_quarantine"
  BY <1>3 DEF MaliciousPasses
<1>6. /\ reply.code = 200 /\ "hold" \in build
      /\ o.decision = EvaluateUpload("malicious", reply.envelope)
  BY <1>2, <1>5, OutcomeCases
<1>7. PICK result : result = IF "detect" \in scanner THEN "malicious" ELSE "clean"
  OBVIOUS
<1>8. reply = Success(authoritativeEnvelope("malicious", now, now + 60, result))
  <2>1. Failure(0).code # 200
    BY ReplyCodes
  <2>2. ~up => reply = Failure(0)
    BY <1>1, ScanAnswers
  <2>3. up
    BY <1>6, <2>1, <2>2
  <2> QED
    BY <1>1, <1>7, <2>3, ScanAnswers
<1>9. reply.envelope = Reply("malicious", HexDigest("malicious"), now, now + 60, result)
  BY <1>8, ReplyCodes, OwnDigest
<1>10. "malicious" \in build /\ result = "malicious"
  BY <1>5, <1>6, <1>9, UploadReason
<1> QED
  BY <1>4, <1>6, <1>7, <1>10

\* A request that ends without an answer shows what a build then does.
LEMMA UnavailableShows ==
  ASSUME NEW case, NEW reply, Complete(case, reply).err = "unavailable"
  PROVE  /\ reply.code # 200 /\ "failclosed" \in build
         /\ Complete(case, reply).staging => "keep" \in build
BY OutcomeCases

\* A wrong signature that was answered was refused.
LEMMA CredentialShows ==
  ASSUME up, Complete("invalid_credential", WardveilScan("invalid_credential", FALSE)).err
               = "unavailable"
  PROVE  "auth" \in scanner
<1>1. PICK reply : reply = WardveilScan("invalid_credential", FALSE)
  OBVIOUS
<1>2. Complete("invalid_credential", reply).err = "unavailable"
  BY <1>1
<1>3. reply.code # 200
  BY <1>2, UnavailableShows
<1>4. "auth" \notin scanner =>
        reply = Success(authoritativeEnvelope("invalid_credential", now, now + 60, "clean"))
  BY <1>1, ScanAnswers
<1> QED
  BY <1>3, <1>4, ReplyCodes

Controlled == {"expired", "digest_mismatch", "changed_during_scan", "suspicious", "unknown",
               "unsupported"}

\* The answer of a controlled case is an envelope of the case.
LEMMA ControlledReply ==
  ASSUME NEW case \in Controlled
  PROVE  \E digest, observed, until, result :
           ControlledEnvelope(case) = Reply(case, digest, observed, until, result)
<1>1. CASE case = "expired"
  BY <1>1, OwnDigest DEF ControlledEnvelope
<1>2. CASE case = "digest_mismatch"
  BY <1>2 DEF ControlledEnvelope, Reply
<1>3. CASE case = "changed_during_scan"
  BY <1>3, OwnDigest DEF ControlledEnvelope
<1>4. CASE case \in {"suspicious", "unknown", "unsupported"}
  <2>1. ControlledEnvelope(case) = authoritativeEnvelope(case, now - 1, now + 60, case)
    BY <1>4 DEF ControlledEnvelope
  <2> QED
    BY <2>1, OwnDigest
<1> QED
  BY <1>1, <1>2, <1>3, <1>4 DEF Controlled

LEMMA BlockShows ==
  ASSUME NEW case \in Controlled,
         validateBlockedDecision(case, Complete(case, Success(ControlledEnvelope(case))))
  PROVE  /\ "hold" \in build
         /\ case = "expired" => "window" \in build
         /\ case = "digest_mismatch" => "digest" \in build
         /\ case = "changed_during_scan" => "rehash" \in build
         /\ case \in {"suspicious", "unknown", "unsupported"} => case \in build
<1>1. PICK digest, observed, until, result :
        ControlledEnvelope(case) = Reply(case, digest, observed, until, result)
  BY ControlledReply
<1>2. PICK e : e = Reply(case, digest, observed, until, result)
  OBVIOUS
<1>3. PICK o : o = Complete(case, Success(e))
  OBVIOUS
<1>4. /\ o.err = "blocked" /\ o.staging
      /\ <<o.decision.disposition, o.decision.reason>> = Expected(case)
  BY <1>1, <1>2, <1>3 DEF validateBlockedDecision
<1>5. "hold" \in build /\ o.decision = EvaluateUpload(case, e)
  BY <1>3, <1>4, OutcomeCases, ReplyCodes
<1>6. /\ o.decision.reason = "wardveil_digest_mismatch" => "digest" \in build
      /\ o.decision.reason = "drive_content_changed_during_scan" => "rehash" \in build
      /\ o.decision.reason = "wardveil_evidence_expired" => "window" \in build
      /\ o.decision.reason = "wardveil_suspicious_review_required" => "suspicious" \in build
      /\ o.decision.reason = "wardveil_result_unknown" => "unknown" \in build
      /\ o.decision.reason = "wardveil_result_unsupported" => "unsupported" \in build
  BY <1>2, <1>5, UploadReason
<1>7. /\ case = "expired" => o.decision.reason = "wardveil_evidence_expired"
      /\ case = "digest_mismatch" => o.decision.reason = "wardveil_digest_mismatch"
      /\ case = "changed_during_scan" => o.decision.reason = "drive_content_changed_during_scan"
      /\ case = "suspicious" => o.decision.reason = "wardveil_suspicious_review_required"
      /\ case = "unknown" => o.decision.reason = "wardveil_result_unknown"
      /\ case = "unsupported" => o.decision.reason = "wardveil_result_unsupported"
  BY <1>4 DEF Expected
<1> QED
  BY <1>5, <1>6, <1>7


-----------------------------------------------------------------------------
(* The list of cases. *)

LEMMA FiveCases ==
  ASSUME NEW S, NEW a \in S, NEW b \in S, NEW c \in S, NEW d \in S, NEW e \in S
  PROVE  <<a, b, c, d, e>> \in Seq(S)
BY SMT

LEMMA TwelveCases ==
  ASSUME NEW S, NEW a \in S, NEW b \in S, NEW c \in S, NEW d \in S, NEW e \in S, NEW f \in S,
         NEW g \in S, NEW h \in S, NEW i \in S, NEW j \in S, NEW k \in S, NEW l \in S
  PROVE  <<a, b, c, d, e, f, g, h, i, j, k, l>> \in Seq(S)
BY SMT

LEMMA CaseList ==
  ASSUME NEW c \in DOMAIN Cases
  PROVE  /\ c \in {"live", "negative"}
         /\ Cases[c] \in Seq(CaseNames)
         /\ c = "live" => Cases[c] = LiveCases /\ Len(Cases[c]) = 5
         /\ c = "negative" => Cases[c] = NegativeCases /\ Len(Cases[c]) = 12
<1>1. DOMAIN Cases = {"live", "negative"} /\ Cases["live"] = LiveCases
      /\ Cases["negative"] = NegativeCases
  BY DEF Cases
<1>2. LiveCases \in Seq(CaseNames)
  <2>1. /\ "secret" \in CaseNames /\ "clean" \in CaseNames /\ "malicious" \in CaseNames
        /\ "invalid_credential" \in CaseNames /\ "unavailable_endpoint" \in CaseNames
    BY DEF CaseNames
  <2> QED
    BY <2>1, FiveCases DEF LiveCases
<1>3. Len(LiveCases) = 5
  BY DEF LiveCases
<1>4. NegativeCases \in Seq(CaseNames)
  <2>1. /\ "secret" \in CaseNames /\ "restart_evidence" \in CaseNames
        /\ "timeout" \in CaseNames /\ "expired" \in CaseNames
        /\ "digest_mismatch" \in CaseNames /\ "changed_during_scan" \in CaseNames
        /\ "suspicious" \in CaseNames /\ "unknown" \in CaseNames
        /\ "unsupported" \in CaseNames /\ "first" \in CaseNames
        /\ "exact_replay" \in CaseNames /\ "conflicting_replay" \in CaseNames
    BY DEF CaseNames
  <2> QED
    BY <2>1, TwelveCases DEF NegativeCases
<1>5. Len(NegativeCases) = 12
  BY DEF NegativeCases
<1> QED
  BY <1>1, <1>2, <1>3, <1>4, <1>5

\* The next case, and what is left when it is done.
LEMMA NextCase ==
  ASSUME NEW all \in Seq(CaseNames), NEW rest \in Seq(CaseNames), Len(rest) <= Len(all),
         \A i \in 1..Len(rest) : rest[i] = all[Len(all) - Len(rest) + i],
         rest # <<>>
  PROVE  /\ Len(rest) > 0
         /\ Head(rest) = all[Len(all) - Len(rest) + 1]
         /\ Tail(rest) \in Seq(CaseNames) /\ Len(Tail(rest)) = Len(rest) - 1
         /\ \A i \in 1..Len(Tail(rest)) :
              Tail(rest)[i] = all[Len(all) - Len(Tail(rest)) + i]
<1>1. Len(rest) \in Nat /\ Len(all) \in Nat /\ Len(rest) > 0
  OBVIOUS
<1>2. Head(rest) = rest[1]
  OBVIOUS
<1>3. Head(rest) = all[Len(all) - Len(rest) + 1]
  BY <1>1, <1>2
<1>4. Tail(rest) \in Seq(CaseNames) /\ Len(Tail(rest)) = Len(rest) - 1
  BY <1>1
<1>5. ASSUME NEW i \in 1..Len(Tail(rest))
      PROVE  Tail(rest)[i] = all[Len(all) - Len(Tail(rest)) + i]
  <2>1. Tail(rest)[i] = rest[i + 1]
    BY <1>1, <1>4, <1>5
  <2>2. i + 1 \in 1..Len(rest)
    BY <1>1, <1>4, <1>5
  <2>3. Len(all) - Len(rest) + (i + 1) = Len(all) - Len(Tail(rest)) + i
    BY <1>1, <1>4, <1>5
  <2> QED
    BY <2>1, <2>2, <2>3
<1> QED
  BY <1>1, <1>3, <1>4, <1>5

\* What a case has shown stays shown.
LEMMA ShownStays ==
  ASSUME UNCHANGED setting, NEW case, Shows(case)
  PROVE  Shows(case)'
<1>1. build' = build /\ scanner' = scanner /\ input' = input /\ command' = command
  BY DEF setting, build, scanner, input
<1>2. validateScanEndpoint(input.endpoint)' <=> validateScanEndpoint(input.endpoint)
  BY <1>1 DEF validateScanEndpoint
<1>3. validateWardveilRestartEvidence(input.evidence)'
        <=> validateWardveilRestartEvidence(input.evidence)
  BY <1>1 DEF validateWardveilRestartEvidence, Recent, now, EvidenceFields
<1> QED
  BY <1>1, <1>2, <1>3 DEF Shows

\* The facts about the scanner that the replay cases rest on.
Answering == ("invalid_credential" \in answered => "auth" \in scanner) /\ RecordsMade

\* A case is done when it shows what it is for; otherwise the command ends.
LEMMA CaseDone ==
  ASSUME Earning, status = "running", todo # <<>>, UNCHANGED setting,
         \/ todo' = Tail(todo) /\ status' = "running" /\ Shows(Head(todo)) /\ Answering'
         \/ todo' = todo /\ status' = "failed"
  PROVE  Earning'
<1>1. command \in DOMAIN Cases /\ command' = command /\ trial' = trial /\ trial \in Trials
  BY DEF Earning, setting
<1>2. PICK all : all = Cases[command]
  OBVIOUS
<1>3. all \in Seq(CaseNames)
  BY <1>1, <1>2, CaseList
<1>4. PICK rest : rest = todo
  OBVIOUS
<1>5. /\ rest \in Seq(CaseNames) /\ Len(rest) <= Len(all) /\ rest # <<>>
      /\ \A i \in 1..Len(rest) : rest[i] = all[Len(all) - Len(rest) + i]
  BY <1>2, <1>4 DEF Earning, TodoIsRest
<1>6. /\ Len(rest) > 0
      /\ Head(rest) = all[Len(all) - Len(rest) + 1]
      /\ Tail(rest) \in Seq(CaseNames) /\ Len(Tail(rest)) = Len(rest) - 1
      /\ \A i \in 1..Len(Tail(rest)) : Tail(rest)[i] = all[Len(all) - Len(Tail(rest)) + i]
  BY <1>3, <1>5, NextCase
<1>7. Len(rest) \in Nat /\ Len(all) \in Nat
  BY <1>3, <1>5
<1>8. TodoIsRest'
  <2>1. CASE todo' = Tail(todo)
    <3>1. PICK left : left = Tail(rest)
      OBVIOUS
    <3>2. todo' = left /\ Cases[command'] = all
      BY <1>1, <1>2, <1>4, <2>1, <3>1
    <3>3. /\ left \in Seq(CaseNames) /\ Len(left) <= Len(all)
          /\ \A i \in 1..Len(left) : left[i] = all[Len(all) - Len(left) + i]
      BY <1>5, <1>6, <1>7, <3>1
    <3> QED
      BY <3>2, <3>3 DEF TodoIsRest
  <2>2. CASE todo' = todo
    BY <1>1, <1>2, <1>4, <1>5, <2>2 DEF TodoIsRest
  <2> QED
    BY <2>1, <2>2
<1>9. CASE todo' = Tail(todo) /\ status' = "running" /\ Shows(Head(todo)) /\ Answering'
  <2>1. Passed = Len(all) - Len(rest) /\ Passed' = Len(all) - Len(rest) + 1
    BY <1>1, <1>2, <1>4, <1>6, <1>7, <1>9 DEF Passed
  <2>2. ASSUME NEW i \in 1..(Len(all) - Len(rest) + 1)
        PROVE  Shows(all[i])'
    <3>1. PICK case : case = all[i]
      OBVIOUS
    <3>2. Shows(case)
      <4>1. CASE i = Len(all) - Len(rest) + 1
        BY <1>4, <1>6, <1>9, <3>1, <4>1
      <4>2. CASE i \in 1..(Len(all) - Len(rest))
        BY <1>2, <2>1, <3>1, <4>2 DEF Earning
      <4> QED
        BY <1>5, <1>7, <4>1, <4>2
    <3> QED
      BY <3>1, <3>2, ShownStays
  <2>3. \A i \in 1..Passed' : Shows(Cases[command][i])'
    BY <1>1, <1>2, <2>1, <2>2
  <2> QED
    BY <1>1, <1>8, <1>9, <2>3 DEF Earning, Answering
<1>10. CASE todo' = todo /\ status' = "failed"
  BY <1>1, <1>8, <1>10 DEF Earning
<1> QED
  BY <1>9, <1>10

\* Steps of the command and of the scanner between the cases.
LEMMA BetweenCases ==
  ASSUME Earning, UNCHANGED <<setting, todo>>,
         \/ status' = status
         \/ status = "running" /\ status' \in {"broken", "reported"},
         status' \in {"running", "reported"} => Answering',
         status' = "reported" => todo = <<>>
  PROVE  Earning'
<1>1. command \in DOMAIN Cases /\ command' = command /\ trial' = trial /\ trial \in Trials
      /\ todo' = todo
  BY DEF Earning, setting
<1>2. TodoIsRest' /\ Passed' = Passed
  BY <1>1 DEF Earning, TodoIsRest, Passed
<1>3. ASSUME status' \in {"running", "reported"}
      PROVE  \A i \in 1..Passed' : Shows(Cases[command][i])'
  <2>1. status \in {"running", "reported"}
    BY <1>3
  <2>2. ASSUME NEW i \in 1..Passed
        PROVE  Shows(Cases[command][i])'
    <3>1. PICK case : case = Cases[command][i]
      OBVIOUS
    <3>2. Shows(case)
      BY <2>1, <2>2, <3>1 DEF Earning
    <3>3. Shows(case)'
      BY <3>2, ShownStays
    <3> QED
      BY <1>1, <3>1, <3>3
  <2> QED
    BY <1>2, <2>2
<1>4. status' \in {"running", "failed", "broken", "reported"}
  BY DEF Earning
<1> QED
  BY <1>1, <1>2, <1>3, <1>4 DEF Earning, Answering


-----------------------------------------------------------------------------
(* A report is earned. *)

LEMMA StillAnswering ==
  ASSUME Answering, UNCHANGED <<setting, records, memory, first>>,
         "invalid_credential" \in answered' => "invalid_credential" \in answered
                                                 \/ "auth" \in scanner
  PROVE  Answering'
BY DEF Answering, RecordsMade, setting, scanner

LEMMA RunningAnswers ==
  ASSUME Earning, status = "running"
  PROVE  Answering
BY DEF Earning, Answering

LEMMA ReadSecretEarns == Earning /\ ReadSecret => Earning'
<1> SUFFICES ASSUME Earning, ReadSecret PROVE Earning'
  OBVIOUS
<1>1. /\ status = "running" /\ todo # <<>> /\ Head(todo) = "secret" /\ UNCHANGED setting
      /\ UNCHANGED <<records, memory, first, answered>>
  BY DEF ReadSecret, Running, Conclude, Unscanned, deployed
<1>2. Answering'
  BY <1>1, RunningAnswers, StillAnswering
<1>3. CASE todo' = Tail(todo) /\ status' = status
           /\ (command = "live" => NewHTTPScanner(input.endpoint, input.secret))
  <2>1. Shows("secret")
    BY <1>3 DEF Shows, NewHTTPScanner
  <2> QED
    BY <1>1, <1>2, <1>3, <2>1, CaseDone
<1>4. CASE todo' = todo /\ status' = "failed"
  BY <1>1, <1>4, CaseDone
<1> QED
  BY <1>3, <1>4 DEF ReadSecret, Conclude

LEMMA ReadRestartEvidenceEarns == Earning /\ ReadRestartEvidence => Earning'
<1> SUFFICES ASSUME Earning, ReadRestartEvidence PROVE Earning'
  OBVIOUS
<1>1. /\ status = "running" /\ todo # <<>> /\ Head(todo) = "restart_evidence"
      /\ UNCHANGED setting /\ UNCHANGED <<records, memory, first, answered>>
  BY DEF ReadRestartEvidence, Running, Conclude, Unscanned, deployed
<1>2. Answering'
  BY <1>1, RunningAnswers, StillAnswering
<1>3. CASE todo' = Tail(todo) /\ status' = status
           /\ validateWardveilRestartEvidence(input.evidence)
  <2>1. Shows("restart_evidence")
    BY <1>3 DEF Shows
  <2> QED
    BY <1>1, <1>2, <1>3, <2>1, CaseDone
<1>4. CASE todo' = todo /\ status' = "failed"
  BY <1>1, <1>4, CaseDone
<1> QED
  BY <1>3, <1>4 DEF ReadRestartEvidence, Conclude

LEMMA UploadCaseEarns == Earning /\ runUploadCase => Earning'
<1> SUFFICES ASSUME Earning, runUploadCase PROVE Earning'
  OBVIOUS
<1> DEFINE outcome == Complete(Head(todo), WardveilScan(Head(todo), TRUE))
           passes == IF Head(todo) = "clean" THEN CleanPasses(outcome) ELSE MaliciousPasses(outcome)
<1>1. /\ status = "running" /\ todo # <<>> /\ Head(todo) \in {"clean", "malicious"}
      /\ UNCHANGED setting /\ UNCHANGED <<records, memory, first>>
      /\ answered' = IF up THEN answered \cup {Head(todo)} ELSE answered
  BY DEF runUploadCase, Running, Conclude, Scanned, deployed
<1>2. Answering'
  BY <1>1, RunningAnswers, StillAnswering
<1>3. ASSUME passes PROVE Shows(Head(todo))
  <2>1. CASE Head(todo) = "clean"
    <3>1. PICK reply : reply = WardveilScan("clean", TRUE)
      OBVIOUS
    <3>2. CleanPasses(Complete("clean", reply))
      BY <1>3, <2>1, <3>1
    <3>3. "exact" \in build
      BY <3>2, CleanShows
    <3> QED
      BY <2>1, <3>3 DEF Shows
  <2>2. CASE Head(todo) = "malicious"
    <3>1. MaliciousPasses(Complete("malicious", WardveilScan("malicious", TRUE)))
      BY <1>3, <2>2
    <3>2. {"malicious", "hold", "handoff"} \subseteq build /\ "detect" \in scanner
      BY <3>1, MaliciousShows
    <3> QED
      BY <2>2, <3>2 DEF Shows
  <2> QED
    BY <1>1, <2>1, <2>2
<1>4. \/ passes /\ todo' = Tail(todo) /\ status' = status
      \/ todo' = todo /\ status' = "failed"
  BY DEF runUploadCase, Conclude
<1> HIDE DEF passes
<1> QED
  BY <1>1, <1>2, <1>3, <1>4, CaseDone

LEMMA NegativeCaseEarns == Earning /\ runNegativeCase => Earning'
<1> SUFFICES ASSUME Earning, runNegativeCase PROVE Earning'
  OBVIOUS
<1> DEFINE reply == IF Head(todo) = "invalid_credential" THEN WardveilScan(Head(todo), FALSE)
                                                         ELSE Failure(0)
           outcome == Complete(Head(todo), reply)
<1>1. /\ status = "running" /\ todo # <<>>
      /\ Head(todo) \in {"invalid_credential", "unavailable_endpoint"}
      /\ UNCHANGED setting /\ UNCHANGED <<records, memory, first>>
  BY DEF runNegativeCase, Running, Conclude, Scanned, Unscanned, deployed
<1>2. answered' = IF Head(todo) = "invalid_credential" /\ up
                    THEN answered \cup {"invalid_credential"} ELSE answered
  BY DEF runNegativeCase, Scanned, Unscanned
<1>3. \/ outcome.err = "unavailable" /\ todo' = Tail(todo) /\ status' = status
      \/ todo' = todo /\ status' = "failed"
  BY DEF runNegativeCase, Conclude
<1>4. ASSUME outcome.err = "unavailable"
      PROVE  Shows(Head(todo)) /\ Answering'
  <2>1. CASE Head(todo) = "invalid_credential"
    <3>1. Shows(Head(todo))
      BY <2>1 DEF Shows
    <3>2. up => "auth" \in scanner
      <4>1. Complete("invalid_credential", WardveilScan("invalid_credential", FALSE)).err
              = "unavailable"
        BY <1>4, <2>1
      <4> QED
        BY <4>1, CredentialShows
    <3>3. Answering'
      BY <1>1, <1>2, <3>2, RunningAnswers, StillAnswering
    <3> QED
      BY <3>1, <3>3
  <2>2. CASE Head(todo) = "unavailable_endpoint"
    <3>1. PICK away : away = Failure(0)
      OBVIOUS
    <3>2. Complete("unavailable_endpoint", away).err = "unavailable"
      BY <1>4, <2>2, <3>1
    <3>3. "failclosed" \in build
      BY <3>2, UnavailableShows
    <3>4. Shows(Head(todo))
      BY <2>2, <3>3 DEF Shows
    <3>5. Answering'
      BY <1>1, <1>2, <2>2, RunningAnswers, StillAnswering
    <3> QED
      BY <3>4, <3>5
  <2> QED
    BY <1>1, <2>1, <2>2
<1> HIDE DEF outcome
<1> QED
  BY <1>1, <1>3, <1>4, CaseDone

LEMMA TimeoutCaseEarns == Earning /\ runTimeoutCase => Earning'
<1> SUFFICES ASSUME Earning, runTimeoutCase PROVE Earning'
  OBVIOUS
<1>1. /\ status = "running" /\ todo # <<>> /\ Head(todo) = "timeout"
      /\ UNCHANGED setting /\ UNCHANGED <<records, memory, first, answered>>
  BY DEF runTimeoutCase, Running, Conclude, Unscanned, deployed
<1>2. Answering'
  BY <1>1, RunningAnswers, StillAnswering
<1>3. PICK reply : reply = Failure(0)
  OBVIOUS
<1>4. PICK o : o = Complete("timeout", reply)
  OBVIOUS
<1>5. \/ o.err = "unavailable" /\ o.staging /\ todo' = Tail(todo) /\ status' = status
      \/ todo' = todo /\ status' = "failed"
  BY <1>3, <1>4 DEF runTimeoutCase, Conclude
<1>6. ASSUME o.err = "unavailable", o.staging
      PROVE  Shows("timeout")
  <2>1. "failclosed" \in build /\ "keep" \in build
    BY <1>4, <1>6, UnavailableShows
  <2> QED
    BY <2>1 DEF Shows
<1> QED
  BY <1>1, <1>2, <1>5, <1>6, CaseDone

LEMMA ControlledCaseEarns ==
  Earning /\ (runControlledDecisionCase \/ runChangedDuringScanCase) => Earning'
<1> SUFFICES ASSUME Earning, runControlledDecisionCase \/ runChangedDuringScanCase
             PROVE  Earning'
  OBVIOUS
<1>1. PICK case : case = Head(todo)
  OBVIOUS
<1> DEFINE passes == validateBlockedDecision(case, Complete(case, Success(ControlledEnvelope(case))))
<1>2. /\ status = "running" /\ todo # <<>> /\ case \in Controlled
      /\ UNCHANGED setting /\ UNCHANGED <<records, memory, first, answered>>
  BY <1>1 DEF runControlledDecisionCase, runChangedDuringScanCase, Running, Conclude, Unscanned,
              deployed, Controlled
<1>3. Answering'
  BY <1>2, RunningAnswers, StillAnswering
<1>4. \/ passes /\ todo' = Tail(todo) /\ status' = status
      \/ todo' = todo /\ status' = "failed"
  BY <1>1 DEF runControlledDecisionCase, runChangedDuringScanCase, Conclude
<1>5. ASSUME passes PROVE Shows(case)
  <2>1. /\ "hold" \in build
        /\ case = "expired" => "window" \in build
        /\ case = "digest_mismatch" => "digest" \in build
        /\ case = "changed_during_scan" => "rehash" \in build
        /\ case \in {"suspicious", "unknown", "unsupported"} => case \in build
    BY <1>2, <1>5, BlockShows
  <2> QED
    BY <1>2, <2>1 DEF Shows, Controlled
<1> HIDE DEF passes
<1> QED
  BY <1>1, <1>2, <1>3, <1>4, <1>5, CaseDone


\* The parts of a replay request, named.
sentNow == up /\ NewHTTPScanner(input.endpoint, input.secret)
seenAs(case) == {m \in memory : m.nonce = Nonce(case)}
sameAs(case) == {m \in seenAs(case) : m.content = Content(case)}
clashOf(case) == "conflict" \in scanner /\ seenAs(case) # sameAs(case)
cachedFor(case) == "cache" \in scanner /\ sameAs(case) # {}
recordFor(case) == IF cachedFor(case) THEN (CHOOSE m \in sameAs(case) : TRUE).record
                                      ELSE records + 1
replayPasses(case) == /\ sentNow
                      /\ CASE case = "first"        -> ~clashOf(case)
                           [] case = "exact_replay" -> ~clashOf(case) /\ recordFor(case) = first
                           [] case = "conflicting_replay" -> clashOf(case)

LEMMA ReplayParts ==
  ASSUME runReplayCases, NEW case, case = Head(todo)
  PROVE  /\ status = "running" /\ todo # <<>>
         /\ case \in {"first", "exact_replay", "conflicting_replay"}
         /\ \/ replayPasses(case) /\ todo' = Tail(todo) /\ status' = status
            \/ ~replayPasses(case) /\ todo' = todo /\ status' = "failed"
         /\ IF sentNow /\ ~clashOf(case) /\ ~cachedFor(case)
              THEN /\ records' = recordFor(case)
                   /\ memory'  = memory \cup {[nonce |-> Nonce(case), content |-> Content(case),
                                               record |-> recordFor(case)]}
              ELSE UNCHANGED <<records, memory>>
         /\ first' = IF case = "first" THEN recordFor(case) ELSE first
         /\ answered' = IF sentNow THEN answered \cup {case} ELSE answered
         /\ UNCHANGED <<setting, up, outages>>
<1>1. /\ Conclude(replayPasses(Head(todo)))
      /\ IF sentNow /\ ~clashOf(Head(todo)) /\ ~cachedFor(Head(todo))
           THEN /\ records' = recordFor(Head(todo))
                /\ memory'  = memory \cup {[nonce |-> Nonce(Head(todo)),
                                            content |-> Content(Head(todo)),
                                            record |-> recordFor(Head(todo))]}
           ELSE UNCHANGED <<records, memory>>
      /\ first' = IF Head(todo) = "first" THEN recordFor(Head(todo)) ELSE first
      /\ answered' = IF sentNow THEN answered \cup {Head(todo)} ELSE answered
      /\ UNCHANGED <<up, outages>>
  BY Zenon DEF runReplayCases, sentNow, seenAs, sameAs, clashOf, cachedFor, recordFor, replayPasses
<1>2. /\ status = "running" /\ todo # <<>>
      /\ case \in {"first", "exact_replay", "conflicting_replay"}
  BY DEF runReplayCases, Running
<1>3. /\ \/ replayPasses(case) /\ todo' = Tail(todo) /\ status' = status
         \/ ~replayPasses(case) /\ todo' = todo /\ status' = "failed"
      /\ UNCHANGED setting
  BY <1>1 DEF Conclude
<1> QED
  BY <1>1, <1>2, <1>3

LEMMA ReplayCasesEarn == Earning /\ runReplayCases => Earning'
<1> SUFFICES ASSUME Earning, runReplayCases PROVE Earning'
  OBVIOUS
<1>1. PICK case : case = Head(todo)
  OBVIOUS
<1>2. /\ status = "running" /\ todo # <<>>
      /\ case \in {"first", "exact_replay", "conflicting_replay"}
      /\ UNCHANGED setting
  BY <1>1, ReplayParts
<1>3. \/ replayPasses(case) /\ todo' = Tail(todo) /\ status' = status
      \/ ~replayPasses(case) /\ todo' = todo /\ status' = "failed"
  BY <1>1, ReplayParts
<1>4. RecordsMade
  BY <1>2, RunningAnswers DEF Answering
<1>5. PICK record : record = recordFor(case)
  OBVIOUS
<1>6. cachedFor(case) => record \in Nat /\ record <= records
  <2> SUFFICES ASSUME cachedFor(case) PROVE record \in Nat /\ record <= records
    OBVIOUS
  <2>1. sameAs(case) # {}
    BY DEF cachedFor
  <2>2. record = (CHOOSE m \in sameAs(case) : TRUE).record
    BY <1>5 DEF recordFor
  <2>3. PICK m \in sameAs(case) : record = m.record
    BY <2>1, <2>2
  <2> QED
    BY <1>4, <2>3 DEF RecordsMade, sameAs, seenAs
<1>7. ~cachedFor(case) => record = records + 1
  BY <1>5 DEF recordFor
<1>8. ASSUME replayPasses(case) PROVE Shows(case)
  <2>1. NewHTTPScanner(input.endpoint, input.secret)
    BY <1>8 DEF replayPasses, sentNow
  <2>2. CASE case = "first"
    BY <2>1, <2>2 DEF Shows, NewHTTPScanner
  <2>3. CASE case = "exact_replay"
    <3>1. record = first
      BY <1>5, <1>8, <2>3 DEF replayPasses
    <3>2. cachedFor(case)
      BY <1>4, <1>7, <3>1 DEF RecordsMade
    <3> QED
      BY <2>3, <3>2 DEF Shows, cachedFor
  <2>4. CASE case = "conflicting_replay"
    BY <1>8, <2>4 DEF Shows, replayPasses, clashOf
  <2> QED
    BY <1>2, <2>2, <2>3, <2>4
<1>9. ASSUME replayPasses(case) PROVE Answering'
  <2>1. /\ first' = IF case = "first" THEN record ELSE first
        /\ answered' = IF sentNow THEN answered \cup {case} ELSE answered
    BY <1>1, <1>5, ReplayParts
  <2>2. "invalid_credential" \in answered' => "auth" \in scanner'
    BY <1>2, <2>1, RunningAnswers DEF Answering, setting, scanner
  <2>3. sentNow /\ (case # "conflicting_replay" => ~clashOf(case))
        /\ (case = "conflicting_replay" => clashOf(case))
    BY <1>2, <1>9 DEF replayPasses
  <2>4. CASE clashOf(case)
    <3>1. UNCHANGED <<records, memory, first>>
      <4>1. case = "conflicting_replay"
        BY <2>3, <2>4
      <4>2. UNCHANGED <<records, memory>>
        BY <1>1, <2>4, ReplayParts
      <4> QED
        BY <2>1, <4>1, <4>2
    <3> QED
      BY <1>4, <2>2, <3>1 DEF Answering, RecordsMade
  <2>5. CASE ~clashOf(case) /\ cachedFor(case)
    <3>1. UNCHANGED <<records, memory>>
      BY <1>1, <2>5, ReplayParts
    <3> QED
      BY <1>4, <1>6, <2>1, <2>2, <2>5, <3>1 DEF Answering, RecordsMade
  <2>6. CASE ~clashOf(case) /\ ~cachedFor(case)
    <3>1. PICK new : new = [nonce |-> Nonce(case), content |-> Content(case), record |-> record]
      OBVIOUS
    <3>2. records' = records + 1 /\ memory' = memory \cup {new} /\ record = records + 1
      BY <1>1, <1>5, <1>7, <2>3, <2>6, <3>1, ReplayParts
    <3>3. new.record = record
      BY <3>1
    <3>4. RecordsMade'
      BY <1>4, <2>1, <3>2, <3>3 DEF RecordsMade
    <3> QED
      BY <2>2, <3>4 DEF Answering
  <2> QED
    BY <2>4, <2>5, <2>6
<1> QED
  BY <1>1, <1>2, <1>3, <1>8, <1>9, CaseDone

LEMMA EarningStep == Earning /\ [Next]_vars => Earning'
<1> SUFFICES ASSUME Earning, [Next]_vars PROVE Earning'
  OBVIOUS
<1>1. CASE Report
  <2>1. Answering'
    BY <1>1, RunningAnswers, StillAnswering DEF Report, deployed
  <2> QED
    BY <1>1, <2>1, BetweenCases DEF Report
<1>2. CASE LocalError
  BY <1>2, BetweenCases DEF LocalError
<1>3. CASE Outage
  <2>1. Answering'
    BY <1>3, RunningAnswers, StillAnswering DEF Outage
  <2> QED
    BY <1>3, <2>1, BetweenCases DEF Outage
<1>4. CASE Recover
  <2>1. Answering /\ UNCHANGED <<setting, records, first, answered>>
        /\ memory' \in {memory, {}}
    BY <1>4, RunningAnswers DEF Recover
  <2>2. Answering'
    BY <2>1 DEF Answering, RecordsMade, setting, scanner
  <2> QED
    BY <1>4, <2>2, BetweenCases DEF Recover
<1>5. CASE UNCHANGED vars
  <2>1. Answering' <=> Answering
    BY <1>5 DEF vars, Answering, RecordsMade, scanner
  <2> QED
    BY <1>5, <2>1, BetweenCases DEF vars, setting, Earning, Answering
<1> QED
  BY <1>1, <1>2, <1>3, <1>4, <1>5, ReadSecretEarns, ReadRestartEvidenceEarns, UploadCaseEarns,
     NegativeCaseEarns, TimeoutCaseEarns, ControlledCaseEarns, ReplayCasesEarn DEF Next, Command

LEMMA EarningInit == Init => Earning
<1> SUFFICES ASSUME Init PROVE Earning
  OBVIOUS
<1>1. command \in DOMAIN Cases /\ trial \in Trials /\ todo = Cases[command]
      /\ status = "running"
  BY DEF Init
<1>2. todo \in Seq(CaseNames) /\ Len(todo) \in Nat
  BY <1>1, CaseList
<1>3. TodoIsRest
  BY <1>1, <1>2 DEF TodoIsRest
<1>4. Passed = 0
  BY <1>1, <1>2 DEF Passed
<1>5. RecordsMade /\ answered = {}
  BY DEF Init, RecordsMade
<1> QED
  BY <1>1, <1>3, <1>4, <1>5 DEF Earning

\* Throughout a run of a command, every case that is behind it has shown what
\* it is there to show of the build, the scanner and the inputs.
THEOREM PassedCasesShow == Spec => []Earning
BY EarningInit, EarningStep, PTL DEF Spec

\* What single cases show, one by one.
LEMMA EachShows ==
  /\ Shows("secret") /\ command = "live" => validateScanEndpoint(input.endpoint)
  /\ Shows("clean") => "exact" \in build
  /\ Shows("malicious") => /\ "malicious" \in build /\ "hold" \in build /\ "handoff" \in build
                           /\ "detect" \in scanner
  /\ Shows("unavailable_endpoint") => "failclosed" \in build
  /\ Shows("restart_evidence") => validateWardveilRestartEvidence(input.evidence)
  /\ Shows("timeout") => "failclosed" \in build /\ "keep" \in build
  /\ Shows("expired") => "window" \in build /\ "hold" \in build
  /\ Shows("digest_mismatch") => "digest" \in build
  /\ Shows("changed_during_scan") => "rehash" \in build
  /\ Shows("suspicious") => "suspicious" \in build
  /\ Shows("unknown") => "unknown" \in build
  /\ Shows("unsupported") => "unsupported" \in build
  /\ Shows("first") => validateScanEndpoint(input.endpoint)
  /\ Shows("exact_replay") => "cache" \in scanner
  /\ Shows("conflicting_replay") => "conflict" \in scanner
<1>1. Shows("secret") /\ command = "live" => validateScanEndpoint(input.endpoint)
  BY DEF Shows
<1>2. Shows("clean") => "exact" \in build
  BY DEF Shows
<1>3. Shows("malicious") => /\ "malicious" \in build /\ "hold" \in build /\ "handoff" \in build
                            /\ "detect" \in scanner
  BY DEF Shows
<1>4. Shows("unavailable_endpoint") => "failclosed" \in build
  BY DEF Shows
<1>5. Shows("restart_evidence") => validateWardveilRestartEvidence(input.evidence)
  BY DEF Shows
<1>6. Shows("timeout") => "failclosed" \in build /\ "keep" \in build
  BY DEF Shows
<1>7. Shows("expired") => "window" \in build /\ "hold" \in build
  BY DEF Shows
<1>8. Shows("digest_mismatch") => "digest" \in build
  BY DEF Shows
<1>9. Shows("changed_during_scan") => "rehash" \in build
  BY DEF Shows
<1>10. Shows("suspicious") => "suspicious" \in build
  BY DEF Shows
<1>11. Shows("unknown") => "unknown" \in build
  BY DEF Shows
<1>12. Shows("unsupported") => "unsupported" \in build
  BY DEF Shows
<1>13. Shows("first") => validateScanEndpoint(input.endpoint)
  BY DEF Shows
<1>14. Shows("exact_replay") => "cache" \in scanner
  BY DEF Shows
<1>15. Shows("conflicting_replay") => "conflict" \in scanner
  BY DEF Shows
<1> QED
  BY <1>1, <1>2, <1>3, <1>4, <1>5, <1>6, <1>7, <1>8, <1>9, <1>10, <1>11, <1>12, <1>13,
     <1>14, <1>15

\* What all the cases of a command show together is what its report says.
LEMMA AllCasesEarn ==
  ASSUME Earning, status = "reported"
  PROVE  ReportIsEarned
<1>1. todo = <<>> /\ command \in DOMAIN Cases
  BY DEF Earning
<1>2. Passed = Len(Cases[command])
  <2>1. Len(Cases[command]) \in Nat
    BY <1>1, CaseList
  <2> QED
    BY <1>1, <2>1 DEF Passed
<1>3. \A i \in 1..Len(Cases[command]) : Shows(Cases[command][i])
  BY <1>2 DEF Earning
<1>4. "invalid_credential" \in answered => "auth" \in scanner
  BY DEF Earning
<1>5. CASE command = "live"
  <2>1. \A i \in 1..5 : Shows(LiveCases[i])
    BY <1>1, <1>3, <1>5, CaseList
  <2>2. /\ LiveCases[1] = "secret" /\ LiveCases[2] = "clean" /\ LiveCases[3] = "malicious"
        /\ LiveCases[5] = "unavailable_endpoint"
    BY DEF LiveCases
  <2>3. Shows("secret") /\ Shows("clean") /\ Shows("malicious") /\ Shows("unavailable_endpoint")
    BY <2>1, <2>2
  <2>4. validateScanEndpoint(input.endpoint) /\ "detect" \in scanner
    BY <1>5, <2>3, EachShows
  <2>5. LiveSafeguards \subseteq build
    BY <2>3, EachShows DEF LiveSafeguards
  <2>6. input.endpoint.host = "loopback"
    BY <2>4 DEF validateScanEndpoint
  <2> QED
    BY <1>4, <1>5, <2>4, <2>5, <2>6 DEF ReportIsEarned
<1>6. CASE command = "negative"
  <2>1. \A i \in 1..12 : Shows(NegativeCases[i])
    BY <1>1, <1>3, <1>6, CaseList
  <2>2. /\ NegativeCases[2] = "restart_evidence" /\ NegativeCases[3] = "timeout"
        /\ NegativeCases[4] = "expired" /\ NegativeCases[5] = "digest_mismatch"
        /\ NegativeCases[6] = "changed_during_scan" /\ NegativeCases[7] = "suspicious"
        /\ NegativeCases[8] = "unknown" /\ NegativeCases[9] = "unsupported"
        /\ NegativeCases[10] = "first" /\ NegativeCases[11] = "exact_replay"
        /\ NegativeCases[12] = "conflicting_replay"
    BY DEF NegativeCases
  <2>3. /\ Shows("restart_evidence") /\ Shows("timeout") /\ Shows("expired")
        /\ Shows("digest_mismatch") /\ Shows("changed_during_scan") /\ Shows("suspicious")
        /\ Shows("unknown") /\ Shows("unsupported") /\ Shows("first")
        /\ Shows("exact_replay") /\ Shows("conflicting_replay")
    BY <2>1, <2>2
  <2>4. /\ validateScanEndpoint(input.endpoint) /\ "cache" \in scanner /\ "conflict" \in scanner
        /\ validateWardveilRestartEvidence(input.evidence)
    BY <2>3, EachShows
  <2>5. NegativeSafeguards \subseteq build
    BY <2>3, EachShows DEF NegativeSafeguards
  <2>6. input.endpoint.host = "loopback"
    BY <2>4 DEF validateScanEndpoint
  <2>7. /\ EvidenceFields \subseteq input.evidence.says
        /\ now - input.evidence.observed <= 86400 /\ input.evidence.observed <= now + 300
    BY <2>4 DEF validateWardveilRestartEvidence, Recent
  <2>8. {"cache", "conflict"} \subseteq scanner
    BY <2>4
  <2> QED
    BY <1>6, <2>5, <2>6, <2>7, <2>8 DEF ReportIsEarned
<1> QED
  BY <1>1, <1>5, <1>6, CaseList

\* A command writes its report only for a build that has every safeguard the
\* command is about and a scanner that keeps the promises it reports, for
\* every build, scanner and input, however often the scanner comes and goes
\* (main of both acceptance commands).
THEOREM ReportsAreEarned == Spec => []ReportIsEarned
<1>1. status # "reported" => ReportIsEarned
  BY DEF ReportIsEarned
<1>2. Earning => ReportIsEarned
  BY <1>1, AllCasesEarn
<1> QED
  BY <1>2, PassedCasesShow, PTL

-----------------------------------------------------------------------------
(* A faultless build and scanner pass every case. *)

Named(case) == case # ""

\* Evidence that fails no check, unless it is for its digest.
Sound(observed, until) == /\ observed \in Nat /\ until \in Nat
                          /\ 0 < observed /\ observed <= until /\ observed <= now

LEMMA SoundEvidence ==
  ASSUME NEW case, NEW e, NEW digest, NEW observed, NEW until, NEW result,
         Tells(e, case, digest, observed, until, result), Sound(observed, until), Named(case)
  PROVE  LET d == Evaluate(Resource(case), "upload_finalize", e, now)
         IN /\ EqualFold(digest, HexDigest(case)) => d = Judge("upload_finalize", e.record, now)
            /\ ~EqualFold(digest, HexDigest(case)) =>
                 d = Block("upload_finalize", "wardveil_digest_mismatch")
<1>1. PICK resource : resource = Resource(case)
  OBVIOUS
<1>2. PICK t : t = now
  OBVIOUS
<1> DEFINE checks == Checks(resource, "upload_finalize", e, t)
<1>3. resource.space = case /\ resource.node = case /\ resource.size = 1
      /\ resource.digest = HexDigest(case) /\ ValidSHA256(HexDigest(case))
  BY <1>1 DEF Resource, HexDigest, ValidSHA256
<1>4. ~checks[1].fails
  <2>1. checks[1].fails = (\/ resource.space = "" \/ resource.node = "" \/ resource.size < 0
                           \/ ~ValidSHA256(resource.digest))
    BY DEF Checks
  <2>2. ~(resource.size < 0)
    BY <1>3
  <2>3. ~(\/ resource.space = "" \/ resource.node = "" \/ resource.size < 0
          \/ ~ValidSHA256(resource.digest))
    BY <1>3, <2>2, Zenon DEF Named
  <2> QED
    BY <2>1, <2>3, Zenon
<1>5. ~checks[2].fails
  BY DEF Checks, Actions
<1>6. ~checks[3].fails
  BY <1>1 DEF Checks, Tells
<1>7. checks[4].fails <=> ~EqualFold(digest, HexDigest(case))
  BY <1>3 DEF Checks, Tells
<1>8. ~checks[5].fails
  BY DEF Checks, Tells
<1>9. ~checks[6].fails
  BY DEF Checks, Tells
<1>10. ~checks[7].fails
  <2>1. "controlled-acceptance" \notin Blank
    BY Zenon DEF Blank
  <2>2. e.record.authoritative = TRUE /\ e.record.producer \notin Blank
    BY <2>1 DEF Tells
  <2> QED
    BY <2>2 DEF Checks
<1>11. ~checks[8].fails
  BY <1>1 DEF Checks, Tells
<1>12. ~checks[9].fails
  <2>1. checks[9].fails = (\/ e.record.observed = 0 \/ e.record.until = 0
                           \/ e.record.until < e.record.observed)
    BY DEF Checks
  <2>2. e.record.observed = observed /\ e.record.until = until
    BY DEF Tells
  <2>3. ~(\/ e.record.observed = 0 \/ e.record.until = 0
          \/ e.record.until < e.record.observed)
    BY <2>2 DEF Sound
  <2> QED
    BY <2>1, <2>3, Zenon
<1>13. ~checks[10].fails
  <2>1. checks[10].fails = (e.record.observed > t)
    BY DEF Checks
  <2>2. e.record.observed = observed
    BY DEF Tells
  <2>3. t \in Nat
    BY <1>2, SMT DEF now
  <2>4. ~(e.record.observed > t)
    BY <1>2, <2>2, <2>3 DEF Sound
  <2> QED
    BY <2>1, <2>4, Zenon
<1>14. checks[4].reason = "wardveil_digest_mismatch"
  BY DEF Checks
<1>15. \A i \in 1..10 : i \in {1, 2, 3, 4, 5, 6, 7, 8, 9, 10}
  OBVIOUS
<1>16. PICK d : d = Evaluate(resource, "upload_finalize", e, t)
  OBVIOUS
<1>17. \/ /\ \A i \in 1..10 : ~checks[i].fails
          /\ d = Judge("upload_finalize", e.record, t)
       \/ \E i \in 1..10 : checks[i].fails /\ d = Block("upload_finalize", checks[i].reason)
  BY <1>16, EvaluateCases
<1> HIDE DEF checks
<1>18. \A i \in 1..10 : checks[i].fails => i = 4
  BY <1>4, <1>5, <1>6, <1>8, <1>9, <1>10, <1>11, <1>12, <1>13, <1>15
<1>19. CASE EqualFold(digest, HexDigest(case))
  <2>1. d = Judge("upload_finalize", e.record, t)
    BY <1>7, <1>17, <1>18, <1>19
  <2> QED
    BY <1>1, <1>2, <1>16, <1>19, <2>1
<1>20. CASE ~EqualFold(digest, HexDigest(case))
  <2>1. d = Block("upload_finalize", "wardveil_digest_mismatch")
    BY <1>7, <1>14, <1>17, <1>18, <1>20
  <2> QED
    BY <1>1, <1>2, <1>16, <1>20, <2>1
<1> QED
  BY <1>19, <1>20

\* What is decided on sound evidence with at least one reference.
LEMMA Verdicts ==
  ASSUME NEW act, NEW record, NEW t, record.refs = 1
  PROVE  LET d == Judge(act, record, t)
         IN /\ record.result = "malicious" =>
                 d.disposition = "block_quarantine" /\ ~d.canRelease /\ d.quarantineRequired
            /\ record.result = "clean" /\ t > record.until =>
                 d = Block(act, "wardveil_evidence_expired")
            /\ record.result = "clean" /\ ~(t > record.until) =>
                 d.disposition = "allow" /\ d.canRelease
            /\ record.result = "suspicious" /\ ~(t > record.until) =>
                 /\ d.disposition = "hold_review" /\ ~d.canRelease
                 /\ d.reason = "wardveil_suspicious_review_required"
            /\ record.result = "unknown" /\ ~(t > record.until) =>
                 d = Block(act, "wardveil_result_unknown")
            /\ record.result = "unsupported" /\ ~(t > record.until) =>
                 d = Block(act, "wardveil_result_unsupported")
BY DEF Judge, MaliciousMatch, Lapsed

LEMMA BlockFields ==
  ASSUME NEW act, NEW reason
  PROVE  /\ Block(act, reason).disposition = "blocked_unverified"
         /\ Block(act, reason).reason = reason /\ ~Block(act, reason).canRelease
BY DEF Block

\* The build of this repository takes an envelope for what it is.
LEMMA TakenAsIs ==
  ASSUME build = Safeguards, NEW case, NEW digest, NEW observed, NEW until,
         NEW result \in Results
  PROVE  Tells(Taken(Resource(case), Reply(case, digest, observed, until, result)),
               case, digest, observed, until, result)
<1>1. "digest" \in build /\ "window" \in build
  BY DEF Safeguards
<1>2. result \in build \/ result = "clean"
  BY DEF Safeguards, Results
<1>3. PICK rs : rs = IF result \in build THEN result ELSE "clean"
  OBVIOUS
<1>4. rs = result
  BY <1>2, <1>3
<1> QED
  BY <1>1, <1>3, <1>4, TakenTells


\* What the build of this repository answers to an upload.
LEMMA CompleteAnswers ==
  ASSUME build = Safeguards, NEW case, NEW reply
  PROVE  LET o == Complete(case, reply)
             d == EvaluateUpload(case, reply.envelope)
         IN /\ reply.code = 200 /\ d.canRelease =>
                 o.err = "none" /\ o.decision = d /\ o.object = "exact" /\ ~o.staging
            /\ reply.code = 200 /\ ~d.canRelease =>
                 o.err = "blocked" /\ o.decision = d /\ o.object = "none" /\ o.staging
            /\ reply.code # 200 => o.err = "unavailable" /\ o.object = "none" /\ o.staging
<1> DEFINE o == Complete(case, reply)
           d == EvaluateUpload(case, reply.envelope)
<1>1. "exact" \in build /\ "hold" \in build /\ "keep" \in build /\ "failclosed" \in build
  BY DEF Safeguards
<1>2. CASE reply.code = 200 /\ d.canRelease
  <2>1. o = Outcome("none", d, "exact", FALSE)
    BY <1>1, <1>2 DEF Complete, Released
  <2>2. o.err = "none" /\ o.decision = d /\ o.object = "exact" /\ o.staging = FALSE
    BY <2>1 DEF Outcome
  <2> QED
    BY <1>2, <2>2
<1>3. CASE reply.code = 200 /\ ~d.canRelease
  <2>1. o = Outcome("blocked", d, "none", TRUE)
    BY <1>1, <1>3 DEF Complete
  <2>2. o.err = "blocked" /\ o.decision = d /\ o.object = "none" /\ o.staging = TRUE
    BY <2>1 DEF Outcome
  <2> QED
    BY <1>3, <2>2
<1>4. CASE reply.code # 200
  <2>1. PICK block : block = Block("upload_finalize", "")
    OBVIOUS
  <2>2. o = Outcome("unavailable", block, "none", TRUE)
    BY <1>1, <1>4, <2>1 DEF Complete
  <2>3. o.err = "unavailable" /\ o.object = "none" /\ o.staging = TRUE
    BY <2>2 DEF Outcome
  <2> QED
    BY <1>4, <2>3
<1> QED
  BY <1>2, <1>3, <1>4

\* What it decides on an envelope that is sound but for its digest.
LEMMA UploadDecided ==
  ASSUME build = Safeguards, NEW case, Named(case), NEW digest, NEW observed, NEW until,
         NEW result \in Results, Sound(observed, until)
  PROVE  LET d == EvaluateUpload(case, Reply(case, digest, observed, until, result))
         IN /\ ~EqualFold(digest, HexDigest(case)) =>
                 d = Block("upload_finalize", "wardveil_digest_mismatch")
            /\ EqualFold(digest, HexDigest(case)) =>
                 \E record : /\ record.refs = 1
                             /\ record.result = result /\ record.until = until
                             /\ LET j == Judge("upload_finalize", record, now)
                                IN d = IF j.canRelease /\ case = "changed_during_scan"
                                         THEN Block("upload_finalize",
                                                    "drive_content_changed_during_scan")
                                         ELSE j
<1>1. PICK e : e = Taken(Resource(case), Reply(case, digest, observed, until, result))
  OBVIOUS
<1>2. Tells(e, case, digest, observed, until, result)
  BY <1>1, TakenAsIs
<1>3. PICK decision : decision = Evaluate(Resource(case), "upload_finalize", e, now)
  OBVIOUS
<1>4. "rehash" \in build
  BY DEF Safeguards
<1>5. PICK d : d = EvaluateUpload(case, Reply(case, digest, observed, until, result))
  OBVIOUS
<1>6. d = IF decision.canRelease /\ case = "changed_during_scan"
            THEN Block("upload_finalize", "drive_content_changed_during_scan") ELSE decision
  BY <1>1, <1>3, <1>4, <1>5 DEF EvaluateUpload
<1>7. CASE ~EqualFold(digest, HexDigest(case))
  <2>1. decision = Block("upload_finalize", "wardveil_digest_mismatch")
    BY <1>2, <1>3, <1>7, SoundEvidence
  <2>2. ~decision.canRelease
    BY <2>1, BlockFields
  <2>3. d = Block("upload_finalize", "wardveil_digest_mismatch")
    BY <1>6, <2>1, <2>2
  <2> QED
    BY <1>5, <1>7, <2>3
<1>8. CASE EqualFold(digest, HexDigest(case))
  <2>1. PICK record : record = e.record
    OBVIOUS
  <2>2. decision = Judge("upload_finalize", record, now)
    BY <1>2, <1>3, <1>8, <2>1, SoundEvidence
  <2>3. record.refs = 1 /\ record.result = result /\ record.until = until
    BY <1>2, <2>1 DEF Tells
  <2> QED
    BY <1>5, <1>6, <1>8, <2>2, <2>3
<1> QED
  BY <1>7, <1>8

\* The time at which the cases are judged.
LEMMA TheTime ==
  /\ Sound(now, now + 60) /\ Sound(now - 1, now + 60) /\ Sound(now - 120, now - 60)
  /\ ~(now > now + 60) /\ now > now - 60
BY SMT DEF Sound, now

LEMMA CasesNamed ==
  /\ Named("clean") /\ Named("malicious")
  /\ Named("expired") /\ Named("digest_mismatch") /\ Named("changed_during_scan")
  /\ Named("suspicious") /\ Named("unknown") /\ Named("unsupported")
BY Zenon DEF Named

LEMMA SameDigest == \A d : EqualFold(d, d)
BY DEF EqualFold

LEMMA CleanGoesThrough ==
  ASSUME build = Safeguards, up
  PROVE  CleanPasses(Complete("clean", WardveilScan("clean", TRUE)))
<1>1. PICK reply : reply = WardveilScan("clean", TRUE)
  OBVIOUS
<1>2. reply = Success(authoritativeEnvelope("clean", now, now + 60, "clean"))
  BY <1>1, ScanAnswers
<1>3. /\ reply.code = 200
      /\ reply.envelope = Reply("clean", HexDigest("clean"), now, now + 60, "clean")
  BY <1>2, ReplyCodes, OwnDigest
<1>4. PICK d : d = EvaluateUpload("clean", reply.envelope)
  OBVIOUS
<1>5. "clean" \in Results
  BY DEF Results
<1>6. PICK record : /\ record.refs = 1 /\ record.result = "clean" /\ record.until = now + 60
                    /\ LET j == Judge("upload_finalize", record, now)
                       IN d = IF j.canRelease /\ "clean" = "changed_during_scan"
                                THEN Block("upload_finalize", "drive_content_changed_during_scan")
                                ELSE j
  BY <1>3, <1>4, <1>5, UploadDecided, TheTime, CasesNamed, SameDigest
<1>7. d = Judge("upload_finalize", record, now)
  BY <1>6
<1>8. d.disposition = "allow" /\ d.canRelease
  BY <1>6, <1>7, Verdicts, TheTime
<1>9. PICK o : o = Complete("clean", reply)
  OBVIOUS
<1>10. o.err = "none" /\ o.decision = d /\ o.object = "exact" /\ ~o.staging
  BY <1>3, <1>4, <1>8, <1>9, CompleteAnswers
<1>11. CleanPasses(o)
  BY <1>8, <1>10 DEF CleanPasses
<1> QED
  BY <1>1, <1>9, <1>11

LEMMA MaliciousIsStopped ==
  ASSUME build = Safeguards, "detect" \in scanner, up
  PROVE  MaliciousPasses(Complete("malicious", WardveilScan("malicious", TRUE)))
<1>1. PICK reply : reply = WardveilScan("malicious", TRUE)
  OBVIOUS
<1>2. reply = Success(authoritativeEnvelope("malicious", now, now + 60, "malicious"))
  BY <1>1, ScanAnswers
<1>3. /\ reply.code = 200
      /\ reply.envelope = Reply("malicious", HexDigest("malicious"), now, now + 60, "malicious")
  BY <1>2, ReplyCodes, OwnDigest
<1>4. PICK d : d = EvaluateUpload("malicious", reply.envelope)
  OBVIOUS
<1>5. "malicious" \in Results
  BY DEF Results
<1>6. PICK record : /\ record.refs = 1 /\ record.result = "malicious"
                    /\ LET j == Judge("upload_finalize", record, now)
                       IN d = IF j.canRelease /\ "malicious" = "changed_during_scan"
                                THEN Block("upload_finalize", "drive_content_changed_during_scan")
                                ELSE j
  BY <1>3, <1>4, <1>5, UploadDecided, TheTime, CasesNamed, SameDigest
<1>7. d = Judge("upload_finalize", record, now)
  BY <1>6
<1>8. d.disposition = "block_quarantine" /\ ~d.canRelease /\ d.quarantineRequired
  BY <1>6, <1>7, Verdicts
<1>9. PICK o : o = Complete("malicious", reply)
  OBVIOUS
<1>10. o.err = "blocked" /\ o.decision = d /\ o.object = "none" /\ o.staging
  BY <1>3, <1>4, <1>8, <1>9, CompleteAnswers
<1>11. PICK id, dg, refs : /\ id = ResourceID(Resource("malicious"))
                           /\ dg = Resource("malicious").digest
                           /\ refs = d.refs
  OBVIOUS
<1>12. PICK handoff : handoff = [resourceID |-> id, digest |-> dg, refs |-> refs,
                                 needsExecutorAuthority |-> TRUE, destructive |-> FALSE]
  OBVIOUS
<1>13. handoff \in QuarantineHandoff(o.decision, Resource("malicious"))
  BY <1>8, <1>10, <1>11, <1>12 DEF QuarantineHandoff
<1>14. "handoff" \in build
  BY DEF Safeguards
<1>15. LET made == [handoff EXCEPT !.destructive = FALSE]
       IN made.needsExecutorAuthority /\ ~made.destructive
  BY <1>12
<1>16. ("handoff" \notin build) = FALSE
  BY <1>14
<1>17. \E h \in QuarantineHandoff(o.decision, Resource("malicious")) :
         LET made == [h EXCEPT !.destructive = "handoff" \notin build]
         IN made.needsExecutorAuthority /\ ~made.destructive
  BY <1>13, <1>15, <1>16
<1>18. MaliciousPasses(o)
  BY <1>8, <1>10, <1>17 DEF MaliciousPasses
<1> QED
  BY <1>1, <1>9, <1>18


\* A request without an answer ends as the cases about it expect.
LEMMA NoAnswerIsUnavailable ==
  ASSUME build = Safeguards, NEW case, NEW reply, reply.code # 200
  PROVE  LET o == Complete(case, reply)
         IN o.err = "unavailable" /\ o.object = "none" /\ o.staging
BY CompleteAnswers

\* The client of a case can be made whenever the one of the command can.
LEMMA CaseClient ==
  ASSUME NewHTTPScanner(input.endpoint, input.secret)
  PROVE  NewHTTPScanner(Loopback, input.secret)
<1>1. PICK endpoint : endpoint = Loopback
  OBVIOUS
<1>2. /\ endpoint.scheme = "http" /\ endpoint.decorated = FALSE /\ endpoint.path = "/v1/scan"
      /\ endpoint.port = "8792" /\ endpoint.host = "loopback"
  BY <1>1 DEF Loopback
<1>3. validateScanEndpoint(endpoint)
  BY <1>2, Zenon DEF validateScanEndpoint
<1> QED
  BY <1>1, <1>3 DEF NewHTTPScanner

LEMMA ControlledIsBlocked ==
  ASSUME build = Safeguards, NEW case \in Controlled
  PROVE  validateBlockedDecision(case, Complete(case, Success(ControlledEnvelope(case))))
<1>1. PICK e : e = ControlledEnvelope(case)
  OBVIOUS
<1>2. PICK reply : reply = Success(e)
  OBVIOUS
<1>3. reply.code = 200 /\ reply.envelope = e
  BY <1>2, ReplyCodes
<1>4. PICK d : d = EvaluateUpload(case, e)
  OBVIOUS
<1>5. ASSUME ~d.canRelease, <<d.disposition, d.reason>> = Expected(case)
      PROVE  validateBlockedDecision(case, Complete(case, Success(ControlledEnvelope(case))))
  <2>1. PICK o : o = Complete(case, reply)
    OBVIOUS
  <2>2. o.err = "blocked" /\ o.decision = d /\ o.object = "none" /\ o.staging
    BY <1>3, <1>4, <1>5, <2>1, CompleteAnswers
  <2>3. validateBlockedDecision(case, o)
    BY <1>5, <2>2 DEF validateBlockedDecision
  <2> QED
    BY <1>1, <1>2, <2>1, <2>3
<1>6. "clean" \in Results /\ "suspicious" \in Results /\ "unknown" \in Results
      /\ "unsupported" \in Results
  BY DEF Results
<1>7. CASE case = "expired"
  <2>1. e = Reply(case, HexDigest(case), now - 120, now - 60, "clean")
    BY <1>1, <1>7, OwnDigest DEF ControlledEnvelope
  <2>2. PICK record : /\ record.refs = 1 /\ record.result = "clean" /\ record.until = now - 60
                      /\ LET j == Judge("upload_finalize", record, now)
                         IN d = IF j.canRelease /\ case = "changed_during_scan"
                                  THEN Block("upload_finalize",
                                             "drive_content_changed_during_scan")
                                  ELSE j
    BY <1>4, <1>6, <1>7, <2>1, UploadDecided, TheTime, CasesNamed, SameDigest
  <2>3. d = Block("upload_finalize", "wardveil_evidence_expired")
    <3>1. d = Judge("upload_finalize", record, now)
      BY <1>7, <2>2
    <3> QED
      BY <2>2, <3>1, Verdicts, TheTime
  <2>4. /\ ~d.canRelease /\ d.disposition = "blocked_unverified"
        /\ d.reason = "wardveil_evidence_expired"
    BY <2>3, BlockFields
  <2>5. <<d.disposition, d.reason>> = Expected(case)
    BY <1>7, <2>4 DEF Expected
  <2> QED
    BY <1>5, <2>4, <2>5
<1>8. CASE case = "digest_mismatch"
  <2>1. e = Reply(case, HexDigest("ffff"), now - 1, now + 60, "clean")
    BY <1>1, <1>8 DEF ControlledEnvelope, Reply
  <2>2. ~EqualFold(HexDigest("ffff"), HexDigest("digest_mismatch"))
    BY DEF EqualFold, HexDigest
  <2>3. d = Block("upload_finalize", "wardveil_digest_mismatch")
    BY <1>4, <1>6, <1>8, <2>1, <2>2, UploadDecided, TheTime, CasesNamed
  <2>4. /\ ~d.canRelease /\ d.disposition = "blocked_unverified"
        /\ d.reason = "wardveil_digest_mismatch"
    BY <2>3, BlockFields
  <2>5. <<d.disposition, d.reason>> = Expected(case)
    BY <1>8, <2>4 DEF Expected
  <2> QED
    BY <1>5, <2>4, <2>5
<1>9. CASE case = "changed_during_scan"
  <2>1. e = Reply(case, HexDigest(case), now - 1, now + 60, "clean")
    BY <1>1, <1>9, OwnDigest DEF ControlledEnvelope
  <2>2. PICK record : /\ record.refs = 1 /\ record.result = "clean" /\ record.until = now + 60
                      /\ LET j == Judge("upload_finalize", record, now)
                         IN d = IF j.canRelease /\ case = "changed_during_scan"
                                  THEN Block("upload_finalize",
                                             "drive_content_changed_during_scan")
                                  ELSE j
    BY <1>4, <1>6, <1>9, <2>1, UploadDecided, TheTime, CasesNamed, SameDigest
  <2>3. Judge("upload_finalize", record, now).canRelease
    BY <2>2, Verdicts, TheTime
  <2>4. d = Block("upload_finalize", "drive_content_changed_during_scan")
    BY <1>9, <2>2, <2>3
  <2>5. /\ ~d.canRelease /\ d.disposition = "blocked_unverified"
        /\ d.reason = "drive_content_changed_during_scan"
    BY <2>4, BlockFields
  <2>6. <<d.disposition, d.reason>> = Expected(case)
    BY <1>9, <2>5 DEF Expected
  <2> QED
    BY <1>5, <2>5, <2>6
<1>10. CASE case \in {"suspicious", "unknown", "unsupported"}
  <2>1. e = Reply(case, HexDigest(case), now - 1, now + 60, case)
    <3>1. e = authoritativeEnvelope(case, now - 1, now + 60, case)
      BY <1>1, <1>10 DEF ControlledEnvelope
    <3> QED
      BY <3>1, OwnDigest
  <2>2. PICK record : /\ record.refs = 1 /\ record.result = case /\ record.until = now + 60
                      /\ LET j == Judge("upload_finalize", record, now)
                         IN d = IF j.canRelease /\ case = "changed_during_scan"
                                  THEN Block("upload_finalize",
                                             "drive_content_changed_during_scan")
                                  ELSE j
    BY <1>4, <1>6, <1>10, <2>1, UploadDecided, TheTime, CasesNamed, SameDigest
  <2>3. d = Judge("upload_finalize", record, now)
    BY <1>10, <2>2
  <2>4. CASE case = "suspicious"
    <3>1. /\ d.disposition = "hold_review" /\ ~d.canRelease
          /\ d.reason = "wardveil_suspicious_review_required"
      BY <2>2, <2>3, <2>4, Verdicts, TheTime
    <3>2. <<d.disposition, d.reason>> = Expected(case)
      BY <2>4, <3>1 DEF Expected
    <3> QED
      BY <1>5, <3>1, <3>2
  <2>5. CASE case = "unknown"
    <3>1. d = Block("upload_finalize", "wardveil_result_unknown")
      BY <2>2, <2>3, <2>5, Verdicts, TheTime
    <3>2. /\ ~d.canRelease /\ d.disposition = "blocked_unverified"
          /\ d.reason = "wardveil_result_unknown"
      BY <3>1, BlockFields
    <3>3. <<d.disposition, d.reason>> = Expected(case)
      BY <2>5, <3>2 DEF Expected
    <3> QED
      BY <1>5, <3>2, <3>3
  <2>6. CASE case = "unsupported"
    <3>1. d = Block("upload_finalize", "wardveil_result_unsupported")
      BY <2>2, <2>3, <2>6, Verdicts, TheTime
    <3>2. /\ ~d.canRelease /\ d.disposition = "blocked_unverified"
          /\ d.reason = "wardveil_result_unsupported"
      BY <3>1, BlockFields
    <3>3. <<d.disposition, d.reason>> = Expected(case)
      BY <2>6, <3>2 DEF Expected
    <3> QED
      BY <1>5, <3>2, <3>3
  <2> QED
    BY <1>10, <2>4, <2>5, <2>6
<1> QED
  BY <1>7, <1>8, <1>9, <1>10 DEF Controlled


Replays == {"first", "exact_replay", "conflicting_replay"}

\* The replay cases are the last three of the negative command.
LEMMA Position ==
  ASSUME Earning, todo # <<>>
  PROVE  /\ Len(todo) \in Nat /\ Len(Tail(todo)) = Len(todo) - 1
         /\ Head(todo) \in Replays => command = "negative"
         /\ Head(todo) = "first" => Len(todo) = 3
         /\ Head(todo) = "exact_replay" => Len(todo) = 2
         /\ Head(todo) = "conflicting_replay" => Len(todo) = 1
         /\ Head(todo) \notin Replays => command = "live" \/ Len(todo) >= 4
<1>1. command \in DOMAIN Cases
  BY DEF Earning
<1>2. PICK all, rest, n, c : all = Cases[command] /\ rest = todo /\ n = Len(rest) /\ c = Head(rest)
  OBVIOUS
<1>3. all \in Seq(CaseNames)
  BY <1>1, <1>2, CaseList
<1>4. /\ rest \in Seq(CaseNames) /\ Len(rest) <= Len(all) /\ rest # <<>>
      /\ \A i \in 1..Len(rest) : rest[i] = all[Len(all) - Len(rest) + i]
  BY <1>2 DEF Earning, TodoIsRest
<1>5. /\ n > 0 /\ c = all[Len(all) - n + 1] /\ Len(Tail(rest)) = n - 1
      /\ n \in Nat /\ n <= Len(all)
  BY <1>2, <1>3, <1>4, NextCase
<1>6. CASE command = "live"
  <2>1. all = LiveCases /\ Len(all) = 5
    BY <1>1, <1>2, <1>6, CaseList
  <2>2. n \in {1, 2, 3, 4, 5}
    BY <1>5, <2>1
  <2>3. \A i \in {1, 2, 3, 4, 5} : LiveCases[i] \notin Replays
    BY DEF LiveCases, Replays
  <2>4. 5 - n + 1 \in {1, 2, 3, 4, 5}
    BY <2>2
  <2>5. c \notin Replays
    BY <1>5, <2>1, <2>3, <2>4
  <2> QED
    BY <1>2, <1>5, <1>6, <2>5 DEF Replays
<1>7. CASE command = "negative"
  <2>1. all = NegativeCases /\ Len(all) = 12
    BY <1>1, <1>2, <1>7, CaseList
  <2>2. n \in {1, 2, 3, 4, 5, 6, 7, 8, 9, 10, 11, 12}
    BY <1>5, <2>1
  <2>3. /\ NegativeCases[10] = "first" /\ NegativeCases[11] = "exact_replay"
        /\ NegativeCases[12] = "conflicting_replay"
    BY DEF NegativeCases
  <2>4. \A i \in {1, 2, 3, 4, 5, 6, 7, 8, 9} : NegativeCases[i] \notin Replays
    BY DEF NegativeCases, Replays
  <2>5. c = NegativeCases[12 - n + 1]
    BY <1>5, <2>1
  <2>6. CASE n = 1
    BY <1>2, <1>5, <1>7, <2>3, <2>5, <2>6 DEF Replays
  <2>7. CASE n = 2
    BY <1>2, <1>5, <1>7, <2>3, <2>5, <2>7 DEF Replays
  <2>8. CASE n = 3
    BY <1>2, <1>5, <1>7, <2>3, <2>5, <2>8 DEF Replays
  <2>9. CASE n \in {4, 5, 6, 7, 8, 9, 10, 11, 12}
    <3>1. 12 - n + 1 \in {1, 2, 3, 4, 5, 6, 7, 8, 9} /\ n >= 4
      BY <2>9
    <3>2. c \notin Replays
      BY <2>4, <2>5, <3>1
    <3> QED
      BY <1>2, <1>5, <3>1, <3>2 DEF Replays
  <2> QED
    BY <2>2, <2>6, <2>7, <2>8, <2>9
<1> QED
  BY <1>1, <1>6, <1>7, CaseList

LEMMA FaultlessNow ==
  ASSUME Passing, UNCHANGED setting, outages' \in {outages, outages + 1}, Faultless'
  PROVE  /\ Faultless /\ outages' = outages /\ build = Safeguards /\ up
         /\ "detect" \in scanner /\ "auth" \in scanner
         /\ "cache" \in scanner /\ "conflict" \in scanner
<1>1. build' = build /\ scanner' = scanner /\ input' = input
  BY DEF setting, build, scanner, input
<1>2. outages' = 0 /\ outages \in Nat
  BY DEF Faultless, Passing
<1>3. outages = 0 /\ outages' = outages
  BY <1>2
<1>4. /\ readSecretFile(input.secret)' <=> readSecretFile(input.secret)
      /\ NewHTTPScanner(input.endpoint, input.secret)'
           <=> NewHTTPScanner(input.endpoint, input.secret)
  BY <1>1, SMT DEF readSecretFile, NewHTTPScanner, validateScanEndpoint
<1>5. validateWardveilRestartEvidence(input.evidence)'
        <=> validateWardveilRestartEvidence(input.evidence)
  BY <1>1, SMT DEF validateWardveilRestartEvidence, Recent, now, EvidenceFields
<1>6. Faultless
  BY <1>1, <1>3, <1>4, <1>5 DEF Faultless
<1> QED
  BY <1>3, <1>6 DEF Faultless, Passing, Promises

\* A case other than a replay that a faultless setting passes.
LEMMA CasePasses ==
  ASSUME Earning, Passing, status = "running", todo # <<>>, Head(todo) \notin Replays,
         UNCHANGED <<setting, up, outages, memory, first>>,
         Faultless => todo' = Tail(todo) /\ status' = "running"
  PROVE  Passing'
<1>1. outages' \in Nat /\ (outages' = 0 => up')
  BY DEF Passing
<1>2. ASSUME Faultless' PROVE status' # "failed" /\ Remembers'
  <2>1. Faultless
    BY <1>2, FaultlessNow
  <2>2. Remembers
    BY <2>1 DEF Passing
  <2>3. command' = command /\ memory' = memory /\ todo' = Tail(todo) /\ status' = "running"
    BY <2>1 DEF setting
  <2>4. Len(todo) \in Nat /\ Len(Tail(todo)) = Len(todo) - 1
        /\ (command = "live" \/ Len(todo) >= 4)
    BY Position
  <2>5. memory = {}
    BY <2>2, <2>4 DEF Remembers
  <2>6. Remembers'
    BY <2>3, <2>4, <2>5 DEF Remembers
  <2> QED
    BY <2>3, <2>6
<1> QED
  BY <1>1, <1>2 DEF Passing

\* Steps other than a case.
LEMMA PassesOn ==
  ASSUME Passing, UNCHANGED <<setting, up, outages, memory, first, todo>>,
         status' # "failed" \/ status' = status
  PROVE  Passing'
<1>1. outages' \in Nat /\ (outages' = 0 => up')
  BY DEF Passing
<1>2. ASSUME Faultless' PROVE status' # "failed" /\ Remembers'
  <2>1. Faultless
    BY <1>2, FaultlessNow
  <2>2. Remembers /\ status # "failed"
    BY <2>1 DEF Passing
  <2> QED
    BY <2>2 DEF Remembers, setting
<1> QED
  BY <1>1, <1>2 DEF Passing


LEMMA UploadCasePasses == Earning /\ Passing /\ runUploadCase => Passing'
<1> SUFFICES ASSUME Earning, Passing, runUploadCase PROVE Passing'
  OBVIOUS
<1> DEFINE outcome == Complete(Head(todo), WardveilScan(Head(todo), TRUE))
           passes == IF Head(todo) = "clean" THEN CleanPasses(outcome) ELSE MaliciousPasses(outcome)
<1>1. /\ status = "running" /\ todo # <<>> /\ Head(todo) \in {"clean", "malicious"}
      /\ UNCHANGED <<setting, up, outages, memory, first>>
  BY DEF runUploadCase, Running, Conclude, Scanned, deployed
<1>2. \/ passes /\ todo' = Tail(todo) /\ status' = status
      \/ ~passes /\ todo' = todo /\ status' = "failed"
  BY DEF runUploadCase, Conclude
<1>3. ASSUME Faultless PROVE passes
  <2>1. build = Safeguards /\ "detect" \in scanner /\ up
    BY <1>3 DEF Faultless, Passing, Promises
  <2>2. CASE Head(todo) = "clean"
    BY <2>1, <2>2, CleanGoesThrough
  <2>3. CASE Head(todo) = "malicious"
    BY <2>1, <2>3, MaliciousIsStopped
  <2> QED
    BY <1>1, <2>2, <2>3
<1>4. Head(todo) \notin Replays
  BY <1>1 DEF Replays
<1> HIDE DEF passes
<1> QED
  BY <1>1, <1>2, <1>3, <1>4, CasePasses

LEMMA NegativeCasePasses == Earning /\ Passing /\ runNegativeCase => Passing'
<1> SUFFICES ASSUME Earning, Passing, runNegativeCase PROVE Passing'
  OBVIOUS
<1> DEFINE reply == IF Head(todo) = "invalid_credential" THEN WardveilScan(Head(todo), FALSE)
                                                         ELSE Failure(0)
           outcome == Complete(Head(todo), reply)
           passes == /\ Head(todo) = "unavailable_endpoint" => NewHTTPScanner(Loopback, input.secret)
                     /\ outcome.err = "unavailable" /\ outcome.object = "none"
<1>1. /\ status = "running" /\ todo # <<>>
      /\ Head(todo) \in {"invalid_credential", "unavailable_endpoint"}
      /\ UNCHANGED <<setting, up, outages, memory, first>>
  BY DEF runNegativeCase, Running, Conclude, Scanned, Unscanned, deployed
<1>2. \/ passes /\ todo' = Tail(todo) /\ status' = status
      \/ ~passes /\ todo' = todo /\ status' = "failed"
  BY DEF runNegativeCase, Conclude
<1>3. ASSUME Faultless PROVE passes
  <2>1. build = Safeguards /\ "auth" \in scanner /\ up
    BY <1>3 DEF Faultless, Passing, Promises
  <2>2. NewHTTPScanner(Loopback, input.secret)
    BY <1>3, CaseClient DEF Faultless
  <2>3. PICK case, answer : case = Head(todo) /\ answer = reply
    OBVIOUS
  <2>4. answer.code # 200
    <3>1. Failure(0).code # 200 /\ Failure(401).code # 200
      BY ReplyCodes
    <3>2. CASE Head(todo) = "invalid_credential"
      <4>1. WardveilScan("invalid_credential", FALSE) = Failure(401)
        BY <2>1, ScanAnswers
      <4>2. answer = WardveilScan("invalid_credential", FALSE)
        BY <2>3, <3>2, Zenon
      <4> QED
        BY <3>1, <4>1, <4>2
    <3>3. CASE Head(todo) # "invalid_credential"
      BY <2>3, <3>1, <3>3
    <3> QED
      BY <3>2, <3>3
  <2>5. Complete(case, answer).err = "unavailable" /\ Complete(case, answer).object = "none"
    BY <2>1, <2>4, NoAnswerIsUnavailable
  <2> QED
    BY <2>2, <2>3, <2>5
<1>4. Head(todo) \notin Replays
  BY <1>1 DEF Replays
<1> HIDE DEF passes
<1> QED
  BY <1>1, <1>2, <1>3, <1>4, CasePasses

LEMMA TimeoutCasePasses == Earning /\ Passing /\ runTimeoutCase => Passing'
<1> SUFFICES ASSUME Earning, Passing, runTimeoutCase PROVE Passing'
  OBVIOUS
<1> DEFINE outcome == Complete("timeout", Failure(0))
           passes == /\ NewHTTPScanner(Loopback, input.secret)
                     /\ outcome.err = "unavailable"
                     /\ outcome.object = "none" /\ outcome.staging
<1>1. /\ status = "running" /\ todo # <<>> /\ Head(todo) = "timeout"
      /\ UNCHANGED <<setting, up, outages, memory, first>>
  BY DEF runTimeoutCase, Running, Conclude, Unscanned, deployed
<1>2. \/ passes /\ todo' = Tail(todo) /\ status' = status
      \/ ~passes /\ todo' = todo /\ status' = "failed"
  BY DEF runTimeoutCase, Conclude
<1>3. ASSUME Faultless PROVE passes
  <2>1. build = Safeguards /\ NewHTTPScanner(Loopback, input.secret)
    BY <1>3, CaseClient DEF Faultless
  <2>2. PICK reply : reply = Failure(0) /\ reply.code # 200
    BY ReplyCodes
  <2>3. LET o == Complete("timeout", reply)
        IN o.err = "unavailable" /\ o.object = "none" /\ o.staging
    BY <2>1, <2>2, NoAnswerIsUnavailable
  <2> QED
    BY <2>1, <2>2, <2>3
<1>4. Head(todo) \notin Replays
  BY <1>1 DEF Replays
<1> HIDE DEF passes
<1> QED
  BY <1>1, <1>2, <1>3, <1>4, CasePasses

LEMMA ControlledCasePasses ==
  Earning /\ Passing /\ (runControlledDecisionCase \/ runChangedDuringScanCase) => Passing'
<1> SUFFICES ASSUME Earning, Passing, runControlledDecisionCase \/ runChangedDuringScanCase
             PROVE  Passing'
  OBVIOUS
<1>1. PICK case : case = Head(todo)
  OBVIOUS
<1> DEFINE passes == validateBlockedDecision(case, Complete(case, Success(ControlledEnvelope(case))))
<1>2. /\ status = "running" /\ todo # <<>> /\ case \in Controlled
      /\ UNCHANGED <<setting, up, outages, memory, first>>
  BY <1>1 DEF runControlledDecisionCase, runChangedDuringScanCase, Running, Conclude, Unscanned,
              deployed, Controlled
<1>3. \/ passes /\ todo' = Tail(todo) /\ status' = status
      \/ ~passes /\ todo' = todo /\ status' = "failed"
  BY <1>1 DEF runControlledDecisionCase, runChangedDuringScanCase, Conclude
<1>4. ASSUME Faultless PROVE passes
  BY <1>2, <1>4, ControlledIsBlocked DEF Faultless
<1>5. Head(todo) \notin Replays
  BY <1>1, <1>2 DEF Replays, Controlled
<1> HIDE DEF passes
<1> QED
  BY <1>2, <1>3, <1>4, <1>5, CasePasses

LEMMA InputCasesPass == Earning /\ Passing /\ (ReadSecret \/ ReadRestartEvidence) => Passing'
<1> SUFFICES ASSUME Earning, Passing, ReadSecret \/ ReadRestartEvidence PROVE Passing'
  OBVIOUS
<1>1. /\ status = "running" /\ todo # <<>> /\ Head(todo) \in {"secret", "restart_evidence"}
      /\ UNCHANGED <<setting, up, outages, memory, first>>
  BY DEF ReadSecret, ReadRestartEvidence, Running, Conclude, Unscanned, deployed
<1>2. Faultless => todo' = Tail(todo) /\ status' = "running"
  BY <1>1 DEF ReadSecret, ReadRestartEvidence, Conclude, Faultless
<1>3. Head(todo) \notin Replays
  BY <1>1 DEF Replays
<1> QED
  BY <1>1, <1>2, <1>3, CasePasses

LEMMA ReplayCasesPass == Earning /\ Passing /\ runReplayCases => Passing'
<1> SUFFICES ASSUME Earning, Passing, runReplayCases PROVE Passing'
  OBVIOUS
<1>1. PICK case : case = Head(todo)
  OBVIOUS
<1>2. /\ status = "running" /\ todo # <<>> /\ case \in Replays
      /\ UNCHANGED <<setting, up, outages>>
  BY <1>1, ReplayParts DEF Replays
<1>3. outages' \in Nat /\ (outages' = 0 => up')
  BY <1>2 DEF Passing
<1>4. ASSUME Faultless' PROVE status' # "failed" /\ Remembers'
  <2>1. /\ Faultless /\ up /\ "cache" \in scanner /\ "conflict" \in scanner
    BY <1>2, <1>4, FaultlessNow
  <2>2. sentNow
    BY <2>1 DEF sentNow, Faultless
  <2>3. command = "negative" /\ command' = "negative" /\ Len(todo) \in Nat
        /\ Len(Tail(todo)) = Len(todo) - 1
    BY <1>1, <1>2, Position DEF setting
  <2>4. Remembers
    BY <2>1 DEF Passing
  <2>5. Nonce(case) = "replay"
    BY DEF Nonce
  <2>6. CASE case = "first"
    <3>1. Len(todo) = 3 /\ memory = {}
      BY <1>1, <1>2, <2>3, <2>4, <2>6, Position DEF Remembers
    <3>2. seenAs(case) = {} /\ sameAs(case) = {}
      BY <3>1 DEF seenAs, sameAs
    <3>3. ~clashOf(case) /\ ~cachedFor(case)
      BY <3>2 DEF clashOf, cachedFor
    <3>4. replayPasses(case)
      BY <2>2, <2>6, <3>3 DEF replayPasses
    <3>5. todo' = Tail(todo) /\ status' = "running"
      BY <1>1, <1>2, <3>4, ReplayParts
    <3>6. PICK record : record = recordFor(case)
      OBVIOUS
    <3>7. first' = record
          /\ memory' = memory \cup {[nonce |-> Nonce(case), content |-> Content(case),
                                     record |-> record]}
      BY <1>1, <2>2, <2>6, <3>3, <3>6, ReplayParts
    <3>8. Content(case) = "control"
      BY <2>6 DEF Content
    <3>9. memory' = {[nonce |-> "replay", content |-> "control", record |-> first']}
      BY <2>5, <3>1, <3>7, <3>8
    <3>10. ~(command' = "live" \/ Len(todo') >= 3)
      <4>1. PICK n : n = Len(todo') /\ n = 2
        <5>1. PICK k, l : k = Len(todo) /\ l = Len(Tail(todo)) /\ k = 3 /\ l = k - 1
          BY <2>3, <3>1, Zenon
        <5>2. l = 2
          BY <5>1
        <5> QED
          BY <3>5, <5>1, <5>2, Zenon
      <4>2. ~(n >= 3) /\ command' # "live"
        BY <2>3, <4>1
      <4> QED
        BY <4>1, <4>2, Zenon
    <3> QED
      BY <3>5, <3>9, <3>10, Zenon DEF Remembers
  <2>7. CASE case # "first"
    <3>1. PICK m : m = [nonce |-> "replay", content |-> "control", record |-> first]
      OBVIOUS
    <3>2. Len(todo) \in {1, 2}
      BY <1>1, <1>2, <2>7, Position DEF Replays
    <3>3. memory = {m}
      <4>1. ~(command = "live" \/ Len(todo) >= 3)
        <5>1. PICK n : n = Len(todo) /\ n \in {1, 2}
          BY <3>2
        <5>2. ~(n >= 3) /\ command # "live"
          BY <2>3, <5>1
        <5> QED
          BY <5>1, <5>2, Zenon
      <4> QED
        BY <2>4, <3>1, <4>1, Zenon DEF Remembers
    <3>4. m.nonce = "replay" /\ m.content = "control" /\ m.record = first
      BY <3>1
    <3>5. seenAs(case) = {m}
      BY <2>5, <3>3, <3>4 DEF seenAs
    <3>6. replayPasses(case) /\ UNCHANGED memory
      <4>1. CASE case = "exact_replay"
        <5>1. Content(case) = "control"
          BY <4>1 DEF Content
        <5>2. sameAs(case) = {m}
          BY <3>4, <3>5, <5>1 DEF sameAs
        <5>3. ~clashOf(case) /\ cachedFor(case)
          BY <2>1, <3>5, <5>2 DEF clashOf, cachedFor
        <5>4. recordFor(case) = first
          BY <3>4, <5>2, <5>3 DEF recordFor
        <5>5. replayPasses(case)
          BY <2>2, <4>1, <5>3, <5>4 DEF replayPasses
        <5> QED
          BY <1>1, <5>3, <5>5, ReplayParts
      <4>2. CASE case = "conflicting_replay"
        <5>1. Content(case) = "other"
          BY <4>2 DEF Content
        <5>2. sameAs(case) = {}
          BY <3>4, <3>5, <5>1 DEF sameAs
        <5>3. clashOf(case)
          BY <2>1, <3>5, <5>2 DEF clashOf
        <5>4. replayPasses(case)
          BY <2>2, <4>2, <5>3 DEF replayPasses
        <5> QED
          BY <1>1, <5>3, <5>4, ReplayParts
      <4> QED
        BY <1>2, <2>7, <4>1, <4>2 DEF Replays
    <3>7. todo' = Tail(todo) /\ status' = "running" /\ first' = first
      BY <1>1, <1>2, <2>7, <3>6, ReplayParts
    <3>8. ~(command' = "live" \/ Len(todo') >= 3)
      BY <2>3, <3>2, <3>7
    <3>9. memory' = {[nonce |-> "replay", content |-> "control", record |-> first']}
      BY <3>1, <3>3, <3>6, <3>7, Zenon
    <3> QED
      BY <3>7, <3>8, <3>9, Zenon DEF Remembers
  <2> QED
    BY <2>6, <2>7
<1> QED
  BY <1>3, <1>4 DEF Passing

LEMMA PassingStep == Earning /\ Passing /\ [Next]_vars => Passing'
<1> SUFFICES ASSUME Earning, Passing, [Next]_vars PROVE Passing'
  OBVIOUS
<1>1. CASE Report
  BY <1>1, PassesOn DEF Report, deployed
<1>2. CASE LocalError
  BY <1>2, PassesOn DEF LocalError, deployed
<1>3. CASE Outage
  <2>1. outages \in Nat /\ outages' = outages + 1
    BY <1>3 DEF Outage, Passing
  <2>2. outages' \in Nat /\ outages' # 0
    BY <2>1
  <2> QED
    BY <2>2 DEF Passing, Faultless
<1>4. CASE Recover
  <2>1. outages \in Nat /\ outages # 0 /\ outages' = outages
    BY <1>4 DEF Recover, Passing
  <2> QED
    BY <2>1 DEF Passing, Faultless
<1>5. CASE UNCHANGED vars
  BY <1>5, PassesOn DEF vars, setting
<1> QED
  BY <1>1, <1>2, <1>3, <1>4, <1>5, InputCasesPass, UploadCasePasses, NegativeCasePasses,
     TimeoutCasePasses, ControlledCasePasses, ReplayCasesPass DEF Next, Command

LEMMA PassingInit == Init => Passing
<1> SUFFICES ASSUME Init PROVE Passing
  OBVIOUS
<1>1. outages = 0 /\ up /\ status = "running" /\ memory = {} /\ todo = Cases[command]
      /\ command \in DOMAIN Cases
  BY DEF Init
<1>2. command = "live" \/ Len(todo) >= 3
  BY <1>1, CaseList
<1> QED
  BY <1>1, <1>2 DEF Passing, Remembers

\* The inductive invariant of the acceptance commands: the cases behind a
\* command have shown what they are for, and a faultless setting passes them.
THEOREM AcceptanceInvariant == Spec => []AcceptanceInductive
<1>1. Init => AcceptanceInductive
  BY EarningInit, PassingInit DEF AcceptanceInductive
<1>2. AcceptanceInductive /\ [Next]_vars => AcceptanceInductive'
  BY EarningStep, PassingStep DEF AcceptanceInductive
<1> QED
  BY <1>1, <1>2, PTL DEF Spec

\* A case fails only for a reason: with the safeguards of this repository, a
\* scanner that keeps its promises and stays up, and inputs that the commands
\* accept, no case ends a command (fatalf in main of both commands).
THEOREM FailuresHaveCauses == Spec => []FailureHasACause
<1>1. AcceptanceInductive => FailureHasACause
  BY DEF AcceptanceInductive, Passing, Faultless, FailureHasACause
<1> QED
  BY <1>1, AcceptanceInvariant, PTL

=============================================================================
