----------------------------- MODULE Acceptance -----------------------------
(***************************************************************************)
(* The two acceptance commands, cmd/wardveil-acceptance ("live") and       *)
(* cmd/wardveil-negative-acceptance ("negative").  A command runs its cases *)
(* one after the other against a build of Drive and a deployed Wardveil    *)
(* scanner, ends at the first case that does not go as expected (fatalf),  *)
(* and writes a report when every case has passed.                         *)
(*                                                                         *)
(* What a command is asked about varies: `build' is the set of safeguards  *)
(* that the Drive revision under acceptance has, `scanner' the set of      *)
(* promises that the deployed scanner keeps.  The code of this repository  *)
(* is the build that has every safeguard.  Each case works in a Space of   *)
(* its own with fresh identifiers, so an upload is one step; the scanner   *)
(* may go away and come back between any two calls.                        *)
(*                                                                         *)
(* Time is in seconds; `now' is read once when a command starts and is the *)
(* time at which the controlled cases are judged.                          *)
(***************************************************************************)
EXTENDS ScanEvidence

CONSTANTS
  Trials,      \* what may come under acceptance: a build, a scanner, and the
               \* flags of the command with the files that they name
  MaxOutages   \* bound on how often the scanner goes away

\* The results of a scan that the gate does not take for clean are safeguards.
Safeguards == {"malicious", "suspicious", "unknown", "unsupported", "digest", "window",
               "rehash", "failclosed", "hold", "keep", "exact", "handoff"}

\* detect: malicious content is found; auth: a wrong signature is refused;
\* cache, conflict: a nonce that was seen is answered from memory, and with
\* 409 for another request; durable: that memory survives a restart.
Promises == {"detect", "auth", "cache", "conflict", "durable"}

ASSUME UnderAcceptance == /\ \A t \in Trials : /\ t.build \subseteq Safeguards
                                              /\ t.scanner \subseteq Promises
                          /\ MaxOutages \in Nat

LiveCases == <<"secret", "clean", "malicious", "invalid_credential", "unavailable_endpoint">>
NegativeCases == <<"secret", "restart_evidence", "timeout", "expired", "digest_mismatch",
                   "changed_during_scan", "suspicious", "unknown", "unsupported",
                   "first", "exact_replay", "conflicting_replay">>
Cases == [live |-> LiveCases, negative |-> NegativeCases]

now == 100000

VARIABLES
  command, trial,
  up,        \* the deployed scanner answers
  outages,   \* how often it has gone away
  memory,    \* the requests that the scanner remembers by their nonce
  records,   \* the number of scan records it has made in the replay cases
  first,     \* the record that answered the first replay request
  todo,      \* the cases still to be run
  status,    \* "running", "failed" (a case), "broken" (a local error), "reported"
  answered   \* the cases in which the deployed scanner answered

vars == <<command, trial, up, outages, memory, records, first, todo,
          status, answered>>
setting == <<command, trial>>
deployed == <<up, outages, memory, records, first>>

build   == trial.build
scanner == trial.scanner
input   == trial.input

Init == /\ command \in DOMAIN Cases /\ trial \in Trials
        /\ up = TRUE /\ outages = 0
        /\ memory = {} /\ records = 0 /\ first = 0
        /\ todo = Cases[command]
        /\ status = "running" /\ answered = {}

Running(cases) == status = "running" /\ todo # <<>> /\ Head(todo) \in cases

\* A case that passes makes room for the next one; fatalf ends the command.
Conclude(passes) == /\ \/ passes  /\ todo' = Tail(todo) /\ status' = status
                       \/ ~passes /\ todo' = todo /\ status' = "failed"
                    /\ UNCHANGED setting

Unscanned == UNCHANGED <<deployed, answered>>
\* A request to a scanner that has gone away ends with the client's timeout.
Scanned == /\ answered' = IF up THEN answered \cup {Head(todo)} ELSE answered
           /\ UNCHANGED deployed

-----------------------------------------------------------------------------
(* The files and flags that a command is given. *)

\* One value in a private, regular file; surrounding blanks are trimmed, so
\* only a line break between two values remains.
readSecretFile(file) == /\ file.kind = "regular"
                        /\ file.perm % 64 = 0
                        /\ file.size <= 4096
                        /\ file.lines = 1

\* The host is "loopback" when it is an IPv4 loopback address.
validateScanEndpoint(endpoint) == /\ endpoint.scheme = "http"
                                  /\ ~endpoint.decorated
                                  /\ endpoint.path = "/v1/scan"
                                  /\ endpoint.port # ""
                                  /\ endpoint.host = "loopback"

NewHTTPScanner(endpoint, secret) == /\ validateScanEndpoint(endpoint)
                                    /\ input.tokens
                                    /\ secret.size >= 32

Loopback == [scheme |-> "http", decorated |-> FALSE, path |-> "/v1/scan", port |-> "8792",
             host |-> "loopback"]

\* What the restart evidence has to say, and what it must not claim.
EvidenceFields == {"component", "wardveil_revision", "wardveil_endpoint", "service",
                   "caller_key_resource", "restart_replay", "replay_state_contract",
                   "evidence_minimization", "single_host_durability",
                   "multi_host_not_proven", "claim_boundary"}

Recent(observed) == observed <= now + 300 /\ now - observed <= 24 * 3600

validateWardveilRestartEvidence(file) ==
  /\ file.absolute
  /\ file.kind = "regular"                           \* lstat: no symlink
  /\ file.perm = 384                                 \* exactly 0600
  /\ file.size > 0 /\ file.size <= 65536
  /\ file.json
  /\ EvidenceFields \subseteq file.says
  /\ Recent(file.observed)

\* The live command makes its scan client before its first case.
ReadSecret ==
  /\ Running({"secret"})
  /\ Conclude(/\ readSecretFile(input.secret)
              /\ command = "live" => NewHTTPScanner(input.endpoint, input.secret))
  /\ Unscanned

ReadRestartEvidence == /\ Running({"restart_evidence"})
                       /\ Conclude(validateWardveilRestartEvidence(input.evidence))
                       /\ Unscanned

-----------------------------------------------------------------------------
(* Scanners: the deployed one, and one under the control of a case. *)

NoEnvelope == [resourceID |-> <<>>]
Failure(code) == [code |-> code, envelope |-> NoEnvelope]
Success(envelope) == [code |-> 200, envelope |-> envelope]

Resource(case) == [space |-> case, node |-> case, size |-> 1, digest |-> HexDigest(case)]

authoritativeEnvelope(case, observed, until, result) ==
  [resourceID |-> ResourceID(Resource(case)),
   digest     |-> HexDigest(case),
   record     |-> [version |-> RuntimeContractVersion, type |-> ScanRecordType,
                   authoritative |-> TRUE, producer |-> "controlled-acceptance",
                   scopeType |-> DriveFileResourceType,
                   scopeID |-> ResourceID(Resource(case)),
                   observed |-> observed, until |-> until, result |-> result, refs |-> 1]]

\* One request to the deployed scanner under a nonce of its own.
WardveilScan(case, signed) ==
  LET result == IF case = "malicious" /\ "detect" \in scanner THEN "malicious" ELSE "clean"
  IN CASE ~up -> Failure(0)
       [] up /\ ~signed /\ "auth" \in scanner -> Failure(401)
       [] OTHER -> Success(authoritativeEnvelope(case, now, now + 60, result))

\* The answers that the controlled cases give to the gate.
ControlledEnvelope(case) ==
  CASE case = "expired" -> authoritativeEnvelope(case, now - 120, now - 60, "clean")
    [] case = "digest_mismatch" ->
         [authoritativeEnvelope(case, now - 1, now + 60, "clean")
            EXCEPT !.digest = HexDigest("ffff")]
    [] case = "changed_during_scan" -> authoritativeEnvelope(case, now - 1, now + 60, "clean")
    [] OTHER -> authoritativeEnvelope(case, now - 1, now + 60, case)

-----------------------------------------------------------------------------
(* An upload to the build under acceptance: Create, Append and Complete on *)
(* a fresh session.                                                         *)

\* What a build that lacks a safeguard takes an envelope for.
Taken(resource, envelope) ==
  [envelope EXCEPT !.digest = IF "digest" \in build THEN @ ELSE resource.digest,
                   !.record.until = IF "window" \in build THEN @ ELSE now,
                   !.record.result = IF @ \in build THEN @ ELSE "clean"]

EvaluateUpload(case, envelope) ==
  LET resource == Resource(case)
      decision == Evaluate(resource, "upload_finalize", Taken(resource, envelope), now)
  IN IF decision.canRelease /\ case = "changed_during_scan" /\ "rehash" \in build
       THEN Block("upload_finalize", "drive_content_changed_during_scan")
       ELSE decision

\* The answer of Complete, and what is found afterwards: the object of the
\* node, if there is one, and the staged file.
Outcome(err, decision, object, staging) ==
  [err |-> err, decision |-> decision, object |-> object, staging |-> staging]
Released(decision) ==
  Outcome("none", decision, IF "exact" \in build THEN "exact" ELSE "altered", FALSE)

Complete(case, reply) ==
  IF reply.code = 200
    THEN LET decision == EvaluateUpload(case, reply.envelope)
         IN IF decision.canRelease
              THEN Released(decision)
              ELSE Outcome("blocked", decision, "none", "hold" \in build)
    ELSE LET decision == Block("upload_finalize", "")
         IN IF "failclosed" \in build
              THEN Outcome("unavailable", decision, "none", "keep" \in build)
              ELSE Released(decision)

-----------------------------------------------------------------------------
(* The cases. *)

CleanPasses(outcome) == /\ outcome.err = "none"
                        /\ outcome.decision.disposition = "allow"
                        /\ outcome.decision.canRelease
                        /\ outcome.object = "exact"
                        /\ ~outcome.staging

\* The hand-off of a build without that safeguard deletes on its own.
MaliciousPasses(outcome) ==
  /\ outcome.err = "blocked"
  /\ outcome.decision.disposition = "block_quarantine"
  /\ ~outcome.decision.canRelease /\ outcome.decision.quarantineRequired
  /\ outcome.object = "none" /\ outcome.staging
  /\ \E handoff \in QuarantineHandoff(outcome.decision, Resource("malicious")) :
        LET made == [handoff EXCEPT !.destructive = "handoff" \notin build]
        IN made.needsExecutorAuthority /\ ~made.destructive

runUploadCase ==
  /\ Running({"clean", "malicious"})
  /\ LET outcome == Complete(Head(todo), WardveilScan(Head(todo), TRUE)) IN
        Conclude(IF Head(todo) = "clean" THEN CleanPasses(outcome) ELSE MaliciousPasses(outcome))
  /\ Scanned

\* The wrong secret goes to the deployed scanner; nothing listens on the
\* endpoint of the second case.
runNegativeCase ==
  /\ Running({"invalid_credential", "unavailable_endpoint"})
  /\ LET case  == Head(todo)
         reply == IF case = "invalid_credential" THEN WardveilScan(case, FALSE) ELSE Failure(0)
         outcome == Complete(case, reply)
     IN /\ Conclude(/\ case = "unavailable_endpoint" => NewHTTPScanner(Loopback, input.secret)
                    /\ outcome.err = "unavailable" /\ outcome.object = "none")
        /\ IF case = "invalid_credential" THEN Scanned ELSE Unscanned

\* A listener that does not answer within the client's 100 ms.
runTimeoutCase ==
  /\ Running({"timeout"})
  /\ LET outcome == Complete("timeout", Failure(0)) IN
        Conclude(/\ NewHTTPScanner(Loopback, input.secret)
                 /\ outcome.err = "unavailable"
                 /\ outcome.object = "none" /\ outcome.staging)
  /\ Unscanned

\* The decision that a controlled case demands, with its reason.
Expected(case) ==
  CASE case = "expired"         -> <<"blocked_unverified", "wardveil_evidence_expired">>
    [] case = "digest_mismatch" -> <<"blocked_unverified", "wardveil_digest_mismatch">>
    [] case = "changed_during_scan" ->
         <<"blocked_unverified", "drive_content_changed_during_scan">>
    [] case = "suspicious"      -> <<"hold_review", "wardveil_suspicious_review_required">>
    [] case = "unknown"         -> <<"blocked_unverified", "wardveil_result_unknown">>
    [] case = "unsupported"     -> <<"blocked_unverified", "wardveil_result_unsupported">>

validateAnyBlock(case, outcome) ==       \* mutant: the staged file is not looked for
  /\ outcome.err = "blocked"
  /\ <<outcome.decision.disposition, outcome.decision.reason>> = Expected(case)
  /\ outcome.object = "none"

validateBlockedDecision(case, outcome) ==
  /\ outcome.err = "blocked"
  /\ <<outcome.decision.disposition, outcome.decision.reason>> = Expected(case)
  /\ ~outcome.decision.canRelease
  /\ outcome.object = "none" /\ outcome.staging

runControlledDecisionCase ==
  /\ Running({"expired", "digest_mismatch", "suspicious", "unknown", "unsupported"})
  /\ LET outcome == Complete(Head(todo), Success(ControlledEnvelope(Head(todo)))) IN
        Conclude(validateBlockedDecision(Head(todo), outcome))
  /\ Unscanned

\* The scanner of this case writes to the staged file before it answers.
runChangedDuringScanCase ==
  /\ Running({"changed_during_scan"})
  /\ LET outcome == Complete(Head(todo), Success(ControlledEnvelope(Head(todo)))) IN
        Conclude(validateBlockedDecision(Head(todo), outcome))
  /\ Unscanned

\* Three requests under one nonce, the last with other content.
FreshNonce(case) == case             \* mutant: a nonce for every request
Nonce(case) == "replay"
Content(case) == IF case = "conflicting_replay" THEN "other" ELSE "control"

runReplayCases ==
  /\ Running({"first", "exact_replay", "conflicting_replay"})
  /\ LET case   == Head(todo)
         sent   == up /\ NewHTTPScanner(input.endpoint, input.secret)
         seen   == {m \in memory : m.nonce = Nonce(case)}
         same   == {m \in seen : m.content = Content(case)}
         clash  == "conflict" \in scanner /\ seen # same
         cached == "cache" \in scanner /\ same # {}
         record == IF cached THEN (CHOOSE m \in same : TRUE).record ELSE records + 1
     IN /\ Conclude(/\ sent
                    /\ CASE case = "first"        -> ~clash
                         [] case = "exact_replay" -> ~clash /\ record = first
                         [] case = "conflicting_replay" -> clash)
        /\ IF sent /\ ~clash /\ ~cached
             THEN /\ records' = record
                  /\ memory'  = memory \cup {[nonce |-> Nonce(case), content |-> Content(case),
                                              record |-> record]}
             ELSE UNCHANGED <<records, memory>>
        /\ first' = IF case = "first" THEN record ELSE first
        /\ answered' = IF sent THEN answered \cup {case} ELSE answered
        /\ UNCHANGED <<up, outages>>

\* The report is written when every case has passed.
Report == /\ status = "running" /\ todo = <<>>
          /\ status' \in {"reported", "broken"}
          /\ UNCHANGED <<setting, deployed, todo, answered>>

\* Storage, random numbers or the listener of a case cannot be had.
LocalError == /\ status = "running"
              /\ status' = "broken"
              /\ UNCHANGED <<setting, deployed, todo, answered>>

Command == \/ ReadSecret \/ ReadRestartEvidence
           \/ runUploadCase \/ runNegativeCase
           \/ runTimeoutCase \/ runControlledDecisionCase \/ runChangedDuringScanCase
           \/ runReplayCases \/ Report

\* The deployed scanner stops, and starts again with what it keeps on disk.
Outage == /\ status = "running" /\ up /\ outages < MaxOutages
          /\ up' = FALSE /\ outages' = outages + 1
          /\ UNCHANGED <<setting, memory, records, first, todo, status, answered>>
Recover == /\ status = "running" /\ ~up
           /\ up' = TRUE
           /\ memory' = IF "durable" \in scanner THEN memory ELSE {}
           /\ UNCHANGED <<setting, outages, records, first, todo, status, answered>>

Next == Command \/ LocalError \/ Outage \/ Recover

Spec == Init /\ [][Next]_vars

-----------------------------------------------------------------------------
(* Properties. *)

LiveSafeguards == {"malicious", "hold", "handoff", "failclosed", "exact"}
NegativeSafeguards == {"suspicious", "unknown", "unsupported", "digest", "window",
                       "rehash", "failclosed", "hold", "keep"}

\* A report is written only for a build that has every safeguard the command
\* is about and a scanner that keeps the promises it reports, however the
\* scanner came and went meanwhile; that a wrong credential is refused is
\* known only if the scanner was there to refuse it.  The restart evidence of
\* the negative report is complete, at most a day old and no more than five
\* minutes ahead (main of both commands, "passed" fields of their evidence).
ReportIsEarned ==
  status = "reported" =>
    /\ command = "live" => /\ LiveSafeguards \subseteq build
                           /\ "detect" \in scanner
                           /\ "invalid_credential" \in answered => "auth" \in scanner
    /\ command = "negative" => /\ NegativeSafeguards \subseteq build
                               /\ {"cache", "conflict"} \subseteq scanner
                               /\ EvidenceFields \subseteq input.evidence.says
                               /\ now - input.evidence.observed <= 86400
                               /\ input.evidence.observed <= now + 300
    /\ input.endpoint.host = "loopback"

\* A case fails only for a reason: the build lacks a safeguard, the scanner
\* breaks a promise or has been away, or the command was given something it
\* must refuse.  The build of this repository with a scanner that stays up
\* never fails a case (fatalf in main of both commands).
FailureHasACause ==
  status = "failed" =>
    \/ build # Safeguards
    \/ ~(Promises \subseteq scanner)
    \/ outages > 0
    \/ ~readSecretFile(input.secret)
    \/ ~NewHTTPScanner(input.endpoint, input.secret)
    \/ ~validateWardveilRestartEvidence(input.evidence)
-----------------------------------------------------------------------------
(* Why they hold: what the cases that have passed show. *)

CaseNames == {"secret", "clean", "malicious", "invalid_credential", "unavailable_endpoint",
              "restart_evidence", "timeout", "expired", "digest_mismatch", "changed_during_scan",
              "suspicious", "unknown", "unsupported", "first", "exact_replay",
              "conflicting_replay"}

\* The cases still to be run are the last ones of the command.
TodoIsRest == LET all == Cases[command]
              IN /\ todo \in Seq(CaseNames) /\ Len(todo) <= Len(all)
                 /\ \A i \in 1..Len(todo) : todo[i] = all[Len(all) - Len(todo) + i]

\* How many cases have passed.
Passed == Len(Cases[command]) - Len(todo)

\* What a case that has passed says of the build, the scanner and the inputs.
Shows(case) ==
  /\ case = "secret" /\ command = "live" => validateScanEndpoint(input.endpoint)
  /\ case = "clean" => "exact" \in build
  /\ case = "malicious" => {"malicious", "hold", "handoff"} \subseteq build /\ "detect" \in scanner
  /\ case = "unavailable_endpoint" => "failclosed" \in build
  /\ case = "restart_evidence" => validateWardveilRestartEvidence(input.evidence)
  /\ case = "timeout" => {"failclosed", "keep"} \subseteq build
  /\ case = "expired" => {"window", "hold"} \subseteq build
  /\ case = "digest_mismatch" => "digest" \in build
  /\ case = "changed_during_scan" => "rehash" \in build
  /\ case \in {"suspicious", "unknown", "unsupported"} => case \in build
  /\ case = "first" => validateScanEndpoint(input.endpoint)
  /\ case = "exact_replay" => "cache" \in scanner
  /\ case = "conflicting_replay" => "conflict" \in scanner

\* The scanner remembers records that it has made, the first one among them.
RecordsMade == /\ records \in Nat /\ first \in Nat /\ first <= records
               /\ \A m \in memory : m.record \in Nat /\ m.record <= records

Earning == /\ command \in DOMAIN Cases /\ trial \in Trials
           /\ status \in {"running", "failed", "broken", "reported"}
           /\ TodoIsRest
           /\ status \in {"running", "reported"} =>
                /\ \A i \in 1..Passed : Shows(Cases[command][i])
                /\ "invalid_credential" \in answered => "auth" \in scanner
                /\ RecordsMade
           /\ status = "reported" => todo = <<>>

\* Nothing that a command would have to refuse or to find fault with.
Faultless == /\ build = Safeguards /\ Promises \subseteq scanner /\ outages = 0
             /\ readSecretFile(input.secret)
             /\ NewHTTPScanner(input.endpoint, input.secret)
             /\ validateWardveilRestartEvidence(input.evidence)

\* From its first answer on, a faultless scanner remembers that request alone.
Remembers == memory = IF command = "live" \/ Len(todo) >= 3 THEN {}
                      ELSE {[nonce |-> "replay", content |-> "control", record |-> first]}

Passing == /\ outages \in Nat /\ (outages = 0 => up)
           /\ Faultless => status # "failed" /\ Remembers

AcceptanceInductive == Earning /\ Passing
=============================================================================
