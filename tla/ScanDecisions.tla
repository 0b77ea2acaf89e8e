--------------------------- MODULE ScanDecisions ---------------------------
(***************************************************************************)
(* A scan envelope that Drive keeps judging: the same evidence is put to   *)
(* Evaluate for one lifecycle action after another while time passes.      *)
(***************************************************************************)
EXTENDS ScanEvidence

CONSTANTS Resources,    \* the files asked about, well-formed or not
          Envelopes,    \* the scan envelopes presented for them
          AskedActions, \* the actions asked for, valid or not
          MaxTime       \* bound on the clock

ASSUME MaxTimeAssumption == MaxTime \in Nat \ {0}
ASSUME EvidenceAssumption ==
  /\ \A res \in Resources : res.size \in Int /\ res.digest.hex64 \in BOOLEAN
  /\ \A env \in Envelopes : /\ env.record.observed \in Nat /\ env.record.until \in Nat
                             /\ env.record.refs \in Nat

VARIABLES resource, envelope, action, now

vars == <<resource, envelope, action, now>>

decision == Evaluate(resource, action, envelope, now)

TypeOK == /\ resource \in Resources
          /\ envelope \in Envelopes
          /\ action \in AskedActions
          /\ now \in 1..MaxTime
          /\ decision.disposition \in Dispositions

Init == /\ resource \in Resources
        /\ envelope \in Envelopes
        /\ action \in AskedActions
        /\ now = 1

\* The same evidence is judged for another action.
Ask(a) == /\ action' = a
          /\ UNCHANGED <<resource, envelope, now>>

Tick == /\ now < MaxTime
        /\ now' = now + 1
        /\ UNCHANGED <<resource, envelope, action>>

Next == Tick \/ \E a \in AskedActions : Ask(a)

Spec == Init /\ [][Next]_vars
-----------------------------------------------------------------------------
\* What binds evidence to one resource, whatever the time and the verdict.
Bound(res, env) ==
  /\ res.space # "" /\ res.node # "" /\ res.size >= 0 /\ ValidSHA256(res.digest)
  /\ env.resourceID = ResourceID(res)
  /\ env.record.scopeID = ResourceID(res)
  /\ env.record.scopeType = DriveFileResourceType
  /\ env.digest.value = res.digest.value
  /\ env.record.version = RuntimeContractVersion
  /\ env.record.type = ScanRecordType
  /\ env.record.authoritative
  /\ env.record.producer \notin Blank

\* Content is released exactly when the contract's conditions hold together:
\* "clean_requires_current_unexpired_evidence", "clean_requires_evidence_refs",
\* "file_digest_binding_required", "authoritative_scan_record_required"
\* (contracts/wardveil.drive-file-scan.json).  No order of the early returns
\* of Evaluate may let a case through or block a good one.
ReleaseIsExact ==
  decision.canRelease <=>
     /\ Bound(resource, envelope)
     /\ action \in Actions
     /\ envelope.record.result = "clean"
     /\ envelope.record.refs > 0
     /\ 0 < envelope.record.observed
     /\ envelope.record.observed <= now
     /\ now <= envelope.record.until

\* "malicious_digest_match_remains_blocking_after_evidence_expiry": once the
\* evidence called for quarantine, no later evaluation for a lifecycle action
\* releases the content or drops the call, however much time has passed.
MaliciousStaysBlocking ==
  [][ decision.quarantineRequired /\ action' \in Actions
        => decision'.quarantineRequired /\ ~decision'.canRelease ]_vars

\* Evidence that has lapsed for an action never comes back: after a release
\* was refused as expired, the same envelope releases nothing later.
ExpiryIsFinal ==
  [][ decision.reason = "wardveil_evidence_expired" => ~decision'.canRelease ]_vars

\* A hand-off for quarantine names only content that the evidence is bound
\* to: malicious evidence about another resource or digest, or from a producer
\* without authority, never has Drive's content quarantined.
HandoffOnlyForBoundEvidence ==
  \A handoff \in QuarantineHandoff(decision, resource) :
     /\ Bound(resource, envelope)
     /\ envelope.record.result = "malicious"
     /\ handoff.digest.value = envelope.digest.value
     /\ ~handoff.destructive
=============================================================================
