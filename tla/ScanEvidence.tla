---------------------------- MODULE ScanEvidence ----------------------------
(***************************************************************************)
(* Drive's judgement of Wardveil scan evidence: the pure function Evaluate *)
(* of internal/wardveil/scan.go, as operators.                             *)
(*                                                                         *)
(* A point in time is a natural number, 0 being Go's zero time.  A hex     *)
(* digest is a record: what it is the digest of, the letter case it is     *)
(* written in, and whether it is made of 64 hex digits at all.  Evidence   *)
(* references are abstracted to their number.                              *)
(***************************************************************************)
EXTENDS Integers, Sequences, FiniteSetsExt

RuntimeContractVersion == "0.1.0"
ScanRecordType         == "scan_finding"
DriveFileResourceType  == "drive_file"

Actions == {"upload_finalize", "open", "download", "share", "restore_release"}

\* The result of a scan is a string of the wire format: the five below are
\* the ones that the contract defines.
Results == {"clean", "suspicious", "malicious", "unknown", "unsupported"}

HexDigest(content) == [value |-> content, case |-> "lower", hex64 |-> TRUE]

AnyDigest(d, e)    == TRUE              \* mutant: the digests are not compared
EqualFold(d, e)    == d.value = e.value
ValidSHA256(d)     == d.hex64

\* "drive:<space>:file:<node>": the pair that the string spells out.
ResourceID(resource) == <<resource.space, resource.node>>

Blank == {"", " "}                  \* what strings.TrimSpace reduces to ""

Dispositions == {"allow", "hold_review", "block_quarantine", "blocked_unverified"}

BlockUnset(action, reason) ==        \* mutant: Go's zero disposition
  [action |-> action, disposition |-> "", canRelease |-> FALSE,
   quarantineRequired |-> FALSE, reason |-> reason, refs |-> 0]

Block(action, reason) ==
  [action |-> action, disposition |-> "blocked_unverified", canRelease |-> FALSE,
   quarantineRequired |-> FALSE, reason |-> reason, refs |-> 0]

\* The early returns of Evaluate, in the order in which they are tried.
Checks(resource, action, envelope, now) ==
  LET record == envelope.record
  IN << [fails  |-> \/ resource.space = ""
                    \/ resource.node = ""
                    \/ resource.size < 0
                    \/ ~ValidSHA256(resource.digest),
         reason |-> "drive_resource_invalid"],
        [fails  |-> action \notin Actions,
         reason |-> "drive_action_invalid"],
        [fails  |-> envelope.resourceID # ResourceID(resource),
         reason |-> "wardveil_resource_id_mismatch"],
        [fails  |-> ~EqualFold(envelope.digest, resource.digest),
         reason |-> "wardveil_digest_mismatch"],
        [fails  |-> record.version # RuntimeContractVersion,
         reason |-> "wardveil_contract_version_mismatch"],
        [fails  |-> record.type # ScanRecordType,
         reason |-> "wardveil_record_type_invalid"],
        [fails  |-> ~record.authoritative \/ record.producer \in Blank,
         reason |-> "wardveil_producer_not_authoritative"],
        [fails  |-> \/ record.scopeType # DriveFileResourceType
                    \/ record.scopeID # ResourceID(resource),
         reason |-> "wardveil_scope_mismatch"],
        [fails  |-> \/ record.observed = 0
                    \/ record.until = 0
                    \/ record.until < record.observed,
         reason |-> "wardveil_evidence_window_invalid"],
        [fails  |-> record.observed > now,
         reason |-> "wardveil_evidence_future_dated"] >>

\* A malicious match is decided before the expiry of the evidence is looked at.
MaliciousWhileCurrent(record, now) ==      \* mutant: the order swapped
  record.result = "malicious" /\ now <= record.until
MaliciousMatch(record, now) == record.result = "malicious"

LapsedSwapped(record, now) == record.until > now   \* mutant: operands swapped
Lapsed(record, now) == now > record.until

\* The decision on evidence that passed every check above.
Judge(action, record, now) ==
  CASE MaliciousMatch(record, now) ->
         [action |-> action, disposition |-> "block_quarantine", canRelease |-> FALSE,
          quarantineRequired |-> TRUE, reason |-> "wardveil_malicious_digest_match",
          refs |-> record.refs]
    [] ~MaliciousMatch(record, now) /\ Lapsed(record, now) ->
         Block(action, "wardveil_evidence_expired")
    [] ~MaliciousMatch(record, now) /\ ~Lapsed(record, now) ->
         CASE record.result = "clean" /\ record.refs = 0 ->
                Block(action, "wardveil_clean_evidence_missing")
           [] record.result = "clean" /\ record.refs # 0 ->
                [action |-> action, disposition |-> "allow", canRelease |-> TRUE,
                 quarantineRequired |-> FALSE, reason |-> "wardveil_clean_current",
                 refs |-> record.refs]
           [] record.result = "suspicious" ->
                [action |-> action, disposition |-> "hold_review", canRelease |-> FALSE,
                 quarantineRequired |-> FALSE, refs |-> record.refs,
                 reason |-> "wardveil_suspicious_review_required"]
           [] record.result = "unknown"     -> Block(action, "wardveil_result_unknown")
           [] record.result = "unsupported" -> Block(action, "wardveil_result_unsupported")
           [] OTHER                         -> Block(action, "wardveil_result_invalid")

Evaluate(resource, action, envelope, now) ==
  LET checks  == Checks(resource, action, envelope, now)
      failing == {i \in DOMAIN checks : checks[i].fails}
  IN IF failing = {} THEN Judge(action, envelope.record, now)
                     ELSE Block(action, checks[Min(failing)].reason)

\* The hand-off to a quarantine executor that a decision calls for; it names
\* the digest that was judged and is never a deletion.
QuarantineHandoff(decision, resource) ==
  IF decision.quarantineRequired
    THEN {[resourceID |-> ResourceID(resource), digest |-> resource.digest,
           refs |-> decision.refs, needsExecutorAuthority |-> TRUE, destructive |-> FALSE]}
    ELSE {}
=============================================================================
