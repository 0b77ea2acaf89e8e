------------------------- MODULE ScanEvidenceProofs -------------------------
(***************************************************************************)
(* What the decisions of Evaluate rest on, for every resource, action,     *)
(* envelope and time.                                                      *)
(***************************************************************************)
EXTENDS ScanEvidence, WellFoundedInduction, TLAPS

\* The first of the failing checks is one of them.
LEMMA FirstFailing ==
  ASSUME NEW S \in SUBSET (1..10), S # {}
  PROVE  Min(S) \in S
<1> DEFINE less == OpToRel(<, Nat)
<1>n. S \subseteq Nat
  OBVIOUS
<1>1. \A x, y \in Nat : x < y => <<x, y>> \in less
  BY DEF OpToRel
<1>2. IsWellFoundedOn(less, Nat)
  BY NatLessThanWellFounded
<1> HIDE DEF less
<1>3. PICK x \in S : \A y \in S : <<y, x>> \notin less
  BY <1>n, <1>2, WFMin
<1>4. ASSUME NEW y \in S PROVE x <= y
  <2>1. ~(y < x)
    BY <1>n, <1>1, <1>3
  <2> QED BY <1>n, <2>1
<1> QED BY <1>4 DEF Min

\* Evaluate judges the record exactly when no check fails, and blocks otherwise.
LEMMA EvaluateCases ==
  ASSUME NEW resource, NEW action, NEW envelope, NEW now
  PROVE  LET checks == Checks(resource, action, envelope, now)
         IN \/ /\ \A i \in 1..10 : ~checks[i].fails
               /\ Evaluate(resource, action, envelope, now) = Judge(action, envelope.record, now)
            \/ \E i \in 1..10 :
                 /\ checks[i].fails
                 /\ Evaluate(resource, action, envelope, now) = Block(action, checks[i].reason)
<1> DEFINE checks  == Checks(resource, action, envelope, now)
           failing == {i \in DOMAIN checks : checks[i].fails}
<1>1. DOMAIN checks = 1..10
  BY DEF Checks
<1>2. Evaluate(resource, action, envelope, now)
        = IF failing = {} THEN Judge(action, envelope.record, now)
                          ELSE Block(action, checks[Min(failing)].reason)
  BY DEF Evaluate
<1> HIDE DEF checks
<1>3. CASE failing = {}
  BY <1>1, <1>2, <1>3 DEF checks
<1>4. CASE failing # {}
  <2>1. Min(failing) \in 1..10 /\ checks[Min(failing)].fails
    BY <1>1, <1>4, FirstFailing
  <2>2. Evaluate(resource, action, envelope, now) = Block(action, checks[Min(failing)].reason)
    BY <1>2, <1>4
  <2> QED BY <2>1, <2>2 DEF checks
<1> QED BY <1>3, <1>4

\* What no failing check means, spelled out.
LEMMA ChecksPass ==
  ASSUME NEW resource, NEW action, NEW envelope, NEW now
  PROVE  (\A i \in 1..10 : ~Checks(resource, action, envelope, now)[i].fails) <=>
           /\ ~(\/ resource.space = "" \/ resource.node = "" \/ resource.size < 0
                \/ ~ValidSHA256(resource.digest))
           /\ action \in Actions
           /\ envelope.resourceID = ResourceID(resource)
           /\ EqualFold(envelope.digest, resource.digest)
           /\ envelope.record.version = RuntimeContractVersion
           /\ envelope.record.type = ScanRecordType
           /\ ~(~envelope.record.authoritative \/ envelope.record.producer \in Blank)
           /\ envelope.record.scopeType = DriveFileResourceType
           /\ envelope.record.scopeID = ResourceID(resource)
           /\ ~(\/ envelope.record.observed = 0 \/ envelope.record.until = 0
                \/ envelope.record.until < envelope.record.observed)
           /\ ~(envelope.record.observed > now)
<1> DEFINE checks == Checks(resource, action, envelope, now)
<1>1. \A i : i \in 1..10 <=> i \in {1, 2, 3, 4, 5, 6, 7, 8, 9, 10}
  OBVIOUS
<1>2. /\ checks[1].fails = (\/ resource.space = "" \/ resource.node = "" \/ resource.size < 0
                            \/ ~ValidSHA256(resource.digest))
      /\ checks[2].fails = (action \notin Actions)
      /\ checks[3].fails = (envelope.resourceID # ResourceID(resource))
      /\ checks[4].fails = ~EqualFold(envelope.digest, resource.digest)
      /\ checks[5].fails = (envelope.record.version # RuntimeContractVersion)
      /\ checks[6].fails = (envelope.record.type # ScanRecordType)
      /\ checks[7].fails = (~envelope.record.authoritative \/ envelope.record.producer \in Blank)
      /\ checks[8].fails = (\/ envelope.record.scopeType # DriveFileResourceType
                            \/ envelope.record.scopeID # ResourceID(resource))
      /\ checks[9].fails = (\/ envelope.record.observed = 0 \/ envelope.record.until = 0
                            \/ envelope.record.until < envelope.record.observed)
      /\ checks[10].fails = (envelope.record.observed > now)
  BY DEF Checks
<1> HIDE DEF checks
<1> QED BY <1>1, <1>2 DEF checks

\* The fields of a judgement that matter to a release or a quarantine.
LEMMA Judgements ==
  ASSUME NEW action, NEW record, NEW now
  PROVE  /\ Judge(action, record, now).canRelease <=>
              /\ record.result = "clean" /\ record.refs # 0 /\ ~(now > record.until)
         /\ Judge(action, record, now).quarantineRequired <=> record.result = "malicious"
         /\ Judge(action, record, now).reason = "wardveil_evidence_expired"
              => now > record.until /\ record.result # "malicious"
BY DEF Judge, MaliciousMatch, Lapsed, Block

\* A blocking decision neither releases nor quarantines.
LEMMA BlockDenies ==
  ASSUME NEW action, NEW reason
  PROVE  ~Block(action, reason).canRelease /\ ~Block(action, reason).quarantineRequired
BY DEF Block

\* A check that fails is never reported as an expiry.
LEMMA ChecksAreNotExpiry ==
  ASSUME NEW resource, NEW action, NEW envelope, NEW now, NEW i \in 1..10
  PROVE  Block(action, Checks(resource, action, envelope, now)[i].reason).reason
           # "wardveil_evidence_expired"
<1> DEFINE checks == Checks(resource, action, envelope, now)
<1>1. i \in {1, 2, 3, 4, 5, 6, 7, 8, 9, 10}
  OBVIOUS
<1>2. /\ checks[1].reason = "drive_resource_invalid"
      /\ checks[2].reason = "drive_action_invalid"
      /\ checks[3].reason = "wardveil_resource_id_mismatch"
      /\ checks[4].reason = "wardveil_digest_mismatch"
      /\ checks[5].reason = "wardveil_contract_version_mismatch"
      /\ checks[6].reason = "wardveil_record_type_invalid"
      /\ checks[7].reason = "wardveil_producer_not_authoritative"
      /\ checks[8].reason = "wardveil_scope_mismatch"
      /\ checks[9].reason = "wardveil_evidence_window_invalid"
      /\ checks[10].reason = "wardveil_evidence_future_dated"
  BY DEF Checks
<1> HIDE DEF checks
<1>3. checks[i].reason # "wardveil_evidence_expired"
  BY <1>1, <1>2
<1> QED BY <1>3 DEF Block, checks

\* Every decision has one of the four dispositions.
LEMMA DispositionKnown ==
  ASSUME NEW resource, NEW action, NEW envelope, NEW now
  PROVE  Evaluate(resource, action, envelope, now).disposition \in Dispositions
<1>1. \A reason : Block(action, reason).disposition \in Dispositions
  BY DEF Block, Dispositions
<1>2. Judge(action, envelope.record, now).disposition \in Dispositions
  BY <1>1 DEF Judge, Dispositions
<1> QED BY <1>1, <1>2, EvaluateCases
=============================================================================
