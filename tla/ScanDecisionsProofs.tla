------------------------ MODULE ScanDecisionsProofs ------------------------
(***************************************************************************)
(* The decisions on scan evidence, for every set of resources and          *)
(* envelopes, however long the same evidence is presented again.           *)
(***************************************************************************)
EXTENDS ScanDecisions, ScanEvidenceProofs

\* What a decision releases and what it quarantines, at any moment.
LEMMA DecisionExact ==
  ASSUME NEW res \in Resources, NEW env \in Envelopes, NEW act, NEW t \in Nat
  PROVE  /\ Evaluate(res, act, env, t).canRelease <=>
              /\ Bound(res, env) /\ act \in Actions
              /\ env.record.result = "clean" /\ env.record.refs > 0
              /\ 0 < env.record.observed /\ env.record.observed <= t
              /\ t <= env.record.until
         /\ Evaluate(res, act, env, t).quarantineRequired <=>
              /\ Bound(res, env) /\ act \in Actions
              /\ env.record.result = "malicious"
              /\ 0 < env.record.observed /\ env.record.observed <= t
              /\ env.record.observed <= env.record.until
         /\ Evaluate(res, act, env, t).reason = "wardveil_evidence_expired"
              => t > env.record.until
<1> DEFINE record == env.record
           checks == Checks(res, act, env, t)
           result == Evaluate(res, act, env, t)
           Timely == /\ 0 < record.observed /\ record.observed <= t
                     /\ record.observed <= record.until
<1>1. /\ record.observed \in Nat /\ record.until \in Nat /\ record.refs \in Nat
      /\ res.size \in Int
  BY EvidenceAssumption
<1>2. ~(\/ record.observed = 0 \/ record.until = 0 \/ record.until < record.observed)
        /\ ~(record.observed > t)
      <=> Timely
  BY <1>1
<1>3. (\A i \in 1..10 : ~checks[i].fails) <=> Bound(res, env) /\ act \in Actions /\ Timely
  <2>1. ~(res.size < 0) <=> res.size >= 0
    BY <1>1
  <2>2. EqualFold(env.digest, res.digest) <=> env.digest.value = res.digest.value
    BY DEF EqualFold
  <2> HIDE DEF Timely
  <2> QED BY <1>2, <2>1, <2>2, ChecksPass DEF Bound
<1>4. CASE (\A i \in 1..10 : ~checks[i].fails) /\ result = Judge(act, record, t)
  <2>1. /\ result.canRelease <=>
             /\ record.result = "clean" /\ record.refs # 0 /\ ~(t > record.until)
        /\ result.quarantineRequired <=> record.result = "malicious"
        /\ result.reason = "wardveil_evidence_expired" => t > record.until
    BY <1>4, Judgements
  <2> QED BY <1>1, <1>3, <1>4, <2>1
<1>5. CASE \E i \in 1..10 : checks[i].fails /\ result = Block(act, checks[i].reason)
  <2>1. /\ ~result.canRelease /\ ~result.quarantineRequired
        /\ result.reason # "wardveil_evidence_expired"
    BY <1>5, BlockDenies, ChecksAreNotExpiry
  <2>2. ~(Bound(res, env) /\ act \in Actions /\ Timely)
    BY <1>3, <1>5
  <2> QED BY <1>1, <2>1, <2>2
<1> QED BY <1>4, <1>5, EvaluateCases

\* The evidence stays the same, and time does not go back.
LEMMA EvidenceStays ==
  ASSUME TypeOK, [Next]_vars
  PROVE  /\ resource' = resource /\ envelope' = envelope
         /\ now \in Nat /\ now' \in Nat /\ now <= now'
BY MaxTimeAssumption DEF TypeOK, Next, vars, Ask, Tick

\* Types hold at every moment: no decision has a disposition outside the four.
THEOREM TypesHold == Spec => []TypeOK
<1>1. Init => TypeOK
  BY MaxTimeAssumption, DispositionKnown DEF Init, TypeOK, decision
<1>2. TypeOK /\ [Next]_vars => TypeOK'
  BY MaxTimeAssumption, DispositionKnown DEF TypeOK, decision, Next, vars, Ask, Tick
<1> QED BY <1>1, <1>2, PTL DEF Spec

\* Content is released exactly on current, clean, authoritative evidence bound
\* to it: for every resource, envelope, action and time, the ordered early
\* returns of Evaluate amount to that conjunction.
THEOREM ReleaseExact == Spec => []ReleaseIsExact
<1>1. TypeOK => ReleaseIsExact
  <2> SUFFICES ASSUME TypeOK PROVE ReleaseIsExact
    OBVIOUS
  <2>1. resource \in Resources /\ envelope \in Envelopes /\ now \in Nat
    BY MaxTimeAssumption DEF TypeOK
  <2> QED BY <2>1, DecisionExact DEF ReleaseIsExact, decision
<1> QED BY <1>1, TypesHold, PTL

\* A hand-off to quarantine names only content that malicious evidence from an
\* authoritative producer is bound to.
THEOREM HandoffsAreBound == Spec => []HandoffOnlyForBoundEvidence
<1>1. TypeOK => HandoffOnlyForBoundEvidence
  <2> SUFFICES ASSUME TypeOK PROVE HandoffOnlyForBoundEvidence
    OBVIOUS
  <2>1. resource \in Resources /\ envelope \in Envelopes /\ now \in Nat
    BY MaxTimeAssumption DEF TypeOK
  <2>2. decision.quarantineRequired
          => Bound(resource, envelope) /\ envelope.record.result = "malicious"
    BY <2>1, DecisionExact DEF decision
  <2>3. Bound(resource, envelope) => resource.digest.value = envelope.digest.value
    BY DEF Bound
  <2> QED BY <2>2, <2>3 DEF HandoffOnlyForBoundEvidence, QuarantineHandoff
<1> QED BY <1>1, TypesHold, PTL

\* Malicious evidence never stops blocking, however much time passes: its own
\* expiry does not turn it into a release.
THEOREM MaliciousStays == Spec => MaliciousStaysBlocking
<1>1. TypeOK /\ [Next]_vars =>
        [decision.quarantineRequired /\ action' \in Actions
           => decision'.quarantineRequired /\ ~decision'.canRelease]_vars
  <2> SUFFICES ASSUME TypeOK, [Next]_vars, decision.quarantineRequired, action' \in Actions
               PROVE  decision'.quarantineRequired /\ ~decision'.canRelease
    OBVIOUS
  <2>1. resource \in Resources /\ envelope \in Envelopes
    BY DEF TypeOK
  <2>2. /\ resource' = resource /\ envelope' = envelope
        /\ now \in Nat /\ now' \in Nat /\ now <= now'
    BY EvidenceStays
  <2>3. envelope.record.observed \in Nat
    BY <2>1, EvidenceAssumption
  <2>4. /\ Bound(resource, envelope) /\ envelope.record.result = "malicious"
        /\ 0 < envelope.record.observed /\ envelope.record.observed <= now
        /\ envelope.record.observed <= envelope.record.until
    BY <2>1, <2>2, DecisionExact DEF decision
  <2>5. envelope.record.observed <= now'
    BY <2>2, <2>3, <2>4
  <2>6. decision' = Evaluate(resource, action', envelope, now')
    BY <2>2 DEF decision
  <2> QED BY <2>1, <2>2, <2>4, <2>5, <2>6, DecisionExact
<1> QED BY <1>1, TypesHold, PTL DEF Spec, MaliciousStaysBlocking

\* Evidence refused as expired releases nothing later.
THEOREM ExpiryStays == Spec => ExpiryIsFinal
<1>1. TypeOK /\ [Next]_vars =>
        [decision.reason = "wardveil_evidence_expired" => ~decision'.canRelease]_vars
  <2> SUFFICES ASSUME TypeOK, [Next]_vars, decision.reason = "wardveil_evidence_expired"
               PROVE  ~decision'.canRelease
    OBVIOUS
  <2>1. resource \in Resources /\ envelope \in Envelopes
    BY DEF TypeOK
  <2>2. /\ resource' = resource /\ envelope' = envelope
        /\ now \in Nat /\ now' \in Nat /\ now <= now'
    BY EvidenceStays
  <2>3. now > envelope.record.until
    BY <2>1, <2>2, DecisionExact DEF decision
  <2>4. ~(now' <= envelope.record.until)
    BY <2>1, <2>2, <2>3, EvidenceAssumption
  <2>5. decision' = Evaluate(resource, action', envelope, now')
    BY <2>2 DEF decision
  <2> QED BY <2>1, <2>2, <2>4, <2>5, DecisionExact
<1> QED BY <1>1, TypesHold, PTL DEF Spec, ExpiryIsFinal
=============================================================================
