-------------------------- MODULE QuarantineProofs --------------------------
(***************************************************************************)
(* Proofs about Quarantine, for every set of nodes, operations, requests   *)
(* and payloads and every pattern of failures and restarts; that it        *)
(* implements AtomicQuarantine; and, on top of both, about the Bridge that *)
(* drives it.                                                              *)
(***************************************************************************)
EXTENDS Bridge, TLAPS

USE DEF At

\* An idle request keeps nothing, and has the type of one.
LEMMA IdleType == Idle \in Request
BY DEF Idle, Request

\* A request that ends with a result has the type of one.
LEMMA AnswerType ==
  ASSUME TypeOK, NEW r \in Requests, NEW res \in Results, Answer(r, res)
  PROVE  h' \in [Requests -> Request]
<1>1. h[r] \in Request
  BY DEF TypeOK
<1>2. [h[r] EXCEPT !.pc = "done", !.result = res, !.status = "none",
                   !.objectExists = FALSE] \in Request
  BY <1>1 DEF Request
<1> QED BY <1>2 DEF Answer, Become, TypeOK

\* So has one that goes on to its next call.
LEMMA GotoType ==
  ASSUME TypeOK, NEW r \in Requests, NEW pc \in ApplyPCs \cup ReadPCs \cup TrashPCs, Goto(r, pc)
  PROVE  h' \in [Requests -> Request]
<1>1. h[r] \in Request
  BY DEF TypeOK
<1>2. [h[r] EXCEPT !.pc = pc] \in Request
  BY <1>1 DEF Request
<1> QED BY <1>2 DEF Goto, Become, TypeOK

\* A state that is neither absent nor torn is a claim.
LEMMA ClaimedIsClaim ==
  ASSUME TypeOK, NEW n \in Nodes
  PROVE  /\ Claimed(n) => qstate[n] \in Claims
         /\ qstate[n] \in Claims => Claimed(n)
BY NoneAssumption DEF TypeOK, Claimed

\* A state that matches moves the request on with a status of the state.
LEMMA MatchingType ==
  ASSUME TypeOK, NEW r \in Requests, NEW pc \in ApplyPCs, Matching(r, pc),
         h[r].n \in Nodes, Claimed(h[r].n)
  PROVE  h' \in [Requests -> Request]
<1> DEFINE status == qstate[h[r].n].status
<1>1. status \in {"pending", "quarantined"}
  BY ClaimedIsClaim DEF Claims
<1> HIDE DEF status
<1>2. h[r] \in Request
  BY DEF TypeOK
<1>3. [h[r] EXCEPT !.pc = pc, !.status = status] \in Request
  BY <1>1, <1>2 DEF Request
<1>4. CASE qstate[h[r].n].op = h[r].op
  BY <1>3, <1>4 DEF Matching, Become, TypeOK, status
<1>5. CASE qstate[h[r].n].op # h[r].op
  BY <1>5, AnswerType DEF Matching, Results
<1> QED BY <1>4, <1>5
-----------------------------------------------------------------------------
(* Types. *)

\* The initial state has the declared types.
LEMMA InitType == Init => TypeOK
BY IdleType DEF Init, TypeOK

\* Every step keeps them.
LEMMA TypeStep ==
  ASSUME TypeOK, RequestsOK, [Next]_vars
  PROVE  TypeOK'
<1> USE DEF dirs
<1>n. ASSUME NEW r \in Requests, InFlight(r) PROVE h[r].n \in Nodes
  BY <1>n DEF RequestsOK, RequestKnown, InFlight
<1>p. {"idle", "done"} \cup ApplyPCs \cup ReadPCs \cup TrashPCs
        = {"idle", "done", "read", "checkquar", "checkobj", "claim", "write", "sync", "reread",
           "statobj", "statquar", "link", "remove", "finish", "rstate", "rabsent", "rquar",
           "robj", "tlink", "tremove"}
  BY DEF ApplyPCs, ReadPCs, TrashPCs
<1>1. CASE UNCHANGED vars
  BY <1>1 DEF vars, TypeOK
<1>2. CASE Restart
  BY <1>2, IdleType DEF Restart, TypeOK
<1>3. ASSUME NEW n \in Nodes, NEW p \in Payloads, Publish(n, p) PROVE TypeOK'
  BY <1>3 DEF Publish, TypeOK
<1>4. ASSUME NEW r \in Requests, NEW n \in Nodes, NEW op \in Operations \cup {None},
             NEW pc \in ApplyPCs \cup ReadPCs \cup TrashPCs, Start(r, n, op, pc)
      PROVE  TypeOK'
  <2>1. [Idle EXCEPT !.pc = pc, !.n = n, !.op = op] \in Request
    BY IdleType DEF Idle, Request
  <2> QED BY <1>4, <2>1 DEF Start, Become, TypeOK
<1>5. ASSUME NEW r \in Requests, NEW n \in Nodes, Read(r, n) PROVE TypeOK'
  BY <1>4, <1>5 DEF Read, ReadPCs
<1>6. ASSUME NEW r \in Requests, NEW n \in Nodes, MoveToTrash(r, n) PROVE TypeOK'
  BY <1>4, <1>6 DEF MoveToTrash, TrashPCs
<1>7. ASSUME NEW r \in Requests, NEW n \in Nodes, NEW op \in Operations, Apply(r, n, op)
      PROVE  TypeOK'
  BY <1>4, <1>7 DEF Apply, ApplyPCs
<1>8. ASSUME NEW r \in Requests, ReadState(r) PROVE TypeOK'
  <2>1. h' \in [Requests -> Request]
    BY <1>8, <1>n, AnswerType, GotoType, MatchingType
    DEF ReadState, InFlight, ApplyPCs, Results, Claimed
  <2> QED BY <1>8, <2>1 DEF ReadState, TypeOK
<1>9. ASSUME NEW r \in Requests, CheckQuarantine(r) PROVE TypeOK'
  BY <1>9, AnswerType, GotoType DEF CheckQuarantine, ApplyPCs, Results, TypeOK
<1>10. ASSUME NEW r \in Requests, CheckObject(r) PROVE TypeOK'
  BY <1>10, AnswerType, GotoType DEF CheckObject, ApplyPCs, Results, TypeOK
<1>11. ASSUME NEW r \in Requests, CreateExclusive(r) PROVE TypeOK'
  <2>1. h' \in [Requests -> Request]
    BY <1>11, GotoType DEF CreateExclusive, ApplyPCs
  <2>2. qstate' \in [Nodes -> Claims \cup {None, Torn}]
    BY <1>11, <1>n DEF CreateExclusive, TypeOK
  <2> QED BY <1>11, <2>1, <2>2 DEF CreateExclusive, TypeOK
<1>12. ASSUME NEW r \in Requests, WritePending(r) PROVE TypeOK'
  <2>1. h[r] \in Request /\ h[r].n \in Nodes /\ h[r].op \in Operations
    BY <1>12 DEF WritePending, RequestsOK, RequestKnown, InFlight, ApplyPCs, TypeOK
  <2>2. [h[r] EXCEPT !.pc = "sync", !.status = "pending"] \in Request
    BY <2>1, <1>p DEF Request
  <2>3. Claim(h[r].op, "pending") \in Claims
    BY <2>1 DEF Claim, Claims
  <2>4. qstate' \in [Nodes -> Claims \cup {None, Torn}]
    BY <1>12, <2>3 DEF WritePending, TypeOK
  <2> QED BY <1>12, <2>2, <2>4 DEF WritePending, Become, TypeOK
<1>13. ASSUME NEW r \in Requests, Reread(r) PROVE TypeOK'
  <2>1. h' \in [Requests -> Request]
    BY <1>13, <1>n, AnswerType, MatchingType DEF Reread, InFlight, ApplyPCs, Results, Claimed
  <2> QED BY <1>13, <2>1 DEF Reread, TypeOK
<1>14. ASSUME NEW r \in Requests, StatObject(r) PROVE TypeOK'
  <2>1. h[r] \in Request
    BY DEF TypeOK
  <2>2. PICK there \in BOOLEAN :
          h' = [h EXCEPT ![r] = [h[r] EXCEPT !.pc = "statquar", !.objectExists = there]]
    BY <1>14 DEF StatObject, Become, exists, There
  <2>3. [h[r] EXCEPT !.pc = "statquar", !.objectExists = there] \in Request
    BY <2>1, <1>p DEF Request
  <2> QED BY <1>14, <2>2, <2>3 DEF StatObject, TypeOK
<1>23. ASSUME NEW r \in Requests, SyncPending(r) PROVE TypeOK'
  BY <1>23, GotoType DEF SyncPending, ApplyPCs, TypeOK
<1>15. ASSUME NEW r \in Requests, StatQuarantine(r) PROVE TypeOK'
  BY <1>15, AnswerType, GotoType DEF StatQuarantine, ApplyPCs, Results, TypeOK
<1>16. ASSUME NEW r \in Requests, LinkPayload(r) PROVE TypeOK'
  <2>1. h' \in [Requests -> Request]
    BY <1>16, AnswerType, GotoType DEF LinkPayload, ApplyPCs, Results
  <2>2. quar' \in [Nodes -> Payloads \cup {None}]
    BY <1>16, <1>n DEF LinkPayload, InFlight, TypeOK
  <2> QED BY <1>16, <2>1, <2>2 DEF LinkPayload, TypeOK
<1>17. ASSUME NEW r \in Requests, RemoveObject(r) PROVE TypeOK'
  <2>1. h' \in [Requests -> Request]
    BY <1>17, AnswerType, GotoType DEF RemoveObject, ApplyPCs, Results
  <2>2. objects' \in [Nodes -> Payloads \cup {None}]
    BY <1>17 DEF RemoveObject, TypeOK
  <2> QED BY <1>17, <2>1, <2>2 DEF RemoveObject, TypeOK
<1>18. ASSUME NEW r \in Requests, FinishState(r) PROVE TypeOK'
  <2>1. h[r].op \in Operations
    BY <1>18 DEF FinishState, WriteAtomic, RequestsOK, RequestKnown, ApplyPCs
  <2>2. Claim(h[r].op, "quarantined") \in Claims
    BY <2>1 DEF Claim, Claims
  <2>3. qstate' \in [Nodes -> Claims \cup {None, Torn}]
    BY <1>18, <2>2 DEF FinishState, WriteAtomic, TypeOK
  <2> QED BY <1>18, <2>3, AnswerType DEF FinishState, WriteAtomic, Results, TypeOK
<1>19. ASSUME NEW r \in Requests, ReadStep(r) PROVE TypeOK'
  BY <1>19, AnswerType, GotoType
  DEF ReadStep, ReadBack, ReadAbsent, ReadPayload, ReadObject, ReadPCs, Results, TypeOK
<1>20. ASSUME NEW r \in Requests, TrashLink(r) PROVE TypeOK'
  <2>1. h' \in [Requests -> Request]
    BY <1>20, AnswerType, GotoType DEF TrashLink, TrashPCs, Results
  <2>2. trash' \in [Nodes -> Payloads \cup {None}]
    BY <1>20, <1>n DEF TrashLink, InFlight, TypeOK
  <2> QED BY <1>20, <2>1, <2>2 DEF TrashLink, TypeOK
<1>21. ASSUME NEW r \in Requests, TrashRemove(r) PROVE TypeOK'
  <2>1. h' \in [Requests -> Request]
    BY <1>21, AnswerType DEF TrashRemove, Results
  <2>2. objects' \in [Nodes -> Payloads \cup {None}]
    BY <1>21 DEF TrashRemove, TypeOK
  <2> QED BY <1>21, <2>1, <2>2 DEF TrashRemove, TypeOK
<1>22. ASSUME NEW r \in Requests, Fail(r) PROVE TypeOK'
  BY <1>22, AnswerType DEF Fail, Results, TypeOK
<1> QED
  BY <1>1, <1>2, <1>3, <1>5, <1>6, <1>7, <1>8, <1>9, <1>10, <1>11, <1>12, <1>13, <1>14, <1>15,
     <1>16, <1>17, <1>18, <1>19, <1>20, <1>21, <1>22, <1>23
  DEF Next, ApplyStep, TrashStep
-----------------------------------------------------------------------------
(* What a step may change. *)

\* Only the three writes of a claim touch the state files.
LEMMA QStateFrame ==
  ASSUME [Next]_vars
  PROVE  \/ qstate' = qstate
         \/ \E r \in Requests : CreateExclusive(r) \/ WritePending(r) \/ FinishState(r)
BY DEF Next, vars, dirs, Restart, Publish, Read, MoveToTrash, Apply, Start, ApplyStep, ReadState,
       CheckQuarantine, CheckObject, SyncPending, Reread, StatObject, StatQuarantine, LinkPayload,
       RemoveObject, ReadStep, ReadBack, ReadAbsent, ReadPayload, ReadObject, TrashStep,
       TrashLink, TrashRemove, Fail

\* Only the links and removals move a payload, and only a publication brings one.
LEMMA DirsFrame ==
  ASSUME [Next]_vars
  PROVE  /\ quar' = quar \/ \E r \in Requests : LinkPayload(r)
         /\ trash' = trash \/ \E r \in Requests : TrashLink(r)
         /\ \/ objects' = objects
            \/ \E r \in Requests : RemoveObject(r) \/ TrashRemove(r)
            \/ \E n \in Nodes, p \in Payloads : Publish(n, p)
         /\ published' = published \/ \E n \in Nodes, p \in Payloads : Publish(n, p)
BY DEF Next, vars, dirs, Restart, Publish, Read, MoveToTrash, Apply, Start, ApplyStep, ReadState,
       CheckQuarantine, CheckObject, CreateExclusive, WritePending, SyncPending, Reread, StatObject,
       StatQuarantine, LinkPayload, RemoveObject, FinishState, WriteAtomic, ReadStep, ReadBack, ReadAbsent,
       ReadPayload, ReadObject, TrashStep, TrashLink, TrashRemove, Fail

\* A claim is never given up, handed over or reopened.
LEMMA ClaimsSettled ==
  ASSUME Inductive, [Next]_vars, NEW n \in Nodes
  PROVE  /\ qstate[n] # None => qstate'[n] # None
         /\ Claimed(n) => qstate'[n] \notin {None, Torn} /\ qstate'[n].op = qstate[n].op
         /\ IsQuarantined(n) => qstate'[n] = qstate[n]
<1> DEFINE Kept == /\ qstate[n] # None => qstate'[n] # None
                   /\ Claimed(n) => /\ qstate'[n] \notin {None, Torn}
                                    /\ qstate'[n].op = qstate[n].op
                   /\ IsQuarantined(n) => qstate'[n] = qstate[n]
<1>t. TypeOK /\ RequestsOK
  BY DEF Inductive
<1>q. qstate \in [Nodes -> Claims \cup {None, Torn}]
  BY <1>t DEF TypeOK
<1>1. CASE qstate' = qstate
  BY <1>1 DEF Claimed
<1>2. ASSUME NEW r \in Requests, CreateExclusive(r) PROVE  Kept
  BY <1>2, <1>q, NoneAssumption DEF CreateExclusive, Claimed, IsQuarantined
<1>3. ASSUME NEW r \in Requests, WritePending(r) PROVE  Kept
  <2>1. /\ h[r].op \in Operations /\ qstate[h[r].n] = Torn
        /\ qstate' = [qstate EXCEPT ![h[r].n] = Claim(h[r].op, "pending")]
    BY <1>3, <1>t DEF WritePending, RequestsOK, RequestKnown, WriterAlone, ApplyPCs
  <2>2. Claim(h[r].op, "pending") \in Claims
    BY <2>1 DEF Claim, Claims
  <2> QED BY <1>q, <2>1, <2>2, NoneAssumption DEF Claimed, IsQuarantined
<1>4. ASSUME NEW r \in Requests, FinishState(r) PROVE  Kept
  <2>1. /\ h[r].op \in Operations /\ HeldBy(h[r].n, h[r].op) /\ h[r].n \in Nodes
        /\ qstate' = [qstate EXCEPT ![h[r].n] = Claim(h[r].op, "quarantined")]
    BY <1>4, <1>t
    DEF FinishState, WriteAtomic, RequestsOK, RequestKnown, HolderHolds, HolderPCs, ApplyPCs, InFlight
  <2>2. Claim(h[r].op, "quarantined") \in Claims /\ Claim(h[r].op, "quarantined").op = h[r].op
    BY <2>1 DEF Claim, Claims
  <2>3. qstate[h[r].n] \in Claims /\ qstate[h[r].n].op = h[r].op
    BY <1>t, <2>1, ClaimedIsClaim DEF HeldBy
  <2>4. qstate[h[r].n].status = "quarantined" => qstate[h[r].n] = Claim(h[r].op, "quarantined")
    BY <2>3 DEF Claims, Claim
  <2> QED BY <1>q, <2>1, <2>2, <2>3, <2>4, NoneAssumption DEF Claimed, IsQuarantined
<1> QED BY <1>1, <1>2, <1>3, <1>4, QStateFrame

\* A torn state is filled in by the one request that created it.
LEMMA TornSettled ==
  ASSUME Inductive, [Next]_vars, NEW n \in Nodes, qstate[n] = Torn
  PROVE  qstate'[n] = Torn \/ \E r \in Requests : WritePending(r) /\ h[r].n = n
<1>t. TypeOK /\ RequestsOK
  BY DEF Inductive
<1>q. qstate \in [Nodes -> Claims \cup {None, Torn}]
  BY <1>t DEF TypeOK
<1>1. CASE qstate' = qstate
  BY <1>1
<1>2. ASSUME NEW r \in Requests, CreateExclusive(r) PROVE qstate'[n] = Torn
  BY <1>2, <1>q DEF CreateExclusive
<1>3. ASSUME NEW r \in Requests, WritePending(r), h[r].n # n PROVE qstate'[n] = Torn
  BY <1>3, <1>q DEF WritePending
<1>4. ASSUME NEW r \in Requests, FinishState(r) PROVE qstate'[n] = Torn
  <2>1. Claimed(h[r].n)
    BY <1>4, <1>t DEF FinishState, WriteAtomic, RequestsOK, HolderHolds, HolderPCs, HeldBy
  <2> QED BY <1>4, <1>q, <2>1 DEF FinishState, WriteAtomic, Claimed
<1> QED BY <1>1, <1>2, <1>3, <1>4, QStateFrame

\* A payload that is held stays held, and a publication is not forgotten.
LEMMA PayloadsSettled ==
  ASSUME Inductive, [Next]_vars, NEW n \in Nodes
  PROVE  /\ quar[n] # None => quar'[n] = quar[n]
         /\ trash[n] # None => trash'[n] = trash[n]
         /\ published[n] \subseteq published'[n]
<1>t. /\ quar \in [Nodes -> Payloads \cup {None}]
      /\ trash \in [Nodes -> Payloads \cup {None}]
      /\ published \in [Nodes -> SUBSET Payloads]
  BY DEF Inductive, TypeOK
<1>1. quar[n] # None => quar'[n] = quar[n]
  BY <1>t, DirsFrame DEF LinkPayload, There
<1>2. trash[n] # None => trash'[n] = trash[n]
  BY <1>t, DirsFrame DEF TrashLink, There
<1>3. published[n] \subseteq published'[n]
  BY <1>t, DirsFrame DEF Publish
<1> QED BY <1>1, <1>2, <1>3

\* Without a second publication, an object that is gone stays gone.
LEMMA ObjectsSettled ==
  ASSUME Inductive, [Next]_vars, NEW n \in Nodes, ~Republish, published[n] # {},
         objects[n] = None
  PROVE  objects'[n] = None
<1>t. objects \in [Nodes -> Payloads \cup {None}]
  BY DEF Inductive, TypeOK
<1>1. ASSUME NEW m \in Nodes, NEW p \in Payloads, Publish(m, p) PROVE objects'[n] = None
  BY <1>1, <1>t DEF Publish
<1>2. ASSUME NEW r \in Requests, RemoveObject(r) \/ TrashRemove(r) PROVE objects'[n] = None
  BY <1>2, <1>t DEF RemoveObject, TrashRemove
<1> QED BY <1>1, <1>2, DirsFrame

\* What is said of one request, the other writers of its node left aside.
RequestOK(r) ==
  /\ RequestKnown(r)
  /\ HolderHolds(r)
  /\ At(r, "done") /\ h[r].result \in {"applied", "already_applied"}
       => HeldBy(h[r].n, h[r].op) /\ IsQuarantined(h[r].n) /\ quar[h[r].n] # None
  /\ At(r, "done") /\ h[r].result = "quarantined"
       => IsQuarantined(h[r].n) /\ quar[h[r].n] # None

\* A request that a step leaves alone can go on relying on what it relied on.
LEMMA UntouchedRequest ==
  ASSUME Inductive, [Next]_vars, NEW r \in Requests, h'[r] = h[r]
  PROVE  RequestOK(r)'
<1> DEFINE n == h[r].n
<1>o. RequestOK(r) /\ ClaimsMatch
  BY DEF Inductive, RequestsOK, AnswersHold, RequestOK
<1>k. RequestKnown(r)'
  BY <1>o DEF RequestOK, RequestKnown
<1>1. CASE n \notin Nodes
  <2>1. h[r].pc = "idle"
    BY <1>1, <1>o DEF RequestOK, RequestKnown
  <2> QED BY <1>k, <2>1 DEF RequestOK, HolderHolds, HolderPCs
<1>2. CASE n \in Nodes
  <2> HIDE DEF n
  <2>1. \A op : HeldBy(n, op) => qstate'[n] \notin {None, Torn} /\ qstate'[n].op = op
    BY <1>2, ClaimsSettled DEF HeldBy
  <2>2. IsQuarantined(n) => qstate'[n] \notin {None, Torn} /\ qstate'[n].status = "quarantined"
    BY <1>2, ClaimsSettled DEF IsQuarantined, Claimed
  <2>3. /\ quar[n] # None => quar'[n] # None
        /\ trash[n] # None => trash'[n] # None
        /\ published[n] # {} => published'[n] # {}
    BY <1>2, PayloadsSettled
  <2>4. Settled /\ Claimed(n) /\ objects[n] = None => objects'[n] = None
    BY <1>2, <1>o, ObjectsSettled DEF ClaimsMatch, Claimed, Settled
  <2>5. HolderHolds(r)'
    BY <1>o, <2>1, <2>2, <2>3, <2>4
    DEF RequestOK, HolderHolds, HeldBy, IsQuarantined, Claimed, HolderPCs, n
  <2> QED
    BY <1>k, <1>o, <2>1, <2>2, <2>3, <2>5 DEF RequestOK, HeldBy, IsQuarantined, Claimed, n
<1> QED BY <1>1, <1>2

\* A request that was told nothing favourable has nothing to rely on.
LEMMA DeniedRequest ==
  ASSUME Inductive, NEW r \in Requests, NEW res, Answer(r, res), InFlight(r),
         res \notin {"applied", "already_applied", "quarantined"}
  PROVE  RequestOK(r)'
<1>1. h \in [Requests -> Request] /\ h[r].n \in Nodes
  BY DEF Inductive, TypeOK, RequestsOK, RequestKnown, InFlight
<1>2. h'[r].pc = "done" /\ h'[r].result = res /\ h'[r].n = h[r].n
  BY <1>1 DEF Answer, Become, Request
<1> QED
  BY <1>1, <1>2 DEF RequestOK, RequestKnown, InFlight, HolderHolds, HolderPCs, ApplyPCs

\* A request that was told something favourable can rely on it.
LEMMA GrantedRequest ==
  ASSUME Inductive, NEW r \in Requests, NEW res, Answer(r, res), InFlight(r),
         res \in {"applied", "already_applied"} => h[r].op = qstate'[h[r].n].op,
         qstate'[h[r].n] \notin {None, Torn}, qstate'[h[r].n].status = "quarantined",
         quar'[h[r].n] # None
  PROVE  RequestOK(r)'
<1>1. h \in [Requests -> Request] /\ h[r].n \in Nodes
  BY DEF Inductive, TypeOK, RequestsOK, RequestKnown, InFlight
<1>2. h'[r].pc = "done" /\ h'[r].result = res /\ h'[r].n = h[r].n /\ h'[r].op = h[r].op
  BY <1>1 DEF Answer, Become, Request
<1> QED
  BY <1>1, <1>2 DEF RequestOK, RequestKnown, InFlight, HolderHolds, HolderPCs, ApplyPCs,
                    HeldBy, IsQuarantined, Claimed

\* Going on to the next call changes nothing else.
LEMMA GotoFields ==
  ASSUME Inductive, NEW r \in Requests, NEW pc, Goto(r, pc)
  PROVE  /\ h'[r].pc = pc
         /\ h'[r].n = h[r].n /\ h'[r].op = h[r].op /\ h'[r].status = h[r].status
         /\ h'[r].objectExists = h[r].objectExists
BY DEF Goto, Become, Inductive, TypeOK, Request

\* The steps of one request.
Acts(r) == \/ ApplyStep(r) \/ ReadStep(r) \/ TrashStep(r) \/ Fail(r)
           \/ \E n \in Nodes : \/ Read(r, n) \/ MoveToTrash(r, n)
                               \/ \E op \in Operations : Apply(r, n, op)

\* The requests change by a restart, or by a step of one of them.
LEMMA RequestsFrame ==
  ASSUME [Next]_vars
  PROVE  h' = h \/ Restart \/ \E r \in Requests : Acts(r)
BY DEF Next, vars, Publish, Acts

\* A step of a request touches that request only.
LEMMA OthersUntouched ==
  ASSUME NEW r \in Requests, NEW q \in Requests, q # r, TypeOK,
         Acts(r)
  PROVE  h'[q] = h[q]
<1>1. \E l : h' = [h EXCEPT ![r] = l]
  BY DEF Acts, ApplyStep, ReadStep, TrashStep, ReadState, CheckQuarantine, CheckObject,
         CreateExclusive, WritePending, SyncPending, Reread, StatObject, StatQuarantine, LinkPayload,
         RemoveObject, FinishState, WriteAtomic, ReadBack, ReadAbsent, ReadPayload, ReadObject, TrashLink,
         TrashRemove, Fail, Read, MoveToTrash, Apply, Start, Matching, Answer, Goto, Become
<1> QED BY <1>1 DEF TypeOK

\* Whoever finds the state of its own operation holds the node.
LEMMA MatchingRequest ==
  ASSUME Inductive, [Next]_vars, NEW r \in Requests, Matching(r, "statobj"), InFlight(r),
         h[r].pc \in ApplyPCs, Claimed(h[r].n), UNCHANGED qstate
  PROVE  RequestOK(r)'
<1>1. h \in [Requests -> Request] /\ h[r].n \in Nodes /\ h[r].op \in Operations
  BY DEF Inductive, TypeOK, RequestsOK, RequestKnown, InFlight
<1>2. CASE qstate[h[r].n].op = h[r].op
  <2> DEFINE status == qstate[h[r].n].status
             l      == [h[r] EXCEPT !.pc = "statobj", !.status = status]
  <2>a. h' = [h EXCEPT ![r] = l]
    BY <1>2 DEF Matching, Become
  <2> HIDE DEF status
  <2>b. h[r] \in Request
    BY <1>1
  <2>c. l.pc = "statobj" /\ l.n = h[r].n /\ l.op = h[r].op /\ l.status = status
    BY <2>b DEF Request
  <2> HIDE DEF l
  <2>1. /\ h'[r].pc = "statobj" /\ h'[r].n = h[r].n /\ h'[r].op = h[r].op
        /\ h'[r].status = qstate[h[r].n].status
    BY <1>1, <2>a, <2>c DEF status
  <2> QED
    BY <1>1, <1>2, <2>1 DEF RequestOK, RequestKnown, InFlight, HolderHolds, HolderPCs,
                            HeldBy, IsQuarantined, Claimed, ApplyPCs
<1>3. CASE qstate[h[r].n].op # h[r].op
  BY <1>3, DeniedRequest DEF Matching
<1> QED BY <1>2, <1>3

\* Each step of a request leaves it with what it relies on next.
LEMMA RequestStep ==
  ASSUME Inductive, [Next]_vars, NEW r \in Requests,
         Acts(r)
  PROVE  RequestOK(r)'
<1>t. h \in [Requests -> Request] /\ TypeOK
  BY DEF Inductive, TypeOK
<1>o. RequestOK(r) /\ PayloadsKnown /\ ClaimsMatch /\ WriterAlone(r)
  BY DEF Inductive, RequestsOK, AnswersHold, RequestOK
<1>n. InFlight(r) => h[r].n \in Nodes
  BY <1>o DEF RequestOK, RequestKnown, InFlight
<1> USE DEF InFlight
\* A request that goes on without holding anything yet.
<1>g. ASSUME NEW pc \in {"checkquar", "checkobj", "claim", "reread", "rabsent"}, Goto(r, pc),
             InFlight(r), h[r].pc \in ApplyPCs \/ pc = "rabsent",
             pc = "claim" => published'[h[r].n] # {}
      PROVE  RequestOK(r)'
  BY <1>g, <1>n, <1>o, GotoFields
  DEF RequestOK, RequestKnown, HolderHolds, HolderPCs, ApplyPCs
<1>1. ASSUME NEW n \in Nodes, NEW op \in Operations \cup {None}, NEW pc \in {"read", "rstate", "tlink"},
             pc = "read" => op \in Operations, Start(r, n, op, pc)
      PROVE  RequestOK(r)'
  <2>1. h'[r].pc = pc /\ h'[r].n = n /\ h'[r].op = op
    BY <1>1, <1>t DEF Start, Become, Idle
  <2> QED BY <1>1, <2>1 DEF RequestOK, RequestKnown, HolderHolds, HolderPCs, ApplyPCs
<1>2. ASSUME NEW n \in Nodes, \/ Read(r, n) \/ MoveToTrash(r, n)
                              \/ \E op \in Operations : Apply(r, n, op)
      PROVE  RequestOK(r)'
  BY <1>1, <1>2 DEF Read, MoveToTrash, Apply
<1>3. CASE ReadState(r)
  BY <1>3, <1>g, DeniedRequest, MatchingRequest DEF ReadState, ApplyPCs, Claimed
<1>4. CASE CheckQuarantine(r)
  BY <1>4, <1>g, DeniedRequest DEF CheckQuarantine, ApplyPCs
<1>5. CASE CheckObject(r)
  <2>1. There(objects, r) => published[h[r].n] # {}
    BY <1>5, <1>n, <1>o DEF CheckObject, There, PayloadsKnown
  <2> QED BY <1>5, <2>1, <1>g, DeniedRequest DEF CheckObject, exists, dirs, ApplyPCs
<1>6. CASE CreateExclusive(r)
  <2>1. CASE Goto(r, "reread")
    BY <1>6, <2>1, <1>g DEF CreateExclusive, ApplyPCs
  <2>2. CASE Goto(r, "write")
    BY <1>6, <2>2, <1>n, <1>o, GotoFields
    DEF CreateExclusive, RequestOK, RequestKnown, HolderHolds, HolderPCs, ApplyPCs
  <2> QED BY <1>6, <2>1, <2>2 DEF CreateExclusive
<1>7. CASE WritePending(r)
  <2> DEFINE l == [h[r] EXCEPT !.pc = "sync", !.status = "pending"]
  <2>1. /\ l.pc = "sync" /\ l.n = h[r].n /\ l.op = h[r].op /\ l.status = "pending"
    BY <1>t DEF Request
  <2>2. h' = [h EXCEPT ![r] = l] /\ h[r].n \in Nodes /\ h[r].op \in Operations
    BY <1>7, <1>n, <1>o DEF WritePending, Become, RequestOK, RequestKnown, ApplyPCs
  <2> HIDE DEF l
  <2>3. /\ h'[r].pc = "sync" /\ h'[r].n = h[r].n /\ h'[r].op = h[r].op
        /\ h'[r].status = "pending"
    BY <1>t, <2>1, <2>2
  <2>4. Claim(h[r].op, "pending") \in Claims /\ Claim(h[r].op, "pending").op = h[r].op
    BY <2>2 DEF Claim, Claims
  <2>5. qstate'[h[r].n] = Claim(h[r].op, "pending")
    BY <1>7, <1>t, <2>2 DEF WritePending, TypeOK
  <2> QED
    BY <2>2, <2>3, <2>4, <2>5, NoneAssumption
    DEF RequestOK, RequestKnown, HolderHolds, HolderPCs, HeldBy, Claimed, ApplyPCs
<1>y. CASE SyncPending(r)
  BY <1>y, <1>n, <1>o, GotoFields
  DEF SyncPending, dirs, RequestOK, RequestKnown, HolderHolds, HolderPCs, HeldBy, IsQuarantined,
      Claimed, ApplyPCs
<1>8. CASE Reread(r)
  BY <1>8, DeniedRequest, MatchingRequest DEF Reread, ApplyPCs, Claimed
<1>9. CASE StatObject(r)
  <2>0. PICK there \in exists(objects, r) :
          h' = [h EXCEPT ![r] = [h[r] EXCEPT !.pc = "statquar", !.objectExists = there]]
    BY <1>9 DEF StatObject, Become
  <2> DEFINE l == [h[r] EXCEPT !.pc = "statquar", !.objectExists = there]
  <2>2. /\ l.pc = "statquar" /\ l.n = h[r].n /\ l.op = h[r].op /\ l.status = h[r].status
        /\ l.objectExists = there
    BY <1>t DEF Request
  <2> HIDE DEF l
  <2>3. /\ h'[r].pc = "statquar" /\ h'[r].n = h[r].n /\ h'[r].op = h[r].op
        /\ h'[r].status = h[r].status /\ h'[r].objectExists = there
    BY <1>t, <2>0, <2>2 DEF l
  <2>4. UNCHANGED <<objects, quar, trash, qstate, published>>
    BY <1>9 DEF StatObject, dirs
  <2>5. Settled /\ ~there => objects[h[r].n] = None
    BY <1>9 DEF StatObject, Settled, exists, There
  <2> QED
    BY <1>9, <1>n, <1>o, <2>3, <2>4, <2>5
    DEF StatObject, RequestOK, RequestKnown, HolderHolds, HolderPCs, HeldBy, IsQuarantined,
        Claimed, ApplyPCs
<1>h. ASSUME NEW pc \in {"link", "remove", "finish"}, Goto(r, pc), h[r].pc \in HolderPCs,
             UNCHANGED qstate,
             pc \in {"remove", "finish"} => quar'[h[r].n] # None,
             Settled /\ pc = "finish" => objects'[h[r].n] = None
      PROVE  RequestOK(r)'
  BY <1>h, <1>n, <1>o, GotoFields
  DEF RequestOK, RequestKnown, HolderHolds, HolderPCs, HeldBy, IsQuarantined, Claimed, ApplyPCs
<1>10. CASE StatQuarantine(r)
  <2>1. UNCHANGED <<objects, quar, trash, qstate, published>> /\ InFlight(r) /\ h[r].pc \in HolderPCs
    BY <1>10 DEF StatQuarantine, dirs, HolderPCs
  <2>2. Settled /\ ~h[r].objectExists => objects[h[r].n] = None
    BY <1>10, <1>o DEF StatQuarantine, RequestOK, HolderHolds
  <2>3. CASE h[r].status = "quarantined"
    <3>1. HeldBy(h[r].n, h[r].op) /\ IsQuarantined(h[r].n)
      BY <2>1, <2>3, <1>o DEF RequestOK, HolderHolds
    <3>2. CASE Answer(r, "unknown")
      BY <2>1, <3>2, DeniedRequest
    <3>3. CASE Answer(r, "already_applied") /\ quar[h[r].n] # None
      BY <2>1, <3>1, <3>3, GrantedRequest DEF HeldBy, IsQuarantined, Claimed
    <3> QED BY <1>10, <2>3, <3>2, <3>3 DEF StatQuarantine, exists, There
  <2>4. CASE h[r].status # "quarantined"
    BY <1>10, <1>h, <2>1, <2>2, <2>4, DeniedRequest DEF StatQuarantine, exists, There
  <2> QED BY <2>3, <2>4
<1>11. CASE LinkPayload(r)
  <2>1. UNCHANGED qstate /\ InFlight(r) /\ h[r].pc \in HolderPCs /\ h[r].n \in Nodes
    BY <1>11, <1>n DEF LinkPayload, HolderPCs
  <2>2. quar' = [quar EXCEPT ![h[r].n] = objects[h[r].n]] => quar'[h[r].n] = objects[h[r].n]
    BY <1>t, <2>1 DEF TypeOK
  <2> QED BY <1>11, <1>h, <2>1, <2>2, DeniedRequest DEF LinkPayload, There
<1>12. CASE RemoveObject(r)
  <2>1. UNCHANGED <<qstate, quar>> /\ InFlight(r) /\ h[r].pc \in HolderPCs /\ h[r].n \in Nodes
    BY <1>12, <1>n DEF RemoveObject, HolderPCs
  <2>2. quar[h[r].n] # None
    BY <1>12, <1>o DEF RemoveObject, RequestOK, HolderHolds
  <2>3. objects' = [objects EXCEPT ![h[r].n] = None] => objects'[h[r].n] = None
    BY <1>t, <2>1 DEF TypeOK
  <2> QED BY <1>12, <1>h, <2>1, <2>2, <2>3, DeniedRequest DEF RemoveObject
<1>13. CASE FinishState(r)
  <2>1. /\ InFlight(r) /\ h[r].n \in Nodes /\ h[r].op \in Operations /\ UNCHANGED quar
        /\ quar[h[r].n] # None
    BY <1>13, <1>n, <1>o DEF FinishState, WriteAtomic, RequestOK, RequestKnown, HolderHolds, ApplyPCs, dirs
  <2>2. /\ Claim(h[r].op, "quarantined") \in Claims
        /\ Claim(h[r].op, "quarantined").op = h[r].op
        /\ Claim(h[r].op, "quarantined").status = "quarantined"
    BY <2>1 DEF Claim, Claims
  <2>3. qstate'[h[r].n] = Claim(h[r].op, "quarantined")
    BY <1>13, <1>t, <2>1 DEF FinishState, WriteAtomic, TypeOK
  <2> QED BY <1>13, <2>1, <2>2, <2>3, GrantedRequest, NoneAssumption DEF FinishState, WriteAtomic
<1>14. CASE ReadBack(r)
  <2>1. InFlight(r) /\ UNCHANGED <<qstate, quar>>
    BY <1>14 DEF ReadBack, dirs
  <2>2. CASE Goto(r, "rquar") /\ IsQuarantined(h[r].n)
    BY <2>1, <2>2, <1>n, GotoFields
    DEF RequestOK, RequestKnown, HolderHolds, HolderPCs, IsQuarantined, Claimed, ApplyPCs
  <2> QED BY <1>14, <1>g, <2>1, <2>2, DeniedRequest DEF ReadBack, IsQuarantined, Claimed
<1>15. CASE ReadAbsent(r)
  BY <1>15, DeniedRequest DEF ReadAbsent
<1>16. CASE ReadPayload(r)
  <2>1. InFlight(r) /\ UNCHANGED <<qstate, quar>> /\ IsQuarantined(h[r].n)
    BY <1>16, <1>o DEF ReadPayload, dirs, RequestOK, HolderHolds
  <2>2. CASE Goto(r, "robj") /\ quar[h[r].n] # None
    BY <2>1, <2>2, <1>n, GotoFields
    DEF RequestOK, RequestKnown, HolderHolds, HolderPCs, IsQuarantined, Claimed, ApplyPCs
  <2> QED BY <1>16, <2>1, <2>2, DeniedRequest DEF ReadPayload, exists, There
<1>17. CASE ReadObject(r)
  <2>1. /\ InFlight(r) /\ UNCHANGED <<qstate, quar>> /\ IsQuarantined(h[r].n)
        /\ quar[h[r].n] # None
    BY <1>17, <1>o DEF ReadObject, dirs, RequestOK, HolderHolds
  <2>2. CASE Answer(r, "quarantined")
    BY <2>1, <2>2, GrantedRequest DEF IsQuarantined, Claimed
  <2> QED BY <1>17, <2>1, <2>2, DeniedRequest DEF ReadObject
<1>18. CASE TrashLink(r)
  <2>1. InFlight(r) /\ h[r].n \in Nodes
    BY <1>18, <1>n DEF TrashLink
  <2>2. trash' = [trash EXCEPT ![h[r].n] = objects[h[r].n]] => trash'[h[r].n] = objects[h[r].n]
    BY <1>t, <2>1 DEF TypeOK
  <2>3. CASE There(objects, r) /\ ~There(trash, r)
    <3>1. Goto(r, "tremove") /\ trash'[h[r].n] # None
      BY <1>18, <2>2, <2>3 DEF TrashLink, There
    <3> QED
      BY <2>1, <3>1, GotoFields DEF RequestOK, RequestKnown, HolderHolds, HolderPCs, ApplyPCs
  <2> QED BY <1>18, <2>1, <2>3, DeniedRequest DEF TrashLink
<1>19. CASE TrashRemove(r)
  BY <1>19, DeniedRequest DEF TrashRemove
<1>20. CASE Fail(r)
  BY <1>20, DeniedRequest DEF Fail
<1> QED
  BY <1>2, <1>3, <1>4, <1>5, <1>6, <1>7, <1>y, <1>8, <1>9, <1>10, <1>11, <1>12, <1>13, <1>14,
     <1>15, <1>16, <1>17, <1>18, <1>19, <1>20
  DEF Acts, ApplyStep, ReadStep, TrashStep

\* An exclusive create has one winner, so a state has one writer.
LEMMA WriterAloneStep ==
  ASSUME Inductive, [Next]_vars, NEW r \in Requests
  PROVE  WriterAlone(r)'
<1>t. h \in [Requests -> Request] /\ TypeOK /\ RequestsOK
  BY DEF Inductive, TypeOK
\* A request is about to write because it was before, or because it won just now.
<1>1. ASSUME NEW q \in Requests, h'[q].pc = "write"
      PROVE  \/ h'[q] = h[q] /\ qstate[h[q].n] = Torn /\ h[q].n \in Nodes
             \/ CreateExclusive(q) /\ qstate[h[q].n] = None /\ h'[q].n = h[q].n /\ h[q].n \in Nodes
  <2>1. CASE h'[q] = h[q]
    BY <1>1, <2>1, <1>t DEF RequestsOK, RequestKnown, WriterAlone
  <2>2. CASE h'[q] # h[q]
    <3>1. ~Restart
      BY <1>1 DEF Restart, Idle
    <3>2. ASSUME NEW l, l.pc # "write", h' = [h EXCEPT ![q] = l] PROVE FALSE
      BY <1>1, <1>t, <3>2
    <3>3. ASSUME NEW x, Answer(q, x) PROVE FALSE
      <4>1. h'[q].pc = "done"
        BY <3>3, <1>t DEF Answer, Become, Request
      <4> QED BY <1>1, <4>1
    <3>4. ASSUME NEW pc, pc # "write", Goto(q, pc) PROVE FALSE
      BY <1>1, <3>4, GotoFields
    <3>5. ASSUME NEW n, NEW op, NEW pc, pc # "write", Start(q, n, op, pc) PROVE FALSE
      <4>1. h'[q].pc = pc
        BY <3>5, <1>t DEF Start, Become, Idle
      <4> QED BY <1>1, <3>5, <4>1
    <3>6. ASSUME Matching(q, "statobj") PROVE FALSE
      <4> DEFINE status == qstate[h[q].n].status
      <4>1. CASE h' = [h EXCEPT ![q] = [h[q] EXCEPT !.pc = "statobj", !.status = status]]
        <5> HIDE DEF status
        <5>1. h[q] \in Request
          BY <1>t
        <5>2. [h[q] EXCEPT !.pc = "statobj", !.status = status].pc = "statobj"
          BY <5>1 DEF Request
        <5> QED BY <1>1, <1>t, <4>1, <5>2
      <4> QED BY <3>3, <3>6, <4>1 DEF Matching, Become
    <3>7. ASSUME WritePending(q) \/ StatObject(q) PROVE FALSE
      <4>1. \E x, y : \/ h' = [h EXCEPT ![q] = [h[q] EXCEPT !.pc = "sync", !.status = x]]
                      \/ h' = [h EXCEPT ![q] = [h[q] EXCEPT !.pc = "statquar", !.objectExists = y]]
        BY <3>7 DEF WritePending, StatObject, Become
      <4>2. \A x, y : /\ [h[q] EXCEPT !.pc = "sync", !.status = x].pc = "sync"
                      /\ [h[q] EXCEPT !.pc = "statquar", !.objectExists = y].pc = "statquar"
        BY <1>t DEF Request
      <4> QED BY <1>1, <1>t, <4>1, <4>2
    <3>8. CreateExclusive(q)
      <4>1. ASSUME NEW p \in Requests, p # q, Acts(p) PROVE FALSE
        BY <1>t, <2>2, <4>1, OthersUntouched
      <4>2. Acts(q)
        BY <2>2, <3>1, <4>1, RequestsFrame
      <4>3. CASE \E n \in Nodes : \/ Read(q, n) \/ MoveToTrash(q, n)
                                  \/ \E op \in Operations : Apply(q, n, op)
        BY <3>5, <4>3 DEF Read, MoveToTrash, Apply
      <4>4. CASE ReadStep(q) \/ TrashStep(q) \/ Fail(q)
        BY <3>3, <3>4, <4>4
        DEF ReadStep, ReadBack, ReadAbsent, ReadPayload, ReadObject, TrashStep, TrashLink,
            TrashRemove, Fail
      <4>5. CASE ApplyStep(q)
        BY <3>3, <3>4, <3>6, <3>7, <4>5
        DEF ApplyStep, ReadState, CheckQuarantine, CheckObject, SyncPending, Reread, StatQuarantine,
            LinkPayload, RemoveObject, FinishState, WriteAtomic
      <4> QED BY <4>2, <4>3, <4>4, <4>5 DEF Acts
    <3>9. qstate[h[q].n] = None /\ Goto(q, "write")
      BY <3>4, <3>8 DEF CreateExclusive
    <3>10. h[q].n \in Nodes /\ h'[q].n = h[q].n
      BY <1>t, <3>8, <3>9, GotoFields DEF CreateExclusive, RequestsOK, RequestKnown
    <3> QED BY <3>8, <3>9, <3>10
  <2> QED BY <2>1, <2>2
<1>2. SUFFICES ASSUME h'[r].pc = "write"
               PROVE  /\ qstate'[h'[r].n] = Torn
                      /\ \A q \in Requests : h'[q].pc = "write" /\ h'[q].n = h'[r].n => q = r
  BY DEF WriterAlone
<1>3. ASSUME NEW q \in Requests, h'[q].pc = "write", h'[q].n = h'[r].n, q # r PROVE FALSE
  <2>1. CASE h'[q] = h[q] /\ h'[r] = h[r]
    BY <1>2, <1>3, <2>1, <1>t DEF RequestsOK, WriterAlone
  <2>2. CASE CreateExclusive(q) /\ CreateExclusive(r)
    <3>1. h'[r] = h[r] /\ h[r].pc = "claim"
      BY <1>3, <1>t, <2>2, OthersUntouched DEF Acts, ApplyStep, CreateExclusive
    <3> QED BY <1>2, <3>1
  <2> QED BY <1>1, <1>2, <1>3, <2>1, <2>2, NoneAssumption
<1>4. qstate'[h'[r].n] = Torn
  <2>1. CASE CreateExclusive(r) /\ qstate[h[r].n] = None /\ h'[r].n = h[r].n /\ h[r].n \in Nodes
    BY <1>t, <2>1 DEF CreateExclusive, TypeOK
  <2>2. CASE h'[r] = h[r] /\ qstate[h[r].n] = Torn /\ h[r].n \in Nodes
    <3>1. ASSUME NEW q \in Requests, WritePending(q), h[q].n = h[r].n PROVE FALSE
      <4>1. q = r
        BY <1>2, <1>t, <2>2, <3>1 DEF WritePending, RequestsOK, WriterAlone
      <4>2. h'[r] = [h[r] EXCEPT !.pc = "sync", !.status = "pending"]
        BY <1>t, <3>1, <4>1 DEF WritePending, Become
      <4>3. [h[r] EXCEPT !.pc = "sync", !.status = "pending"].pc = "sync"
        BY <1>t DEF Request
      <4> QED BY <1>2, <4>2, <4>3
    <3> QED BY <2>2, <3>1, TornSettled
  <2> QED BY <1>1, <1>2, <2>1, <2>2
<1> QED BY <1>3, <1>4

\* Every request keeps what it relies on.
LEMMA RequestsStep ==
  ASSUME Inductive, [Next]_vars
  PROVE  RequestsOK' /\ AnswersHold'
<1>1. ASSUME NEW r \in Requests PROVE RequestOK(r)'
  <2>1. CASE h' = h
    BY <2>1, UntouchedRequest
  <2>2. CASE Restart
    <3>1. h'[r].pc = "idle"
      BY <2>2 DEF Restart, Idle
    <3> QED BY <3>1 DEF RequestOK, RequestKnown, HolderHolds, HolderPCs, ApplyPCs
  <2>3. ASSUME NEW q \in Requests, Acts(q) PROVE RequestOK(r)'
    BY <2>3, RequestStep, UntouchedRequest, OthersUntouched DEF Inductive
  <2> QED BY <2>1, <2>2, <2>3, RequestsFrame
<1>2. \A r \in Requests : WriterAlone(r)'
  BY WriterAloneStep
<1> QED BY <1>1, <1>2 DEF RequestsOK, AnswersHold, RequestOK

-----------------------------------------------------------------------------
(* The remaining parts of the invariant. *)

\* A payload stays under the node that it was published to.
LEMMA PayloadsKnownStep ==
  ASSUME Inductive, [Next]_vars
  PROVE  PayloadsKnown'
<1>t. TypeOK /\ PayloadsKnown /\ RequestsOK
  BY DEF Inductive
<1>n. \A r \in Requests : InFlight(r) => h[r].n \in Nodes
  BY <1>t DEF RequestsOK, RequestKnown, InFlight
\* A step that only passes names of payloads around within a node.
<1>1. ASSUME published' = published,
             \A n \in Nodes : {objects'[n], quar'[n], trash'[n]}
                                \subseteq {objects[n], quar[n], trash[n], None}
      PROVE  PayloadsKnown'
  BY <1>1, <1>t DEF PayloadsKnown
<1>2. CASE published' = published
  <2>1. ASSUME NEW n \in Nodes
        PROVE  /\ quar'[n] \in {quar[n], objects[n]}
               /\ trash'[n] \in {trash[n], objects[n]}
               /\ objects'[n] \in {objects[n], None}
    <3>1. quar'[n] \in {quar[n], objects[n]}
      BY <1>t, DirsFrame DEF LinkPayload, TypeOK
    <3>2. trash'[n] \in {trash[n], objects[n]}
      BY <1>t, DirsFrame DEF TrashLink, TypeOK
    <3>3. ASSUME NEW m \in Nodes, NEW p \in Payloads, Publish(m, p) PROVE FALSE
      <4>1. p \notin published[m] /\ p \in published'[m]
        BY <3>3, <1>t DEF Publish, TypeOK
      <4> QED BY <1>2, <4>1
    <3>4. objects'[n] \in {objects[n], None}
      BY <1>t, <3>3, DirsFrame DEF RemoveObject, TrashRemove, TypeOK
    <3> QED BY <3>1, <3>2, <3>4
  <2> QED BY <1>1, <1>2, <2>1
<1>3. ASSUME NEW n \in Nodes, NEW p \in Payloads, Publish(n, p) PROVE PayloadsKnown'
  <2>1. /\ \A m \in Nodes : objects'[m] = IF m = n THEN p ELSE objects[m]
        /\ \A m \in Nodes : published'[m] = IF m = n THEN published[m] \cup {p} ELSE published[m]
        /\ quar' = quar /\ trash' = trash /\ \A m \in Nodes : p \notin published[m]
    BY <1>3, <1>t DEF Publish, TypeOK
  <2>2. ASSUME NEW m \in Nodes
        PROVE  {objects'[m], quar'[m], trash'[m]} \subseteq published'[m] \cup {None}
    <3>1. {objects[m], quar[m], trash[m]} \subseteq published[m] \cup {None}
      BY <1>t DEF PayloadsKnown
    <3>2. published[m] \subseteq published'[m] /\ objects'[m] \in {objects[m]} \cup published'[m]
      <4>1. CASE m = n
        BY <2>1, <4>1
      <4>2. CASE m # n
        BY <2>1, <4>2
      <4> QED BY <4>1, <4>2
    <3> QED BY <2>1, <3>1, <3>2
  <2>3. ASSUME NEW x \in Nodes, NEW y \in Nodes, x # y
        PROVE  published'[x] \cap published'[y] = {}
    <3>1. published[x] \cap published[y] = {}
      BY <1>t, <2>3 DEF PayloadsKnown
    <3> QED BY <2>1, <2>3, <3>1
  <2> QED BY <2>2, <2>3 DEF PayloadsKnown
<1> QED BY <1>2, <1>3, DirsFrame

\* A claim goes on saying what it says of its node.
LEMMA ClaimsMatchStep ==
  ASSUME Inductive, [Next]_vars
  PROVE  ClaimsMatch'
<1>t. TypeOK /\ RequestsOK /\ ClaimsMatch
  BY DEF Inductive
<1>q. qstate \in [Nodes -> Claims \cup {None, Torn}]
  BY <1>t DEF TypeOK
<1>s. ASSUME NEW n \in Nodes
      PROVE  /\ published[n] # {} => published'[n] # {}
             /\ quar[n] # None => quar'[n] # None
             /\ Settled /\ published[n] # {} /\ objects[n] = None => objects'[n] = None
  BY PayloadsSettled, ObjectsSettled DEF Settled
<1> SUFFICES ASSUME NEW n \in Nodes
             PROVE  /\ qstate'[n] # None => published'[n] # {}
                    /\ qstate'[n] \notin {None, Torn} /\ qstate'[n].status = "quarantined"
                         => quar'[n] # None /\ (Settled => objects'[n] = None)
  BY DEF ClaimsMatch, IsQuarantined, Claimed
<1>1. CASE qstate'[n] = qstate[n]
  BY <1>1, <1>s, <1>t DEF ClaimsMatch, IsQuarantined, Claimed
<1>2. ASSUME NEW r \in Requests, CreateExclusive(r), qstate'[n] # qstate[n]
      PROVE  qstate'[n] = Torn /\ published[n] # {}
  BY <1>2, <1>q, <1>t DEF CreateExclusive, RequestsOK, HolderHolds
<1>3. ASSUME NEW r \in Requests, WritePending(r), qstate'[n] # qstate[n]
      PROVE  qstate'[n].status = "pending" /\ published[n] # {}
  <2>1. h[r].n = n
    BY <1>3, <1>q DEF WritePending
  <2>2. qstate'[n] = Claim(h[r].op, "pending") /\ published[n] # {}
    BY <1>3, <1>q, <1>t, <2>1 DEF WritePending, RequestsOK, HolderHolds
  <2> QED BY <2>2 DEF Claim
<1>4. ASSUME NEW r \in Requests, FinishState(r), qstate'[n] # qstate[n]
      PROVE  /\ published[n] # {} /\ quar[n] # None
             /\ Settled => objects[n] = None
  <2>1. h[r].n = n
    BY <1>4, <1>q DEF FinishState, WriteAtomic
  <2> QED
    BY <1>4, <1>t, <2>1
    DEF FinishState, WriteAtomic, RequestsOK, HolderHolds, HolderPCs, HeldBy, Claimed, ClaimsMatch
<1> QED BY <1>1, <1>2, <1>3, <1>4, <1>s, QStateFrame

\* No payload is there before its claim.
LEMMA ClaimPrecedesPayloadStep ==
  ASSUME Inductive, [Next]_vars
  PROVE  ClaimPrecedesPayload'
<1>t. TypeOK /\ RequestsOK /\ ClaimPrecedesPayload
  BY DEF Inductive
<1> SUFFICES ASSUME NEW n \in Nodes, quar'[n] # None
             PROVE  qstate'[n] \notin {None, Torn}
  BY DEF ClaimPrecedesPayload, Claimed
<1>1. CASE quar[n] # None
  BY <1>1, <1>t, ClaimsSettled DEF ClaimPrecedesPayload
<1>2. ASSUME NEW r \in Requests, LinkPayload(r), quar[n] = None
      PROVE  qstate'[n] \notin {None, Torn}
  <2>1. h[r].n = n
    BY <1>2, <1>t DEF LinkPayload, TypeOK
  <2>2. Claimed(n)
    BY <1>2, <1>t, <2>1 DEF LinkPayload, RequestsOK, HolderHolds, HolderPCs, HeldBy
  <2> QED BY <2>2, ClaimsSettled
<1> QED BY <1>1, <1>2, DirsFrame

\* A node with one payload keeps it.
LEMMA SinglePayloadStep ==
  ASSUME Inductive, [Next]_vars
  PROVE  SinglePayload'
<1>t. TypeOK /\ RequestsOK /\ PayloadsKnown /\ SinglePayload
  BY DEF Inductive
<1> SUFFICES ASSUME ~Republish
             PROVE  PayloadPreserved' /\ \A n \in Nodes : \A p, q \in published'[n] : p = q
  BY DEF SinglePayload
<1>p. PayloadPreserved /\ \A n \in Nodes : \A p, q \in published[n] : p = q
  BY <1>t DEF SinglePayload
<1>s. \A n \in Nodes : /\ quar[n] # None => quar'[n] = quar[n]
                       /\ trash[n] # None => trash'[n] = trash[n]
  BY PayloadsSettled
<1>k. \A n \in Nodes : {objects[n], quar[n], trash[n]} \subseteq published[n] \cup {None}
  BY <1>t DEF PayloadsKnown
<1>y. None \notin Payloads /\ published \in [Nodes -> SUBSET Payloads]
      /\ objects \in [Nodes -> Payloads \cup {None}]
  BY <1>t, NoneAssumption DEF TypeOK
<1>1. ASSUME NEW n \in Nodes, NEW p \in Payloads, Publish(n, p)
      PROVE  PayloadPreserved' /\ \A m \in Nodes : \A x, y \in published'[m] : x = y
  <2>1. /\ \A m \in Nodes : objects'[m] = IF m = n THEN p ELSE objects[m]
        /\ \A m \in Nodes : published'[m] = IF m = n THEN {p} ELSE published[m]
        /\ quar' = quar /\ trash' = trash
    BY <1>1, <1>y DEF Publish
  <2> QED BY <1>p, <2>1 DEF PayloadPreserved
<1>2. ASSUME NEW n \in Nodes, NEW p \in published[n], published' = published,
             objects'[n] = objects[n] \/ quar[n] # None \/ trash[n] # None
      PROVE  p \in {objects'[n], quar'[n], trash'[n]}
  BY <1>2, <1>p, <1>s, <1>k, <1>y DEF PayloadPreserved
<1>3. CASE published' = published
  <2>1. ASSUME NEW n \in Nodes, objects'[n] # objects[n], NEW p \in published[n]
        PROVE  quar[n] # None \/ trash[n] # None
    <3>1. ASSUME NEW r \in Requests, RemoveObject(r) PROVE quar[n] # None
      BY <2>1, <3>1, <1>t, <1>y DEF RemoveObject, RequestsOK, HolderHolds
    <3>2. ASSUME NEW r \in Requests, TrashRemove(r) PROVE trash[n] # None
      BY <2>1, <3>2, <1>t, <1>y DEF TrashRemove, RequestsOK, HolderHolds
    <3>3. ASSUME NEW m \in Nodes, NEW x \in Payloads, Publish(m, x) PROVE FALSE
      <4>1. x \notin published[m] /\ x \in published'[m]
        BY <3>3, <1>y DEF Publish
      <4> QED BY <1>3, <4>1
    <3> QED BY <2>1, <3>1, <3>2, <3>3, DirsFrame
  <2> QED BY <1>2, <1>3, <1>p, <2>1 DEF PayloadPreserved
<1> QED BY <1>1, <1>3, DirsFrame
-----------------------------------------------------------------------------
(* Results. *)

\* Before the first request nothing is published, claimed or held.
LEMMA InitInductive == Init => Inductive
<1> SUFFICES ASSUME Init PROVE Inductive
  OBVIOUS
<1>1. TypeOK
  BY InitType
<1>2. RequestsOK /\ AnswersHold
  BY DEF Init, Idle, RequestsOK, AnswersHold, RequestKnown, WriterAlone, HolderHolds, HolderPCs,
         ApplyPCs
<1>3. PayloadsKnown /\ ClaimsMatch /\ SinglePayload /\ ClaimPrecedesPayload
  BY DEF Init, PayloadsKnown, ClaimsMatch, SinglePayload, PayloadPreserved, ClaimPrecedesPayload,
         IsQuarantined, Claimed
<1> QED BY <1>1, <1>2, <1>3 DEF Inductive

\* No step of any request, failure or restart breaks the invariant.
LEMMA InductiveStep == Inductive /\ [Next]_vars => Inductive'
<1> SUFFICES ASSUME Inductive, [Next]_vars PROVE Inductive'
  OBVIOUS
<1>1. TypeOK'
  BY TypeStep DEF Inductive
<1> QED
  BY <1>1, RequestsStep, PayloadsKnownStep, ClaimsMatchStep, SinglePayloadStep,
     ClaimPrecedesPayloadStep
  DEF Inductive

\* The inductive invariant holds throughout: what each request relies on, which
\* payloads a node may hold, and what a claim says of its node.
THEOREM InductiveHolds == Spec => []Inductive
BY InitInductive, InductiveStep, PTL DEF Spec

\* Every variable keeps its type: a state file is absent, torn, or a claim.
THEOREM TypesHold == Spec => []TypeOK
<1>1. Inductive => TypeOK
  BY DEF Inductive
<1> QED BY <1>1, InductiveHolds, PTL

\* However operations race, fail and are restarted, the operation that claimed
\* a node keeps it, and a finished quarantine is never reopened.
THEOREM ClaimsAreFinal == Spec => ClaimIsFinal
<1>1. Inductive /\ [Next]_vars =>
        [\A n \in Nodes :
           /\ qstate[n] # None => qstate'[n] # None
           /\ Claimed(n) => /\ qstate'[n] \notin {None, Torn}
                            /\ qstate'[n].op = qstate[n].op
           /\ IsQuarantined(n) => qstate'[n] = qstate[n]]_vars
  BY ClaimsSettled
<1> QED BY <1>1, InductiveHolds, PTL DEF Spec, ClaimIsFinal

\* A payload in quarantine can always be traced to the claim that put it there.
THEOREM ClaimsPrecedePayloads == Spec => []ClaimPrecedesPayload
<1>1. Inductive => ClaimPrecedesPayload
  BY DEF Inductive
<1> QED BY <1>1, InductiveHolds, PTL

\* A favourable answer of Apply or Read stays true for ever.
THEOREM AnswersStayTrue == Spec => []AnswersHold
<1>1. Inductive => AnswersHold
  BY DEF Inductive
<1> QED BY <1>1, InductiveHolds, PTL

\* As long as no node is published twice and the stat of the object in
\* reconcileQuarantine does not fail, a quarantine on record as done holds the
\* payload, and no node serves it as an object.
THEOREM IsolationHolds == ASSUME Settled PROVE Spec => []IsolatedIsInactive
<1>1. Inductive => IsolatedIsInactive
  <2> SUFFICES ASSUME Inductive, NEW n \in Nodes, IsQuarantined(n)
               PROVE  quar[n] # None /\ \A m \in Nodes : objects[m] # quar[n]
    BY DEF IsolatedIsInactive
  <2>1. quar[n] # None /\ objects[n] = None
    BY DEF Inductive, ClaimsMatch
  <2>2. ASSUME NEW m \in Nodes, m # n PROVE objects[m] # quar[n]
    <3>1. quar[n] \in published[n] /\ published[n] \cap published[m] = {}
      BY <2>1, <2>2 DEF Inductive, PayloadsKnown
    <3>2. objects[m] \in published[m] \cup {None}
      BY DEF Inductive, PayloadsKnown
    <3> QED BY <2>1, <3>1, <3>2
  <2> QED BY <2>1, <2>2
<1> QED BY <1>1, InductiveHolds, PTL

\* As long as no node is published twice, no interleaving of quarantines,
\* reads, moves to trash, failures and restarts loses a published file.
THEOREM NothingIsLost == ASSUME ~Republish PROVE Spec => []PayloadPreserved
<1>1. Inductive => PayloadPreserved
  BY DEF Inductive, SinglePayload
<1> QED BY <1>1, InductiveHolds, PTL
-----------------------------------------------------------------------------
(* Quarantine implements AtomicQuarantine.  Each call of a request that      *)
(* matters is one abstract step; every other one changes nothing that        *)
(* AtomicQuarantine speaks of.                                               *)

\* What is seen of a file depends on what is stored under its node only.
LEMMA FileDecided ==
  ASSUME NEW n \in Nodes, objects'[n] = objects[n], quar'[n] = quar[n], trash'[n] = trash[n]
  PROVE  file'[n] = file[n] /\ where'[n] = where[n]
BY DEF file, where

\* So does who has it, and whether the quarantine is confirmed.
LEMMA OwnerDecided ==
  ASSUME NEW n \in Nodes, qstate'[n] = qstate[n]
  PROVE  owner'[n] = owner[n] /\ done'[n] = done[n]
BY DEF owner, done, IsQuarantined, Claimed

\* A step that changes the view of no file keeps the views.
LEMMA FilesKept ==
  ASSUME \A n \in Nodes : file'[n] = file[n] /\ where'[n] = where[n]
  PROVE  file' = file /\ where' = where
BY DEF file, where

\* A step that changes no claim keeps the owners.
LEMMA OwnersKept ==
  ASSUME \A n \in Nodes : owner'[n] = owner[n] /\ done'[n] = done[n]
  PROVE  owner' = owner /\ done' = done
BY DEF owner, done

\* A step that leaves the state files alone keeps them as well.
LEMMA StatesKept ==
  ASSUME qstate' = qstate
  PROVE  owner' = owner /\ done' = done
BY OwnersKept, OwnerDecided

\* A step that leaves the directories alone keeps the views.
LEMMA DirsKept ==
  ASSUME UNCHANGED dirs
  PROVE  file' = file /\ where' = where
BY FilesKept, FileDecided DEF dirs

\* The steps that AtomicQuarantine speaks of.
LEMMA StepKinds ==
  ASSUME [Next]_vars
  PROVE  \/ UNCHANGED <<dirs, qstate>>
         \/ \E n \in Nodes, p \in Payloads : Publish(n, p)
         \/ \E r \in Requests : \/ CreateExclusive(r) \/ WritePending(r) \/ FinishState(r)
                                \/ LinkPayload(r) \/ RemoveObject(r)
                                \/ TrashLink(r) \/ TrashRemove(r)
BY DEF Next, vars, Restart, Read, MoveToTrash, Apply, Start, ApplyStep, ReadState,
       CheckQuarantine, CheckObject, SyncPending, Reread, StatObject, StatQuarantine,
       ReadStep, ReadBack, ReadAbsent, ReadPayload, ReadObject, TrashStep, Fail

\* Each of them is a step of AtomicQuarantine or leaves what it speaks of as it is.
LEMMA StepRefines ==
  ASSUME Settled, Inductive, [Next]_vars
  PROVE  Atomic!Next \/ UNCHANGED Atomic!vars
<1>t. TypeOK /\ RequestsOK /\ PayloadsKnown /\ ClaimsMatch /\ SinglePayload /\ ClaimPrecedesPayload
  BY DEF Inductive
<1>y. /\ objects \in [Nodes -> Payloads \cup {None}] /\ quar \in [Nodes -> Payloads \cup {None}]
      /\ trash \in [Nodes -> Payloads \cup {None}]
      /\ qstate \in [Nodes -> Claims \cup {None, Torn}]
  BY <1>t DEF TypeOK
<1>n. \A r \in Requests : InFlight(r) => h[r].n \in Nodes
  BY <1>t DEF RequestsOK, RequestKnown, InFlight
<1>z. \A n \in Nodes : \A p \in published[n] : p # None
  BY <1>t, NoneAssumption DEF TypeOK
<1>1. CASE UNCHANGED <<dirs, qstate>>
  BY <1>1, DirsKept, StatesKept DEF Atomic!vars
<1>2. ASSUME NEW n \in Nodes, NEW p \in Payloads, Publish(n, p) PROVE Atomic!Publish(n, p)
  <2>1. /\ objects' = [objects EXCEPT ![n] = p] /\ UNCHANGED <<quar, trash, qstate>>
        /\ objects[n] = None /\ published[n] = {} /\ p # None
    BY <1>2, NoneAssumption DEF Publish, Settled
  <2>2. where[n] = "nowhere"
    BY <1>t, <2>1 DEF PayloadsKnown, where
  <2>3. where'[n] = "active" /\ file'[n] = p
    BY <1>y, <2>1 DEF where, file
  <2>4. \A m \in Nodes : m # n => where'[m] = where[m] /\ file'[m] = file[m]
    BY <1>y, <2>1, FileDecided
  <2>5. where' = [where EXCEPT ![n] = "active"]
    BY <2>3, <2>4 DEF where
  <2>6. file' = [file EXCEPT ![n] = p]
    BY <2>3, <2>4 DEF file
  <2> QED BY <2>1, <2>2, <2>5, <2>6, StatesKept DEF Atomic!Publish
<1>3. ASSUME NEW r \in Requests, CreateExclusive(r) PROVE UNCHANGED Atomic!vars
  <2>1. \A n \in Nodes : owner'[n] = owner[n] /\ done'[n] = done[n]
    BY <1>3, <1>y DEF CreateExclusive, owner, done, IsQuarantined, Claimed
  <2> QED BY <1>3, <2>1, OwnersKept, DirsKept DEF CreateExclusive, Atomic!vars
<1>4. ASSUME NEW r \in Requests, WritePending(r) PROVE Atomic!Next
  <2> DEFINE n == h[r].n
  <2>1. /\ n \in Nodes /\ h[r].op \in Operations /\ qstate[n] = Torn /\ published[n] # {}
        /\ qstate' = [qstate EXCEPT ![n] = Claim(h[r].op, "pending")] /\ UNCHANGED dirs
    BY <1>4, <1>t DEF WritePending, RequestsOK, RequestKnown, WriterAlone, HolderHolds, ApplyPCs
  <2>2. /\ Claim(h[r].op, "pending") \in Claims /\ Claim(h[r].op, "pending").op = h[r].op
        /\ Claim(h[r].op, "pending").status = "pending"
    BY <2>1 DEF Claim, Claims
  <2> HIDE DEF n
  <2>3. owner[n] = None /\ ~done[n]
    BY <2>1 DEF owner, done, Claimed, IsQuarantined
  <2>4. where[n] # "nowhere"
    BY <1>t, <1>z, <2>1 DEF SinglePayload, PayloadPreserved, Settled, where
  <2>5. owner'[n] = h[r].op /\ done'[n] = done[n]
    BY <1>y, <2>1, <2>2, <2>3, NoneAssumption DEF owner, done, Claimed, IsQuarantined
  <2>6. \A m \in Nodes : m # n => owner'[m] = owner[m] /\ done'[m] = done[m]
    BY <1>y, <2>1, OwnerDecided
  <2>7. owner' = [owner EXCEPT ![n] = h[r].op] /\ done' = done
    BY <2>5, <2>6 DEF owner, done
  <2> QED BY <2>1, <2>3, <2>4, <2>7, DirsKept DEF Atomic!Next, Atomic!Own
<1>5. ASSUME NEW r \in Requests, FinishState(r) PROVE Atomic!Next
  <2> DEFINE n == h[r].n
  <2>1. /\ n \in Nodes /\ h[r].op \in Operations /\ HeldBy(n, h[r].op)
        /\ quar[n] # None /\ objects[n] = None
        /\ qstate' = [qstate EXCEPT ![n] = Claim(h[r].op, "quarantined")] /\ UNCHANGED dirs
    BY <1>5, <1>t
    DEF FinishState, WriteAtomic, RequestsOK, RequestKnown, HolderHolds, HolderPCs, ApplyPCs
  <2>2. /\ Claim(h[r].op, "quarantined") \in Claims /\ Claim(h[r].op, "quarantined").op = h[r].op
        /\ Claim(h[r].op, "quarantined").status = "quarantined"
    BY <2>1 DEF Claim, Claims
  <2> HIDE DEF n
  <2>3. owner[n] = h[r].op /\ where[n] = "isolated"
    BY <2>1 DEF owner, where, HeldBy
  <2>4. owner'[n] = owner[n] /\ done'[n]
    BY <1>y, <2>1, <2>2, <2>3, NoneAssumption DEF owner, done, Claimed, IsQuarantined
  <2>5. \A m \in Nodes : m # n => owner'[m] = owner[m] /\ done'[m] = done[m]
    BY <1>y, <2>1, OwnerDecided
  <2>6. owner' = owner /\ done' = [done EXCEPT ![n] = TRUE]
    BY <2>4, <2>5 DEF owner, done
  <2>7. owner[n] # None
    BY <2>1, <2>3, NoneOperation
  <2> QED BY <2>1, <2>3, <2>6, <2>7, DirsKept DEF Atomic!Next, Atomic!Confirm
<1>6. ASSUME NEW r \in Requests, LinkPayload(r) \/ TrashLink(r) PROVE UNCHANGED Atomic!vars
  <2>1. UNCHANGED <<objects, qstate>>
    BY <1>6 DEF LinkPayload, TrashLink
  <2>2. \A n \in Nodes : quar'[n] # quar[n] \/ trash'[n] # trash[n] => objects[n] # None
    BY <1>6, <1>y DEF LinkPayload, TrashLink, There
  <2>3. \A n \in Nodes : file'[n] = file[n] /\ where'[n] = where[n]
    BY <2>1, <2>2 DEF file, where
  <2> QED BY <2>1, <2>3, FilesKept, StatesKept DEF Atomic!vars
\* An object that has another name loses its active one.
<1>7. ASSUME NEW r \in Requests, RemoveObject(r) \/ TrashRemove(r)
      PROVE  Atomic!Next \/ UNCHANGED Atomic!vars
  <2> DEFINE n == h[r].n
  <2>1. /\ n \in Nodes /\ UNCHANGED <<quar, trash, qstate>>
        /\ quar[n] # None \/ trash[n] # None
    BY <1>7, <1>n, <1>t DEF RemoveObject, TrashRemove, InFlight, RequestsOK, HolderHolds
  <2>2. CASE objects' = objects
    BY <2>1, <2>2, DirsKept, StatesKept DEF dirs, Atomic!vars
  <2>3. CASE objects[n] # None /\ objects' = [objects EXCEPT ![n] = None]
    <3> HIDE DEF n
    <3>1. where[n] = "active" /\ where'[n] = IF quar[n] # None THEN "isolated" ELSE "trashed"
      BY <1>y, <2>1, <2>3 DEF where
    <3>2. file'[n] = file[n]
      <4>1. objects[n] \in published[n] /\ {quar[n], trash[n]} \subseteq published[n] \cup {None}
        BY <1>t, <2>1, <2>3 DEF PayloadsKnown
      <4>2. \A p, q \in published[n] : p = q
        BY <1>t, <2>1 DEF SinglePayload, Settled
      <4> QED BY <1>y, <2>1, <2>3, <4>1, <4>2 DEF file
    <3>3. \A m \in Nodes : m # n => where'[m] = where[m] /\ file'[m] = file[m]
      BY <1>y, <2>1, <2>3, FileDecided
    <3>4. where' = [where EXCEPT ![n] = IF quar[n] # None THEN "isolated" ELSE "trashed"]
          /\ file' = file
      BY <3>1, <3>2, <3>3 DEF where, file
    <3>5. CASE quar[n] # None
      <4>1. owner[n] # None
        BY <1>t, <2>1, <3>5, NoneOperation, ClaimedIsClaim DEF ClaimPrecedesPayload, owner, Claims
      <4> QED BY <2>1, <3>1, <3>4, <3>5, <4>1, StatesKept DEF Atomic!Next, Atomic!Isolate
    <3>6. CASE quar[n] = None
      BY <2>1, <3>1, <3>4, <3>6, StatesKept DEF Atomic!Next, Atomic!Trash
    <3> QED BY <3>5, <3>6
  <2> QED BY <1>7, <2>2, <2>3 DEF RemoveObject, TrashRemove, There
<1> QED
  BY <1>1, <1>2, <1>3, <1>4, <1>5, <1>6, <1>7, StepKinds DEF Atomic!Next

\* As long as no node is published twice and the stat of the object does not
\* fail, the calls of ApplyQuarantine, cut short and interleaved in any order
\* with each other and with MoveToTrash, amount to single steps: an object
\* leaves the active namespace at once, for good, and as the file it was.
THEOREM QuarantineIsAtomic == ASSUME Settled PROVE Spec => AppliesAtomically
<1>1. Init => Atomic!Init
  BY DEF Init, Atomic!Init, file, where, owner, done, IsQuarantined, Claimed
<1>2. Inductive /\ [Next]_vars => [Atomic!Next]_(Atomic!vars)
  BY StepRefines
<1> QED BY <1>1, <1>2, InductiveHolds, PTL DEF Spec, AppliesAtomically, Atomic!Spec

(***************************************************************************)
(* The bridge: what Wardveil's executor was told is so, for every set of   *)
(* nodes, operations and requests, and any number of timeouts and          *)
(* restarts, as long as an operation is not repeated while Drive is still  *)
(* at work on it.                                                          *)
(***************************************************************************)
HIDE DEF At
-----------------------------------------------------------------------------
(* Answers, and the fields of calls and requests. *)

\* What the Worker makes of the result of an operation.
LEMMA ToldCases ==
  ASSUME NEW result
  PROVE  /\ Told(result) \in Final \cup {"unknown", "error"}
         /\ Told(result) \in {"applied", "already_applied"} => result = Told(result)
         /\ Told(result) = "failed" => result \in {"conflict", "not_found"}
<1>1. CASE result \in {"applied", "already_applied"}
  BY <1>1 DEF Told, ApplyStatus, ApplyCode, callDrive, Final
<1>2. CASE result \in {"conflict", "not_found"}
  BY <1>2 DEF Told, ApplyStatus, ApplyCode, callDrive, Final
<1>3. CASE result \notin {"applied", "already_applied", "conflict", "not_found"}
  BY <1>3 DEF Told, ApplyStatus, ApplyCode, callDrive, Final
<1> QED
  BY <1>1, <1>2, <1>3

\* What it makes of a read.
LEMMA ReadCases ==
  ASSUME NEW result
  PROVE  /\ ReadBackOf(result) \in {"quarantined", "not_quarantined", "unknown", "error"}
         /\ ReadBackOf(result) \in {"quarantined", "not_quarantined"}
              => result = ReadBackOf(result)
BY DEF ReadBackOf, ReadCode, callDrive

\* A step of a request at work leaves its node and its operation alone.
LEMMA WorkFields ==
  ASSUME Inductive, NEW r \in Requests, ApplyStep(r) \/ ReadStep(r)
  PROVE  /\ InFlight(r) /\ h'[r].n = h[r].n /\ h'[r].op = h[r].op
         /\ \A q \in Requests : q # r => h'[q] = h[q]
         /\ ApplyStep(r) => h[r].pc \in ApplyPCs /\ h'[r].pc \in {"done"} \cup ApplyPCs
         /\ ReadStep(r) => h[r].pc \in ReadPCs /\ h'[r].pc \in {"done"} \cup ReadPCs
<1>t. TypeOK /\ h \in [Requests -> Request] /\ h[r] \in Request
  BY DEF Inductive, TypeOK
<1>o. \A q \in Requests : q # r => h'[q] = h[q]
  BY <1>t, OthersUntouched DEF Acts
<1>a. ASSUME NEW res, Answer(r, res)
      PROVE  h'[r].n = h[r].n /\ h'[r].op = h[r].op /\ h'[r].pc = "done"
  BY <1>a, <1>t DEF Answer, Become, Request
<1>g. ASSUME NEW pc, Goto(r, pc)
      PROVE  h'[r].n = h[r].n /\ h'[r].op = h[r].op /\ h'[r].pc = pc
  BY <1>g, <1>t DEF Goto, Become, Request
<1>m. ASSUME Matching(r, "statobj")
      PROVE  h'[r].n = h[r].n /\ h'[r].op = h[r].op /\ h'[r].pc \in {"done", "statobj"}
  <2>1. CASE Answer(r, "conflict")
    BY <1>a, <2>1
  <2>2. CASE Become(r, [h[r] EXCEPT !.pc = "statobj", !.status = qstate[h[r].n].status])
    BY <2>2, <1>t DEF Become, Request
  <2> QED
    BY <1>m, <2>1, <2>2 DEF Matching
<1>1. CASE ApplyStep(r)
  <2> DEFINE Moved == h'[r].n = h[r].n /\ h'[r].op = h[r].op /\ h'[r].pc \in {"done"} \cup ApplyPCs
  <2>1. ASSUME WritePending(r) PROVE Moved
    BY <2>1, <1>t DEF WritePending, Become, Request, ApplyPCs
  <2>2. ASSUME StatObject(r) PROVE Moved
    <3>1. PICK there : Become(r, [h[r] EXCEPT !.pc = "statquar", !.objectExists = there])
      BY <2>2 DEF StatObject
    <3> QED
      BY <3>1, <1>t DEF Become, Request, ApplyPCs
  <2>3. ASSUME ReadState(r) \/ Reread(r) PROVE Moved
    BY <2>3, <1>a, <1>g, <1>m DEF ReadState, Reread, ApplyPCs
  <2>4. ASSUME CheckQuarantine(r) \/ CheckObject(r) \/ CreateExclusive(r) \/ SyncPending(r)
        PROVE  Moved
    BY <2>4, <1>a, <1>g DEF CheckQuarantine, CheckObject, CreateExclusive, SyncPending, ApplyPCs
  <2>5. ASSUME StatQuarantine(r) \/ LinkPayload(r) \/ RemoveObject(r) \/ FinishState(r) PROVE Moved
    BY <2>5, <1>a, <1>g DEF StatQuarantine, LinkPayload, RemoveObject, FinishState, ApplyPCs
  <2>6. h[r].pc \in ApplyPCs
    BY <1>1 DEF ApplyStep, ReadState, CheckQuarantine, CheckObject, CreateExclusive, WritePending,
       SyncPending, Reread, StatObject, StatQuarantine, LinkPayload, RemoveObject, FinishState,
       At, ApplyPCs
  <2>7. Moved
    <3> HIDE DEF Moved
    <3> QED
      BY <1>1, <2>1, <2>2, <2>3, <2>4, <2>5 DEF ApplyStep
  <2>8. ~ReadStep(r)
    BY <2>6 DEF ApplyPCs, ReadStep, ReadBack, ReadAbsent, ReadPayload, ReadObject, At
  <2> QED
    BY <1>o, <2>6, <2>7, <2>8 DEF InFlight, ApplyPCs
<1>2. CASE ReadStep(r)
  <2>1. h[r].pc \in ReadPCs
    BY <1>2 DEF ReadStep, ReadBack, ReadAbsent, ReadPayload, ReadObject, At, ReadPCs
  <2>2. h'[r].n = h[r].n /\ h'[r].op = h[r].op /\ h'[r].pc \in {"done"} \cup ReadPCs
    BY <1>2, <1>a, <1>g DEF ReadStep, ReadBack, ReadAbsent, ReadPayload, ReadObject, ReadPCs
  <2>3. ~ApplyStep(r)
    BY <2>1 DEF ApplyStep, ReadState, CheckQuarantine, CheckObject, CreateExclusive, WritePending,
       SyncPending, Reread, StatObject, StatQuarantine, LinkPayload, RemoveObject, FinishState,
       At, ReadPCs
  <2> QED
    BY <1>o, <2>1, <2>2, <2>3 DEF InFlight, ReadPCs
<1> QED
  BY <1>1, <1>2

\* The only step that gives a node to an operation is the first write of its claim.
LEMMA HeldSince ==
  ASSUME Inductive, [Next]_vars, NEW n \in Nodes, NEW op, HeldBy(n, op)', ~HeldBy(n, op)
  PROVE  \E q \in Requests : WritePending(q) /\ h[q].n = n /\ h[q].op = op
<1>t. qstate \in [Nodes -> Claims \cup {None, Torn}] /\ RequestsOK
  BY DEF Inductive, TypeOK
<1>1. qstate' # qstate
  BY DEF HeldBy, Claimed
<1>2. ASSUME NEW r \in Requests, CreateExclusive(r) PROVE FALSE
  BY <1>2, <1>t DEF CreateExclusive, HeldBy, Claimed
<1>3. ASSUME NEW r \in Requests, WritePending(r)
      PROVE  h[r].n = n /\ h[r].op = op
  BY <1>3, <1>t DEF WritePending, HeldBy, Claimed, Claim
<1>4. ASSUME NEW r \in Requests, FinishState(r) PROVE FALSE
  <2>1. HeldBy(h[r].n, h[r].op)
    BY <1>4, <1>t DEF FinishState, At, RequestsOK, HolderHolds, HolderPCs
  <2> QED
    BY <1>4, <1>t, <2>1 DEF FinishState, WriteAtomic, HeldBy, Claimed, Claim
<1> QED
  BY <1>1, <1>2, <1>3, <1>4, QStateFrame

-----------------------------------------------------------------------------
(* Steps of the bridge. *)

\* A call that was taken up names a node.
CallsNamed == \A op \in Operations : call[op].pc # "idle" => call[op].n \in Nodes

\* Seen from the storage, every step of the bridge is a step of Quarantine.
LEMMA BridgeStepIsStep ==
  ASSUME CallsNamed, [BridgeNext]_bridgeVars
  PROVE  [Next]_vars
<1>1. CASE UNCHANGED vars
  BY <1>1
<1>2. ASSUME NEW op \in Operations, NEW r \in Requests, Send(op, r) PROVE Next
  <2>1. call[op].n \in Nodes /\ Apply(r, call[op].n, op)
    BY <1>2 DEF Send, CallsNamed
  <2> QED
    BY <2>1 DEF Next
<1>3. ASSUME NEW op \in Operations, NEW r \in Requests, SendRead(op, r) PROVE Next
  <2>1. call[op].n \in Nodes /\ Read(r, call[op].n)
    BY <1>3 DEF SendRead, CallsNamed
  <2> QED
    BY <2>1 DEF Next
<1>4. CASE RestartDrive \/ PublishFile
  BY <1>4 DEF RestartDrive, PublishFile, Next
<1>5. ASSUME NEW r \in Requests, Work(r) PROVE Next
  BY <1>5 DEF Work, Next
<1>6. ASSUME NEW op \in Operations,
             \/ \E n \in Nodes : Ask(op, n)
             \/ Refused(op) \/ Receive(op) \/ Timeout(op) \/ ReceiveRead(op)
      PROVE  UNCHANGED vars
  BY <1>6 DEF Ask, Refused, Receive, Timeout, ReceiveRead
<1>7. CASE BridgeNext
  BY <1>1, <1>2, <1>3, <1>4, <1>5, <1>6, <1>7 DEF BridgeNext
<1> QED
  BY <1>1, <1>7 DEF bridgeVars

\* What the bridge does in a step: it works on a request, it starts one, it
\* moves a call, or it does none of these to requests and calls.
LEMMA BridgeCases ==
  ASSUME [BridgeNext]_bridgeVars
  PROVE  \/ \E r \in Requests : Work(r)
         \/ \E op \in Operations, r \in Requests : Send(op, r) \/ SendRead(op, r)
         \/ RestartDrive
         \/ PublishFile
         \/ \E op \in Operations : \/ \E n \in Nodes : Ask(op, n)
                                   \/ Refused(op) \/ Receive(op) \/ Timeout(op) \/ ReceiveRead(op)
         \/ UNCHANGED <<vars, call>>
BY DEF BridgeNext, bridgeVars

\* The steps that only move a call.
Moves(op) == \/ \E n \in Nodes : Ask(op, n)
             \/ Refused(op) \/ Receive(op) \/ Timeout(op) \/ ReceiveRead(op)

LEMMA MovesFrame ==
  ASSUME call \in [Operations -> Calls], NEW op \in Operations, Moves(op)
  PROVE  /\ UNCHANGED vars
         /\ \A o \in Operations : o # op => call'[o] = call[o]
BY DEF Moves, Ask, Refused, Receive, Timeout, ReceiveRead, Update

\* A request that a call starts is one that nobody waits for, and nothing else
\* changes.
LEMMA SendFrame ==
  ASSUME TypeOK, call \in [Operations -> Calls], NEW op \in Operations, NEW r \in Requests,
         Send(op, r) \/ SendRead(op, r)
  PROVE  /\ \A q \in Requests : q # r => h'[q] = h[q]
         /\ \A o \in Operations : o # op => call'[o] = call[o] /\ call[o].r # r
         /\ UNCHANGED <<dirs, qstate, published>>
         /\ h'[r].n = call[op].n /\ call'[op].n = call[op].n /\ call'[op].r = r
         /\ call'[op].told = call[op].told /\ call'[op].read = call[op].read
         /\ Send(op, r) => /\ h'[r].pc = "read" /\ h'[r].op = op /\ call'[op].pc = "applying"
                           /\ call[op].pc = "ready"
         /\ SendRead(op, r) => /\ h'[r].pc = "rstate" /\ h'[r].op = None
                               /\ call'[op].pc = "reading" /\ call[op].pc = "settled"
         /\ ~InFlight(r) /\ call' \in [Operations -> Calls]
<1>1. CASE Send(op, r)
  <2>1. h' = [h EXCEPT ![r] = [Idle EXCEPT !.pc = "read", !.n = call[op].n, !.op = op]]
    BY <1>1 DEF Send, Apply, Start, Become
  <2>2. h'[r] = [Idle EXCEPT !.pc = "read", !.n = call[op].n, !.op = op]
        /\ \A q \in Requests : q # r => h'[q] = h[q]
    BY <2>1 DEF TypeOK
  <2>3. h'[r].n = call[op].n /\ h'[r].pc = "read" /\ h'[r].op = op
    BY <2>2 DEF Idle
  <2>4. call' = [call EXCEPT ![op] = [call[op] EXCEPT !.pc = "applying", !.r = r]]
    BY <1>1 DEF Send, Update
  <2>5. call[op] \in Calls /\ [call[op] EXCEPT !.pc = "applying", !.r = r] \in Calls
    BY DEF Calls
  <2>6. /\ call' \in [Operations -> Calls] /\ call'[op].n = call[op].n /\ call'[op].r = r
        /\ call'[op].pc = "applying" /\ call'[op].told = call[op].told
        /\ call'[op].read = call[op].read
    BY <2>4, <2>5 DEF Calls
  <2>7. \A o \in Operations : o # op => call'[o] = call[o] /\ call[o].r # r
    BY <1>1, <2>4 DEF Send, Awaited
  <2>8. UNCHANGED <<dirs, qstate, published>> /\ ~InFlight(r) /\ call[op].pc = "ready"
    BY <1>1 DEF Send, Apply, Start
  <2>9. ~SendRead(op, r)
    BY <2>8 DEF SendRead
  <2> QED
    BY <2>2, <2>3, <2>6, <2>7, <2>8, <2>9
<1>2. CASE SendRead(op, r)
  <2>1. h' = [h EXCEPT ![r] = [Idle EXCEPT !.pc = "rstate", !.n = call[op].n, !.op = None]]
    BY <1>2 DEF SendRead, Read, Start, Become
  <2>2. h'[r] = [Idle EXCEPT !.pc = "rstate", !.n = call[op].n, !.op = None]
        /\ \A q \in Requests : q # r => h'[q] = h[q]
    BY <2>1 DEF TypeOK
  <2>3. h'[r].n = call[op].n /\ h'[r].pc = "rstate" /\ h'[r].op = None
    BY <2>2 DEF Idle
  <2>4. call' = [call EXCEPT ![op] = [call[op] EXCEPT !.pc = "reading", !.r = r]]
    BY <1>2 DEF SendRead, Update
  <2>5. call[op] \in Calls /\ [call[op] EXCEPT !.pc = "reading", !.r = r] \in Calls
    BY DEF Calls
  <2>6. /\ call' \in [Operations -> Calls] /\ call'[op].n = call[op].n /\ call'[op].r = r
        /\ call'[op].pc = "reading" /\ call'[op].told = call[op].told
        /\ call'[op].read = call[op].read
    BY <2>4, <2>5 DEF Calls
  <2>7. \A o \in Operations : o # op => call'[o] = call[o] /\ call[o].r # r
    BY <1>2, <2>4 DEF SendRead, Awaited
  <2>8. UNCHANGED <<dirs, qstate, published>> /\ ~InFlight(r) /\ call[op].pc = "settled"
    BY <1>2 DEF SendRead, Read, Start
  <2>9. ~Send(op, r)
    BY <2>8 DEF Send
  <2> QED
    BY <2>2, <2>3, <2>6, <2>7, <2>8, <2>9
<1> QED
  BY <1>1, <1>2

\* A restart leaves nothing at work and no call waiting.
LEMMA RestartFrame ==
  ASSUME call \in [Operations -> Calls], RestartDrive
  PROVE  /\ \A q \in Requests : h'[q] = Idle
         /\ UNCHANGED <<dirs, qstate, published>>
         /\ call' \in [Operations -> Calls]
         /\ \A op \in Operations :
              /\ call'[op].n = call[op].n
              /\ call'[op].pc = CASE call[op].pc = "applying" -> "ready"
                                  [] call[op].pc = "reading" -> "settled"
                                  [] OTHER -> call[op].pc
              /\ call'[op].told = IF call[op].pc = "applying" THEN "error" ELSE call[op].told
              /\ call'[op].read = IF call[op].pc = "reading" THEN "error" ELSE call[op].read
<1> DEFINE After(c) == CASE c.pc = "applying" -> [c EXCEPT !.pc = "ready", !.r = None, !.told = "error"]
                         [] c.pc = "reading"  -> [c EXCEPT !.pc = "settled", !.r = None, !.read = "error"]
                         [] OTHER             -> c
<1>1. ASSUME NEW c \in Calls
      PROVE  /\ After(c) \in Calls /\ After(c).n = c.n
             /\ After(c).pc = CASE c.pc = "applying" -> "ready"
                                [] c.pc = "reading" -> "settled"
                                [] OTHER -> c.pc
             /\ After(c).told = IF c.pc = "applying" THEN "error" ELSE c.told
             /\ After(c).read = IF c.pc = "reading" THEN "error" ELSE c.read
  <2>1. CASE c.pc = "applying"
    BY <2>1 DEF Calls
  <2>2. CASE c.pc = "reading"
    BY <2>2 DEF Calls
  <2>3. CASE c.pc \notin {"applying", "reading"}
    BY <2>3 DEF Calls
  <2> QED BY <2>1, <2>2, <2>3
<1>2. call' = [op \in Operations |-> After(call[op])]
  BY DEF RestartDrive
<1> HIDE DEF After
<1>3. \A op \in Operations : call'[op] = After(call[op]) /\ call[op] \in Calls
  BY <1>2
<1>4. /\ call' \in [Operations -> Calls]
      /\ \A op \in Operations :
              /\ call'[op].n = call[op].n
              /\ call'[op].pc = CASE call[op].pc = "applying" -> "ready"
                                  [] call[op].pc = "reading" -> "settled"
                                  [] OTHER -> call[op].pc
              /\ call'[op].told = IF call[op].pc = "applying" THEN "error" ELSE call[op].told
              /\ call'[op].read = IF call[op].pc = "reading" THEN "error" ELSE call[op].read
  BY <1>1, <1>2, <1>3
<1>5. (\A q \in Requests : h'[q] = Idle) /\ UNCHANGED <<dirs, qstate, published>>
  BY DEF RestartDrive, Restart
<1> QED
  BY <1>4, <1>5

\* How a call moves: it is taken up, it fails to reach Drive, it is given up,
\* or it is answered.
LEMMA MoveFields ==
  ASSUME call \in [Operations -> Calls], NEW op \in Operations, Moves(op)
  PROVE  /\ call' \in [Operations -> Calls]
         /\ \/ /\ call'[op].pc = "ready" /\ call'[op].n \in Nodes
               /\ call'[op].told = "none" /\ call'[op].read = "none"
            \/ /\ call[op].pc \in {"ready", "applying"} /\ call'[op].pc = "ready"
               /\ call'[op].n = call[op].n /\ call'[op].told = "error"
               /\ call'[op].read = call[op].read
            \/ /\ call[op].pc \in {"settled", "reading"} /\ call'[op].pc = "settled"
               /\ call'[op].n = call[op].n /\ call'[op].told = call[op].told
               /\ call'[op].read = "error"
            \/ /\ call[op].pc = "applying" /\ At(call[op].r, "done")
               /\ call'[op].told = Told(h[call[op].r].result)
               /\ call'[op].pc = IF call'[op].told \in Final THEN "settled" ELSE "ready"
               /\ call'[op].n = call[op].n /\ call'[op].read = call[op].read
            \/ /\ call[op].pc = "reading" /\ At(call[op].r, "done")
               /\ call'[op].pc = "settled" /\ call'[op].n = call[op].n
               /\ call'[op].told = call[op].told
               /\ call'[op].read = ReadBackOf(h[call[op].r].result)
<1> DEFINE c == call[op]
<1>c. c \in Calls
  OBVIOUS
<1>u. ASSUME NEW d \in Calls, Update(op, d)
      PROVE  call' \in [Operations -> Calls] /\ call'[op] = d
  BY <1>u DEF Update
<1>1. ASSUME NEW n \in Nodes, Ask(op, n)
      PROVE  /\ call' \in [Operations -> Calls]
             /\ call'[op].pc = "ready" /\ call'[op].n \in Nodes
             /\ call'[op].told = "none" /\ call'[op].read = "none"
  <2> DEFINE d == [NoCall EXCEPT !.pc = "ready", !.n = n]
  <2>1. d \in Calls /\ d.pc = "ready" /\ d.n = n /\ d.told = "none" /\ d.read = "none"
    BY DEF NoCall, Calls
  <2>2. Update(op, d)
    BY <1>1 DEF Ask
  <2> HIDE DEF d
  <2> QED
    BY <1>u, <2>1, <2>2
<1>2. ASSUME NEW d, d = [c EXCEPT !.told = "error"], Update(op, d), c.pc = "ready"
      PROVE  /\ call' \in [Operations -> Calls] /\ call'[op].pc = "ready"
             /\ call'[op].n = c.n /\ call'[op].told = "error" /\ call'[op].read = c.read
  <2>1. d \in Calls /\ d.pc = c.pc /\ d.n = c.n /\ d.told = "error" /\ d.read = c.read
    BY <1>2, <1>c DEF Calls
  <2> QED
    BY <1>u, <1>2, <2>1
<1>3. ASSUME NEW d, d = [c EXCEPT !.pc = "ready", !.r = None, !.told = "error"], Update(op, d)
      PROVE  /\ call' \in [Operations -> Calls] /\ call'[op].pc = "ready"
             /\ call'[op].n = c.n /\ call'[op].told = "error" /\ call'[op].read = c.read
  <2>1. d \in Calls /\ d.pc = "ready" /\ d.n = c.n /\ d.told = "error" /\ d.read = c.read
    BY <1>3, <1>c DEF Calls
  <2> QED
    BY <1>u, <1>3, <2>1
<1>4. ASSUME NEW d, d = [c EXCEPT !.read = "error"], Update(op, d), c.pc = "settled"
      PROVE  /\ call' \in [Operations -> Calls] /\ call'[op].pc = "settled"
             /\ call'[op].n = c.n /\ call'[op].told = c.told /\ call'[op].read = "error"
  <2>1. d \in Calls /\ d.pc = c.pc /\ d.n = c.n /\ d.told = c.told /\ d.read = "error"
    BY <1>4, <1>c DEF Calls
  <2> QED
    BY <1>u, <1>4, <2>1
<1>5. ASSUME NEW read \in {"quarantined", "not_quarantined", "unknown", "error"}, NEW d,
             d = [c EXCEPT !.pc = "settled", !.r = None, !.read = read], Update(op, d)
      PROVE  /\ call' \in [Operations -> Calls] /\ call'[op].pc = "settled"
             /\ call'[op].n = c.n /\ call'[op].told = c.told /\ call'[op].read = read
  <2>1. d \in Calls /\ d.pc = "settled" /\ d.n = c.n /\ d.told = c.told /\ d.read = read
    BY <1>5, <1>c DEF Calls
  <2> QED
    BY <1>u, <1>5, <2>1
<1>6. ASSUME NEW told \in Final \cup {"unknown", "error"}, NEW pc \in {"settled", "ready"}, NEW d,
             d = [c EXCEPT !.pc = pc, !.r = None, !.told = told], Update(op, d)
      PROVE  /\ call' \in [Operations -> Calls] /\ call'[op].pc = pc
             /\ call'[op].n = c.n /\ call'[op].told = told /\ call'[op].read = c.read
  <2>1. d \in Calls /\ d.pc = pc /\ d.n = c.n /\ d.told = told /\ d.read = c.read
    BY <1>6, <1>c DEF Calls
  <2> QED
    BY <1>u, <1>6, <2>1
<1>7. CASE \E n \in Nodes : Ask(op, n)
  BY <1>1, <1>7
<1>8. CASE Refused(op)
  BY <1>2, <1>4, <1>8 DEF Refused
<1>9. CASE Timeout(op)
  <2>1. CASE c.pc = "applying"
    BY <1>3, <1>9, <2>1 DEF Timeout
  <2>2. CASE c.pc = "reading"
    BY <1>5, <1>9, <2>2 DEF Timeout
  <2> QED
    BY <1>9, <2>1, <2>2 DEF Timeout
<1>10. CASE Receive(op)
  <2> DEFINE told == Told(h[c.r].result)
  <2>1. /\ c.pc = "applying" /\ At(c.r, "done")
        /\ Update(op, [c EXCEPT !.pc = IF told \in Final THEN "settled" ELSE "ready",
                                !.r = None, !.told = told])
    BY <1>10 DEF Receive
  <2>2. told \in Final \cup {"unknown", "error"}
    BY ToldCases
  <2> HIDE DEF told
  <2>3. /\ call' \in [Operations -> Calls] /\ call'[op].told = told
        /\ call'[op].pc = IF told \in Final THEN "settled" ELSE "ready"
        /\ call'[op].n = c.n /\ call'[op].read = c.read
    <3>1. CASE told \in Final
      BY <1>6, <2>1, <2>2, <3>1
    <3>2. CASE told \notin Final
      BY <1>6, <2>1, <2>2, <3>2
    <3> QED BY <3>1, <3>2
  <2> QED
    BY <2>1, <2>3 DEF told
<1>11. CASE ReceiveRead(op)
  <2> DEFINE read == ReadBackOf(h[c.r].result)
  <2>1. /\ c.pc = "reading" /\ At(c.r, "done")
        /\ Update(op, [c EXCEPT !.pc = "settled", !.r = None, !.read = read])
    BY <1>11 DEF ReceiveRead
  <2>2. read \in {"quarantined", "not_quarantined", "unknown", "error"}
    BY ReadCases
  <2> HIDE DEF read
  <2> QED
    BY <1>5, <2>1, <2>2 DEF read
<1> QED
  BY <1>7, <1>8, <1>9, <1>10, <1>11 DEF Moves

-----------------------------------------------------------------------------
(* Requests at work. *)

\* Nothing takes up an operation but the call for it, when nothing is at work on it.
LEMMA WorksSince ==
  ASSUME Inductive, call \in [Operations -> Calls], ~Overlap, [BridgeNext]_bridgeVars,
         NEW op \in Operations, NEW q \in Requests, Works(q, op)'
  PROVE  \/ Works(q, op)
         \/ Send(op, q) /\ \A p \in Requests : ~Works(p, op)
<1>1. CASE h'[q] = h[q]
  BY <1>1 DEF Works, InFlight
<1>2. ASSUME NEW r \in Requests, Work(r) PROVE Works(q, op)
  <2>1. CASE q = r
    BY <1>2, <2>1, WorkFields DEF Work, Works
  <2>2. CASE q # r
    BY <1>1, <1>2, <2>2, WorkFields DEF Work, Works, InFlight
  <2> QED BY <2>1, <2>2
<1>3. ASSUME NEW o \in Operations, NEW r \in Requests, Send(o, r) \/ SendRead(o, r), h'[q] # h[q]
      PROVE  Send(op, q) /\ \A p \in Requests : ~Works(p, op)
  <2>1. q = r /\ TypeOK
    BY <1>3, SendFrame DEF Inductive
  <2>2. h'[q].op = op
    BY DEF Works
  <2>3. ~SendRead(o, r)
    BY <2>1, <2>2, SendFrame, NoneOperation
  <2>4. Send(op, q)
    BY <1>3, <2>1, <2>2, <2>3, SendFrame
  <2> QED
    BY <2>4 DEF Send, Works
<1>4. ASSUME RestartDrive PROVE FALSE
  BY <1>4, RestartFrame DEF Works, InFlight, Idle
<1>5. CASE PublishFile
  BY <1>1, <1>5 DEF PublishFile, Publish
<1>6. ASSUME NEW o \in Operations, Moves(o) PROVE h'[q] = h[q]
  BY <1>6, MovesFrame DEF vars
<1>7. CASE UNCHANGED <<vars, call>>
  BY <1>1, <1>7 DEF vars
<1> QED
  BY <1>1, <1>2, <1>3, <1>4, <1>5, <1>6, <1>7, BridgeCases DEF Moves

\* So Drive is never at work twice on one operation.
LEMMA OneWorkerStep ==
  ASSUME Inductive, call \in [Operations -> Calls], OneWorker, ~Overlap, [BridgeNext]_bridgeVars
  PROVE  OneWorker'
<1> SUFFICES ASSUME NEW op \in Operations, NEW p \in Requests, NEW q \in Requests,
                    Works(p, op)', Works(q, op)', p # q
             PROVE  FALSE
  BY DEF OneWorker
<1>1. CASE Works(p, op) /\ Works(q, op)
  BY <1>1 DEF OneWorker
<1>2. ASSUME NEW x \in Requests, NEW y \in Requests, x # y, Send(op, x), Works(y, op)',
             \A z \in Requests : ~Works(z, op)
      PROVE  FALSE
  <2>1. h'[y] = h[y]
    BY <1>2, SendFrame DEF Inductive
  <2> QED
    BY <1>2, <2>1 DEF Works, InFlight
<1> QED
  BY <1>1, <1>2, WorksSince

\* An operation does not get a node unless it has a request at work on it.
LEMMA HeldSinceWork ==
  ASSUME Inductive, [Next]_vars, NEW n \in Nodes, NEW op, HeldBy(n, op)', ~HeldBy(n, op)
  PROVE  \E q \in Requests : Works(q, op) /\ At(q, "write") /\ h[q].n = n
<1>1. PICK q \in Requests : WritePending(q) /\ h[q].n = n /\ h[q].op = op
  BY HeldSince
<1> QED
  BY <1>1 DEF Works, WritePending, At, InFlight

LEMMA AnswerFields ==
  ASSUME Inductive, NEW r \in Requests, NEW res, Answer(r, res)
  PROVE  h'[r].pc = "done" /\ h'[r].result = res /\ h'[r].n = h[r].n /\ h'[r].op = h[r].op
BY DEF Answer, Become, Inductive, TypeOK, Request

\* The bridge publishes files and removes the objects of quarantined ones.
LEMMA ObjectsFrame ==
  ASSUME [BridgeNext]_bridgeVars
  PROVE  \/ objects' = objects
         \/ \E r \in Requests : RemoveObject(r)
         \/ \E n \in Nodes, p \in Payloads : Publish(n, p)
<1>1. ASSUME NEW r \in Requests, Work(r) PROVE objects' = objects \/ RemoveObject(r)
  BY <1>1 DEF Work, dirs, ApplyStep, ReadState, CheckQuarantine, CheckObject, CreateExclusive,
     WritePending, SyncPending, Reread, StatObject, StatQuarantine, LinkPayload, FinishState,
     ReadStep, ReadBack, ReadAbsent, ReadPayload, ReadObject
<1>2. ASSUME NEW op \in Operations, NEW r \in Requests, Send(op, r) \/ SendRead(op, r)
      PROVE  objects' = objects
  BY <1>2 DEF Send, SendRead, Apply, Read, Start, dirs
<1>3. RestartDrive => objects' = objects
  BY DEF RestartDrive, Restart, dirs
<1>4. ASSUME NEW op \in Operations,
             \/ \E n \in Nodes : Ask(op, n)
             \/ Refused(op) \/ Receive(op) \/ Timeout(op) \/ ReceiveRead(op)
      PROVE  objects' = objects
  BY <1>4 DEF Ask, Refused, Receive, Timeout, ReceiveRead, vars, dirs
<1>5. UNCHANGED <<vars, call>> => objects' = objects
  BY DEF vars, dirs
<1> QED
  BY <1>1, <1>2, <1>3, <1>4, <1>5, BridgeCases DEF PublishFile

\* What a request relies on is not disturbed by the others: they work on other
\* operations, and only the holder of a node touches its object.
LEMMA UntouchedWorker ==
  ASSUME Inductive, OneWorker, \A q \in Requests : WorkerOK(q), [Next]_vars,
         [BridgeNext]_bridgeVars, NEW x \in Requests, h'[x] = h[x]
  PROVE  WorkerOK(x)'
<1> DEFINE n == h[x].n
           op == h[x].op
<1>t. TypeOK /\ RequestsOK /\ WorkerOK(x)
  BY DEF Inductive
<1>1. ASSUME h[x].pc \in {"checkquar", "checkobj", "claim"} PROVE ~HeldBy(n, op)'
  <2>1. n \in Nodes /\ op \in Operations /\ Works(x, op)
    BY <1>1, <1>t DEF RequestsOK, RequestKnown, ApplyPCs, Works, InFlight
  <2>2. ~HeldBy(n, op)
    BY <1>1, <1>t DEF WorkerOK
  <2> SUFFICES ASSUME HeldBy(n, op)' PROVE FALSE
    OBVIOUS
  <2>3. PICK m \in Nodes, o \in Operations : m = n /\ o = op
    BY <2>1
  <2>4. HeldBy(m, o)' /\ ~HeldBy(m, o)
    BY <2>2, <2>3 DEF HeldBy, Claimed
  <2>5. PICK q \in Requests : Works(q, o) /\ At(q, "write")
    BY <2>4, HeldSinceWork
  <2>6. q = x
    BY <2>1, <2>3, <2>5 DEF OneWorker
  <2> QED
    BY <1>1, <2>5, <2>6 DEF At
<1>2. ASSUME \/ At(x, "statquar") /\ h[x].objectExists
             \/ h[x].pc \in {"link", "remove"}
      PROVE  objects'[n] # None
  <2>1. n \in Nodes /\ op \in Operations /\ Works(x, op) /\ HeldBy(n, op)
    BY <1>2, <1>t DEF RequestsOK, RequestKnown, ApplyPCs, Works, InFlight, HolderHolds, HolderPCs, At
  <2>2. objects[n] # None
    BY <1>2, <1>t DEF WorkerOK
  <2>3. ASSUME NEW q \in Requests, RemoveObject(q) PROVE h[q].n # n
    <3> SUFFICES ASSUME h[q].n = n PROVE FALSE
      OBVIOUS
    <3>1. HeldBy(n, h[q].op) /\ h[q].pc = "remove"
      BY <2>3, <1>t DEF RemoveObject, RequestsOK, HolderHolds, HolderPCs, At
    <3>2. h[q].op = op
      BY <2>1, <3>1 DEF HeldBy
    <3>3. q = x
      BY <2>1, <3>1, <3>2 DEF OneWorker, Works, InFlight
    <3>4. CASE Goto(q, "finish")
      BY <3>1, <3>3, <3>4, GotoFields
    <3>5. CASE Answer(q, "not_found")
      BY <3>1, <3>3, <3>5, AnswerFields
    <3> QED
      BY <2>3, <3>4, <3>5 DEF RemoveObject
  <2>4. ASSUME NEW q \in Requests, RemoveObject(q) PROVE objects'[n] # None
    BY <1>t, <2>1, <2>2, <2>3, <2>4 DEF RemoveObject, TypeOK
  <2>5. ASSUME NEW m \in Nodes, NEW p \in Payloads, Publish(m, p) PROVE objects'[n] # None
    BY <1>t, <2>1, <2>2, <2>5, NoneAssumption DEF Publish, TypeOK
  <2> QED
    BY <2>2, <2>4, <2>5, ObjectsFrame
<1> QED
  BY <1>1, <1>2 DEF WorkerOK, At, HeldBy, Claimed

\* A request that took a step: it goes on to claim a node only after finding it
\* free, and to move an object only after finding it there.
LEMMA MovedWorker ==
  ASSUME Inductive, [Next]_vars, NEW x \in Requests, WorkerOK(x), ApplyStep(x) \/ ReadStep(x)
  PROVE  WorkerOK(x)'
<1>t. TypeOK /\ RequestsOK /\ h[x] \in Request
  BY DEF Inductive, TypeOK
<1>i. h'[x].n = h[x].n /\ h'[x].op = h[x].op /\ InFlight(x) /\ h[x].n \in Nodes
  BY <1>t, WorkFields DEF RequestsOK, RequestKnown, InFlight
\* At most places nothing is asked of a request.
<1>f. ASSUME h'[x].pc \notin {"checkquar", "checkobj", "claim", "statquar", "link", "remove"}
      PROVE  WorkerOK(x)'
  BY <1>f DEF WorkerOK, At
<1>a. ASSUME NEW res, Answer(x, res) PROVE WorkerOK(x)'
  BY <1>a, <1>f, AnswerFields
<1>m. ASSUME Matching(x, "statobj") PROVE WorkerOK(x)'
  <2>1. CASE Answer(x, "conflict")
    BY <1>a, <2>1
  <2>2. CASE Become(x, [h[x] EXCEPT !.pc = "statobj", !.status = qstate[h[x].n].status])
    <3>1. h'[x].pc = "statobj"
      BY <2>2, <1>t DEF Become, TypeOK, Request
    <3> QED
      BY <1>f, <3>1
  <2> QED
    BY <1>m, <2>1, <2>2 DEF Matching
<1>g. ASSUME NEW pc, Goto(x, pc),
             pc \notin {"checkquar", "checkobj", "claim", "statquar", "link", "remove"}
      PROVE  WorkerOK(x)'
  BY <1>f, <1>g, GotoFields
\* The node is free, or has another holder, and nothing was written.
<1>h. ASSUME NEW pc \in {"checkquar", "checkobj", "claim"}, Goto(x, pc), qstate' = qstate,
             ~HeldBy(h[x].n, h[x].op)
      PROVE  WorkerOK(x)'
  <2>1. h'[x].pc = pc
    BY <1>h, GotoFields
  <2> QED
    BY <1>h, <1>i, <2>1 DEF WorkerOK, At, HeldBy, Claimed
\* The object is there, and nothing was removed.
<1>o. ASSUME NEW pc \in {"link", "remove"}, Goto(x, pc), objects' = objects,
             objects[h[x].n] # None
      PROVE  WorkerOK(x)'
  <2>1. h'[x].pc = pc
    BY <1>o, GotoFields
  <2> QED
    BY <1>o, <1>i, <2>1 DEF WorkerOK, At
<1>1. CASE ReadState(x)
  <2>1. CASE qstate[h[x].n] = None /\ Goto(x, "checkquar")
    BY <1>1, <1>h, <2>1 DEF ReadState, HeldBy, Claimed
  <2> QED
    BY <1>1, <1>a, <1>m, <2>1 DEF ReadState
<1>2. CASE CheckQuarantine(x)
  <2>1. ~HeldBy(h[x].n, h[x].op) /\ qstate' = qstate
    BY <1>2 DEF CheckQuarantine, At, WorkerOK
  <2> QED
    BY <1>2, <1>a, <1>h, <2>1 DEF CheckQuarantine
<1>3. CASE CheckObject(x)
  <2>1. ~HeldBy(h[x].n, h[x].op) /\ qstate' = qstate
    BY <1>3 DEF CheckObject, At, WorkerOK
  <2> QED
    BY <1>3, <1>a, <1>h, <2>1 DEF CheckObject
<1>4. CASE CreateExclusive(x) \/ SyncPending(x)
  BY <1>4, <1>g DEF CreateExclusive, SyncPending
<1>5. CASE WritePending(x)
  <2>1. h'[x].pc = "sync"
    BY <1>5, <1>t DEF WritePending, Become, TypeOK, Request
  <2> QED
    BY <1>f, <2>1
<1>6. CASE Reread(x)
  BY <1>6, <1>a, <1>m DEF Reread
<1>7. CASE StatObject(x)
  <2>1. PICK there \in exists(objects, x) :
          Become(x, [h[x] EXCEPT !.pc = "statquar", !.objectExists = there])
    BY <1>7 DEF StatObject
  <2>2. h'[x].pc = "statquar" /\ h'[x].objectExists = there /\ objects' = objects
    BY <1>7, <2>1, <1>t DEF StatObject, Become, TypeOK, Request, dirs
  <2>3. there => objects[h[x].n] # None
    BY DEF exists, There
  <2> QED
    BY <1>i, <2>2, <2>3 DEF WorkerOK, At
<1>8. CASE StatQuarantine(x)
  <2>1. objects' = objects /\ (h[x].objectExists => objects[h[x].n] # None)
    BY <1>8 DEF StatQuarantine, dirs, WorkerOK, At
  <2>2. CASE \E res : Answer(x, res)
    BY <1>a, <2>2
  <2>3. CASE ~h[x].objectExists /\ Goto(x, "finish")
    BY <1>g, <2>3
  <2>4. CASE h[x].objectExists /\ (Goto(x, "remove") \/ Goto(x, "link"))
    BY <1>o, <2>1, <2>4
  <2> QED
    BY <1>8, <2>2, <2>3, <2>4 DEF StatQuarantine
<1>9. CASE LinkPayload(x)
  BY <1>9, <1>a, <1>o DEF LinkPayload, There
<1>10. CASE RemoveObject(x)
  BY <1>10, <1>a, <1>g DEF RemoveObject
<1>11. CASE FinishState(x)
  BY <1>11, <1>a DEF FinishState
<1>12. CASE ReadStep(x)
  BY <1>12, <1>f, WorkFields DEF ReadPCs
<1> QED
  BY <1>1, <1>2, <1>3, <1>4, <1>5, <1>6, <1>7, <1>8, <1>9, <1>10, <1>11, <1>12 DEF ApplyStep


\* Every request goes on relying on what it found.
LEMMA WorkersStep ==
  ASSUME Inductive, call \in [Operations -> Calls], OneWorker, \A q \in Requests : WorkerOK(q),
         [Next]_vars, [BridgeNext]_bridgeVars, NEW x \in Requests
  PROVE  WorkerOK(x)'
<1>1. CASE h'[x] = h[x]
  BY <1>1, UntouchedWorker
<1>2. ASSUME h'[x].pc \in {"idle", "read", "rstate"} PROVE WorkerOK(x)'
  BY <1>2 DEF WorkerOK, At
<1>3. ASSUME NEW r \in Requests, Work(r) PROVE WorkerOK(x)'
  <2>1. CASE x = r
    BY <1>3, <2>1, MovedWorker DEF Work
  <2>2. CASE x # r
    BY <1>1, <1>3, <2>2, WorkFields DEF Work
  <2> QED BY <2>1, <2>2
<1>4. ASSUME NEW op \in Operations, NEW r \in Requests, Send(op, r) \/ SendRead(op, r)
      PROVE  WorkerOK(x)'
  <2>1. TypeOK
    BY DEF Inductive
  <2>2. CASE x = r
    BY <1>2, <1>4, <2>1, <2>2, SendFrame
  <2>3. CASE x # r
    BY <1>1, <1>4, <2>1, <2>3, SendFrame
  <2> QED BY <2>2, <2>3
<1>5. CASE RestartDrive
  BY <1>2, <1>5, RestartFrame DEF Idle
<1>6. CASE PublishFile
  BY <1>1, <1>6 DEF PublishFile, Publish
<1>7. ASSUME NEW op \in Operations, Moves(op) PROVE h'[x] = h[x]
  BY <1>7, MovesFrame DEF vars
<1>8. CASE UNCHANGED <<vars, call>>
  BY <1>1, <1>8 DEF vars
<1> QED
  BY <1>1, <1>3, <1>4, <1>5, <1>6, <1>7, <1>8, BridgeCases DEF Moves

\* An operation is told that it failed only when it does not hold the node.
LEMMA DeniedNotHeld ==
  ASSUME Inductive, NEW x \in Requests, WorkerOK(x), ApplyStep(x),
         h'[x].pc = "done", h'[x].result \in {"conflict", "not_found"}
  PROVE  ~HeldBy(h[x].n, h[x].op) /\ qstate' = qstate
<1>g. ASSUME NEW pc, Goto(x, pc), pc # "done" PROVE FALSE
  BY <1>g, GotoFields
<1>a. ASSUME NEW res, Answer(x, res), res \notin {"conflict", "not_found"} PROVE FALSE
  BY <1>a, AnswerFields
<1>m. ASSUME Matching(x, "statobj") PROVE qstate[h[x].n].op # h[x].op
  <2>1. ASSUME Become(x, [h[x] EXCEPT !.pc = "statobj", !.status = qstate[h[x].n].status])
        PROVE  FALSE
    BY <2>1 DEF Become, Inductive, TypeOK, Request
  <2> QED
    BY <1>m, <2>1 DEF Matching
<1>1. CASE ReadState(x)
  BY <1>1, <1>g, <1>a, <1>m DEF ReadState, HeldBy
<1>2. CASE CheckQuarantine(x)
  BY <1>2, <1>g, <1>a DEF CheckQuarantine
<1>3. CASE CheckObject(x)
  BY <1>3 DEF CheckObject, At, WorkerOK
<1>4. CASE CreateExclusive(x) \/ SyncPending(x)
  BY <1>4, <1>g DEF CreateExclusive, SyncPending
<1>5. CASE WritePending(x)
  BY <1>5 DEF WritePending, Become, Inductive, TypeOK, Request
<1>6. CASE Reread(x)
  BY <1>6, <1>a, <1>m DEF Reread, HeldBy
<1>7. CASE StatObject(x)
  BY <1>7 DEF StatObject, Become, Inductive, TypeOK, Request
<1>8. CASE StatQuarantine(x)
  BY <1>8, <1>g, <1>a DEF StatQuarantine
<1>9. CASE LinkPayload(x)
  BY <1>9, <1>g DEF LinkPayload, There, At, WorkerOK
<1>10. CASE RemoveObject(x)
  BY <1>10, <1>g DEF RemoveObject, There, At, WorkerOK
<1>11. CASE FinishState(x)
  BY <1>11, <1>a DEF FinishState
<1> QED
  BY <1>1, <1>2, <1>3, <1>4, <1>5, <1>6, <1>7, <1>8, <1>9, <1>10, <1>11 DEF ApplyStep

\* A node that is on record as quarantined is not found free.
LEMMA ReadNotFree ==
  ASSUME Inductive, NEW x \in Requests, ReadStep(x), IsQuarantined(h[x].n), ~At(x, "rabsent")
  PROVE  /\ h'[x].pc # "rabsent"
         /\ h'[x].pc = "done" => h'[x].result # "not_quarantined"
<1>g. ASSUME NEW pc, Goto(x, pc), pc \in {"rquar", "robj"}
      PROVE  h'[x].pc \notin {"rabsent", "done"}
  BY <1>g, GotoFields
<1>a. ASSUME NEW res, Answer(x, res), res # "not_quarantined"
      PROVE  h'[x].pc = "done" /\ h'[x].result # "not_quarantined"
  BY <1>a, AnswerFields
<1>1. CASE ReadBack(x)
  BY <1>1, <1>g, <1>a DEF ReadBack, IsQuarantined, Claimed
<1>2. CASE ReadPayload(x) \/ ReadObject(x)
  BY <1>2, <1>g, <1>a DEF ReadPayload, ReadObject
<1> QED
  BY <1>1, <1>2 DEF ReadStep, ReadAbsent, At

-----------------------------------------------------------------------------
(* Calls. *)

\* What was told about one operation.
TrueOf(op) ==
  LET c == call[op]
  IN /\ c.told \in {"applied", "already_applied"} =>
          /\ HeldBy(c.n, op) /\ IsQuarantined(c.n)
          /\ quar[c.n] # None /\ objects[c.n] = None
          /\ c.read # "not_quarantined"
     /\ c.told = "failed" => ~HeldBy(c.n, op)
     /\ c.read = "quarantined" => IsQuarantined(c.n)

LEMMA ToldIsTrueOf == ToldIsTrue <=> \A op \in Operations : TrueOf(op)
BY DEF ToldIsTrue, TrueOf

LEMMA ToldIsTrueOfNext == ToldIsTrue' <=> \A op \in Operations : TrueOf(op)'
BY DEF ToldIsTrue, TrueOf

\* The calls keep their type.
LEMMA CallsStep ==
  ASSUME TypeOK, call \in [Operations -> Calls], [BridgeNext]_bridgeVars
  PROVE  call' \in [Operations -> Calls]
<1>1. ASSUME NEW r \in Requests, Work(r) PROVE call' = call
  BY <1>1 DEF Work
<1>2. PublishFile => call' = call
  BY DEF PublishFile
<1> QED
  BY <1>1, <1>2, SendFrame, RestartFrame, MoveFields, BridgeCases DEF Moves

\* How one call changes: not at all, by the start of a request, by a restart,
\* or by a move of its own.
LEMMA CallCases ==
  ASSUME TypeOK, call \in [Operations -> Calls], [BridgeNext]_bridgeVars, NEW op \in Operations
  PROVE  \/ call'[op] = call[op] /\ ~RestartDrive
         \/ \E r \in Requests : Send(op, r) \/ SendRead(op, r)
         \/ RestartDrive
         \/ Moves(op)
<1>1. ASSUME NEW r \in Requests, Work(r) PROVE call' = call
  BY <1>1 DEF Work
<1>2. PublishFile => call' = call
  BY DEF PublishFile
<1>3. ASSUME NEW o \in Operations, NEW r \in Requests, Send(o, r) \/ SendRead(o, r), o # op
      PROVE  call'[op] = call[op]
  BY <1>3, SendFrame
<1>4. ASSUME NEW o \in Operations, Moves(o), o # op PROVE call'[op] = call[op]
  BY <1>4, MovesFrame
<1> QED
  BY <1>1, <1>2, <1>3, <1>4, BridgeCases DEF Moves

\* The requests that calls wait for are left alone by all steps but their own
\* and a restart.
LEMMA AwaitedFrame ==
  ASSUME Inductive, call \in [Operations -> Calls], [BridgeNext]_bridgeVars,
         NEW op \in Operations, call[op].r \in Requests, ~RestartDrive,
         call'[op] = call[op]
  PROVE  h'[call[op].r] = h[call[op].r] \/ Work(call[op].r)
<1> DEFINE x == call[op].r
<1>t. TypeOK
  BY DEF Inductive
<1>1. ASSUME NEW r \in Requests, Work(r), r # x PROVE h'[x] = h[x]
  BY <1>1, WorkFields DEF Work
<1>2. ASSUME NEW o \in Operations, NEW r \in Requests, Send(o, r) \/ SendRead(o, r)
      PROVE  h'[x] = h[x]
  <2>1. r # x
    <3>1. ~Awaited(r)
      BY <1>2 DEF Send, SendRead
    <3> QED
      BY <3>1 DEF Awaited
  <2> QED
    BY <1>2, <1>t, <2>1, SendFrame
<1>3. PublishFile => h' = h
  BY DEF PublishFile, Publish
<1>4. ASSUME NEW o \in Operations, Moves(o) PROVE h' = h
  BY <1>4, MovesFrame DEF vars
<1>5. UNCHANGED <<vars, call>> => h' = h
  BY DEF vars
<1> QED
  BY <1>1, <1>2, <1>3, <1>4, <1>5, BridgeCases DEF Moves

\* A call goes on waiting for the one request that carries it.
LEMMA WaitsStep ==
  ASSUME Inductive, call \in [Operations -> Calls], \A q \in Requests : WorkerOK(q),
         NEW op \in Operations, Waits(op), Settles(op), TrueOf(op),
         ~Overlap, [Next]_vars, [BridgeNext]_bridgeVars
  PROVE  Waits(op)'
<1>t. TypeOK /\ TypeOK' /\ call' \in [Operations -> Calls]
  BY TypeStep, CallsStep DEF Inductive
<1>v. ASSUME call'[op].pc \notin {"applying", "reading"} PROVE Waits(op)'
  BY <1>v DEF Waits
<1>1. CASE Moves(op)
  <2>1. call'[op].pc \in {"ready", "settled"}
    BY <1>1, MoveFields
  <2> QED BY <1>v, <2>1
<1>2. CASE RestartDrive
  <2>1. call'[op].pc \in {"idle", "ready", "settled"}
    BY <1>2, RestartFrame DEF Calls
  <2> QED BY <1>v, <2>1
<1>3. ASSUME NEW r \in Requests, Send(op, r) PROVE Waits(op)'
  <2>1. /\ call'[op].pc = "applying" /\ call'[op].r = r /\ h'[r].n = call'[op].n
        /\ h'[r].op = op /\ h'[r].pc = "read"
    BY <1>3, <1>t, SendFrame
  <2>2. ASSUME NEW q \in Requests, Works(q, op)' PROVE q = r
    <3>0. ~Works(q, op)
      BY <1>3 DEF Send, Works
    <3>1. Send(op, q)
      BY <2>2, <3>0, WorksSince
    <3> QED
      BY <1>t, <2>1, <3>1, SendFrame
  <2> QED
    BY <2>1, <2>2 DEF Waits, At, ApplyPCs
<1>4. ASSUME NEW r \in Requests, SendRead(op, r) PROVE Waits(op)'
  <2>1. /\ call'[op].pc = "reading" /\ call'[op].r = r /\ h'[r].n = call'[op].n
        /\ h'[r].pc = "rstate"
    BY <1>4, <1>t, SendFrame
  <2> QED
    BY <2>1 DEF Waits, At, ReadPCs
<1>5. CASE call'[op] = call[op] /\ ~RestartDrive
  <2>n. call[op].pc # "idle" => call[op].n \in Nodes
    BY DEF Settles
  <2>1. CASE call[op].pc = "applying"
    <3> DEFINE x == call[op].r
               n == call[op].n
    <3>w. /\ x \in Requests /\ h[x].pc \in {"done"} \cup ApplyPCs
          /\ h[x].n = n /\ h[x].op = op
          /\ \A q \in Requests : Works(q, op) => q = x
          /\ At(x, "done") /\ h[x].result \in {"conflict", "not_found"} => ~HeldBy(n, op)
      BY <2>1 DEF Waits
    <3>1. ASSUME NEW q \in Requests, Works(q, op)' PROVE q = x
      <4>1. ~Send(op, q)
        BY <2>1 DEF Send
      <4> QED BY <3>w, <3>1, <4>1, WorksSince
    <3>2. PICK y \in Requests, m \in Nodes : y = x /\ m = n
      BY <2>1, <2>n, <3>w
    <3>3. CASE h'[x] = h[x]
      <4>1. ASSUME h[x].pc = "done", h[x].result \in {"conflict", "not_found"}
            PROVE  ~HeldBy(m, op)'
        <5>1. ~HeldBy(m, op)
          BY <4>1, <3>2, <3>w DEF At
        <5> SUFFICES ASSUME HeldBy(m, op)' PROVE FALSE
          OBVIOUS
        <5>2. PICK q \in Requests : Works(q, op) /\ At(q, "write")
          BY <5>1, HeldSinceWork
        <5> QED
          BY <4>1, <5>2, <3>w DEF At
      <4>2. h'[x].pc = "done" /\ h'[x].result \in {"conflict", "not_found"} => ~HeldBy(n, op)'
        BY <1>5, <3>2, <3>3, <4>1 DEF HeldBy, Claimed
      <4> QED
        BY <1>5, <2>1, <3>1, <3>3, <3>w, <4>2 DEF Waits, At
    <3>4. CASE Work(x)
      <4>1. ApplyStep(y)
        BY <3>2, <3>4, <3>w, WorkFields DEF Work, ReadPCs, ApplyPCs, InFlight
      <4>2. h'[y].n = h[y].n /\ h'[y].op = h[y].op /\ h'[y].pc \in {"done"} \cup ApplyPCs
        BY <4>1, WorkFields
      <4>3. h'[y].pc = "done" /\ h'[y].result \in {"conflict", "not_found"}
              => ~HeldBy(m, op) /\ qstate' = qstate
        BY <3>2, <3>w, <4>1, DeniedNotHeld
      <4>4. h'[y].pc = "done" /\ h'[y].result \in {"conflict", "not_found"} => ~HeldBy(m, op)'
        BY <4>3 DEF HeldBy, Claimed
      <4>5. h'[x].pc = "done" /\ h'[x].result \in {"conflict", "not_found"} => ~HeldBy(n, op)'
        BY <1>5, <3>2, <4>4 DEF HeldBy, Claimed
      <4> QED
        BY <1>5, <2>1, <3>1, <3>2, <3>w, <4>2, <4>5 DEF Waits, At
    <3> QED
      BY <1>5, <3>w, <3>3, <3>4, AwaitedFrame
  <2>2. CASE call[op].pc = "reading"
    <3> DEFINE x == call[op].r
               n == call[op].n
    <3>w. /\ x \in Requests /\ h[x].pc \in {"done"} \cup ReadPCs /\ h[x].n = n
          /\ call[op].told \in {"applied", "already_applied"} =>
               ~At(x, "rabsent") /\ (At(x, "done") => h[x].result # "not_quarantined")
      BY <2>2 DEF Waits
    <3>1. CASE h'[x] = h[x]
      BY <1>5, <2>2, <3>1, <3>w DEF Waits, At
    <3>2. CASE Work(x)
      <4>p. PICK y \in Requests : y = x
        BY <3>w
      <4>1. ReadStep(y)
        BY <3>2, <4>p, <3>w, WorkFields DEF Work, ReadPCs, ApplyPCs, InFlight
      <4>2. h'[y].n = h[y].n /\ h'[y].pc \in {"done"} \cup ReadPCs
        BY <4>1, WorkFields
      <4>3. ASSUME call[op].told \in {"applied", "already_applied"}
            PROVE  h'[y].pc # "rabsent" /\ (h'[y].pc = "done" => h'[y].result # "not_quarantined")
        <5>1. IsQuarantined(h[y].n) /\ ~At(y, "rabsent")
          BY <4>3, <4>p, <3>w DEF TrueOf
        <5> QED BY <4>1, <5>1, ReadNotFree
      <4> QED
        BY <1>5, <2>2, <3>w, <4>p, <4>2, <4>3 DEF Waits, At
    <3> QED
      BY <1>5, <3>w, <3>1, <3>2, AwaitedFrame
  <2> QED
    BY <1>5, <1>v, <2>1, <2>2
<1> QED
  BY <1>t, <1>1, <1>2, <1>3, <1>4, <1>5, CallCases

\* A final answer ends the work on an operation.
LEMMA SettlesStep ==
  ASSUME Inductive, call \in [Operations -> Calls], NEW op \in Operations, Waits(op), Settles(op),
         ~Overlap, [BridgeNext]_bridgeVars
  PROVE  Settles(op)'
<1>t. TypeOK
  BY DEF Inductive
<1>s. /\ call[op].pc # "idle" => call[op].n \in Nodes
      /\ call[op].pc \in {"idle", "ready", "applying"} =>
           call[op].told \notin Final /\ call[op].read = "none"
      /\ call[op].pc \in {"settled", "reading"} => \A q \in Requests : ~Works(q, op)
      /\ call[op] \in Calls
  BY DEF Settles
\* Nothing is at work on the operation once its call is settled.
<1>w. ASSUME call'[op].pc \in {"settled", "reading"},
             \/ call[op].pc \in {"settled", "reading"}
             \/ call[op].pc = "applying" /\ At(call[op].r, "done")
      PROVE  \A q \in Requests : ~Works(q, op)'
  <2> SUFFICES ASSUME NEW q \in Requests, Works(q, op)' PROVE FALSE
    OBVIOUS
  <2>1. ~Send(op, q)
    BY <1>w, <1>t, SendFrame
  <2>2. Works(q, op)
    BY <2>1, WorksSince
  <2>3. call[op].pc = "applying" => q = call[op].r
    BY <2>2 DEF Waits
  <2> QED
    BY <1>w, <1>s, <2>2, <2>3 DEF Works, InFlight, At
<1>1. CASE call'[op] = call[op]
  <2>1. call'[op].pc \in {"settled", "reading"} => \A q \in Requests : ~Works(q, op)'
    BY <1>1, <1>w
  <2> QED
    BY <1>1, <1>s, <2>1 DEF Settles
<1>2. ASSUME NEW r \in Requests, Send(op, r) PROVE Settles(op)'
  <2>1. /\ call[op].pc = "ready" /\ call'[op].pc = "applying" /\ call'[op].n = call[op].n
        /\ call'[op].told = call[op].told /\ call'[op].read = call[op].read
    BY <1>2, <1>t, SendFrame
  <2> QED
    BY <1>s, <2>1 DEF Settles
<1>3. ASSUME NEW r \in Requests, SendRead(op, r) PROVE Settles(op)'
  <2>1. /\ call[op].pc = "settled" /\ call'[op].pc = "reading" /\ call'[op].n = call[op].n
    BY <1>3, <1>t, SendFrame
  <2>2. \A q \in Requests : ~Works(q, op)'
    BY <1>w, <2>1
  <2> QED
    BY <1>s, <2>1, <2>2 DEF Settles
<1>4. CASE RestartDrive
  <2>1. \A q \in Requests : ~Works(q, op)'
    BY <1>4, RestartFrame DEF Works, InFlight, Idle
  <2>2. /\ call'[op].n = call[op].n
        /\ call'[op].pc = "idle" => call[op].pc = "idle"
        /\ call[op].pc = "idle" => call'[op].pc = "idle"
        /\ call'[op].pc \in {"idle", "ready", "applying"} =>
             /\ call[op].pc \in {"idle", "ready", "applying"}
             /\ call'[op].told \in {call[op].told, "error"} /\ call'[op].read = call[op].read
    BY <1>4, <1>s, RestartFrame DEF Calls
  <2> QED
    BY <1>s, <2>1, <2>2 DEF Settles, Final
<1>5. CASE Moves(op)
  <2>1. CASE call'[op].pc = "ready"
    <3>1. /\ call'[op].n \in Nodes /\ call'[op].told \notin Final
          /\ call'[op].read = "none"
      BY <1>5, <1>s, <2>1, MoveFields DEF Final
    <3> QED
      BY <2>1, <3>1 DEF Settles
  <2>2. CASE call'[op].pc = "settled"
    <3>1. /\ call'[op].n = call[op].n /\ call[op].pc # "idle"
          /\ \/ call[op].pc \in {"settled", "reading"}
             \/ call[op].pc = "applying" /\ At(call[op].r, "done")
      BY <1>5, <2>2, MoveFields
    <3>2. \A q \in Requests : ~Works(q, op)'
      BY <1>w, <2>2, <3>1
    <3> QED
      BY <1>s, <2>2, <3>1, <3>2 DEF Settles
  <2> QED
    BY <1>5, <2>1, <2>2, MoveFields
<1> QED
  BY <1>t, <1>1, <1>2, <1>3, <1>4, <1>5, CallCases

\* What was told stays true in every step, and what is told now is true.
LEMMA TrueStep ==
  ASSUME Inductive, Inductive', call \in [Operations -> Calls], NEW op \in Operations,
         Waits(op), Settles(op), TrueOf(op), Settled, [Next]_vars, [BridgeNext]_bridgeVars
  PROVE  TrueOf(op)'
<1>t. TypeOK /\ AnswersHold /\ ClaimsMatch /\ ClaimsMatch'
  BY DEF Inductive
<1> DEFINE told == call[op].told
           read == call[op].read
           Said(t, m) == /\ t \in {"applied", "already_applied"} =>
                              /\ HeldBy(m, op) /\ IsQuarantined(m)
                              /\ quar[m] # None /\ objects[m] = None
                         /\ t = "failed" => ~HeldBy(m, op)
           Seen(s, m) == s = "quarantined" => IsQuarantined(m)
<1>s. /\ told \in Final \/ read # "none" => /\ call[op].pc \in {"settled", "reading"}
                                            /\ call[op].n \in Nodes
                                            /\ \A q \in Requests : ~Works(q, op)
      /\ told \in {"applied", "already_applied"} => read # "not_quarantined"
      /\ Said(told, call[op].n) /\ Seen(read, call[op].n)
  BY DEF Settles, TrueOf, Calls
\* What stays as it was told.
<1>k. ASSUME NEW m \in Nodes, \A q \in Requests : ~Works(q, op), NEW t, Said(t, m)
      PROVE  Said(t, m)'
  <2>1. ASSUME t \in {"applied", "already_applied"}
        PROVE  (HeldBy(m, op) /\ IsQuarantined(m) /\ quar[m] # None /\ objects[m] = None)'
    <3>1. HeldBy(m, op) /\ IsQuarantined(m) /\ quar[m] # None
      BY <1>k, <2>1
    <3>2. HeldBy(m, op)' /\ IsQuarantined(m)'
      BY <3>1, ClaimsSettled DEF HeldBy, IsQuarantined, Claimed
    <3>3. quar'[m] # None
      BY <3>1, PayloadsSettled
    <3>4. objects'[m] = None
      BY <1>t, <3>2 DEF ClaimsMatch, IsQuarantined, Claimed, Settled
    <3> QED
      BY <3>2, <3>3, <3>4
  <2>2. ASSUME t = "failed" PROVE ~HeldBy(m, op)'
    BY <1>k, <2>2, HeldSinceWork
  <2> QED
    BY <2>1, <2>2
<1>r. ASSUME NEW m \in Nodes, NEW s, Seen(s, m) PROVE Seen(s, m)'
  BY <1>r, ClaimsSettled DEF IsQuarantined, Claimed
\* The three parts make up TrueOf.
<1>q. ASSUME NEW m, NEW t, NEW s, call'[op].n = m, call'[op].told = t, call'[op].read = s,
             Said(t, m)', Seen(s, m)',
             t \in {"applied", "already_applied"} => s # "not_quarantined"
      PROVE  TrueOf(op)'
  BY <1>q DEF TrueOf, HeldBy, IsQuarantined, Claimed
<1>0. ASSUME call'[op].told \notin Final, call'[op].read # "quarantined"
      PROVE  TrueOf(op)'
  BY <1>0 DEF TrueOf, Final
<1> HIDE DEF Said, Seen
\* A call whose last answer stands, or is followed by an unfavourable read.
<1>1. ASSUME call'[op].n = call[op].n, call'[op].told = told, call'[op].read \in {read, "error"}
      PROVE  TrueOf(op)'
  <2>1. CASE told \notin Final /\ call'[op].read # "quarantined"
    BY <1>0, <1>1, <2>1
  <2>2. CASE told \in Final \/ call'[op].read = "quarantined"
    <3>1. PICK m \in Nodes : m = call[op].n
      BY <1>1, <1>s, <2>2
    <3>2. PICK t, s : t = told /\ s = call'[op].read
      OBVIOUS
    <3>3. \A q \in Requests : ~Works(q, op)
      BY <1>1, <1>s, <2>2
    <3>4. Said(t, m) /\ Seen(s, m)
      BY <1>1, <1>s, <3>1, <3>2 DEF Seen
    <3>5. Said(t, m)' /\ Seen(s, m)'
      BY <1>k, <1>r, <3>3, <3>4
    <3> QED
      BY <1>1, <1>q, <1>s, <3>1, <3>2, <3>5
  <2> QED BY <2>1, <2>2
<1>2. ASSUME NEW r \in Requests, Send(op, r) \/ SendRead(op, r) PROVE TrueOf(op)'
  BY <1>1, <1>2, <1>t, SendFrame
<1>3. CASE RestartDrive
  <2>1. /\ call'[op].n = call[op].n
        /\ call'[op].told = IF call[op].pc = "applying" THEN "error" ELSE told
        /\ call'[op].read = IF call[op].pc = "reading" THEN "error" ELSE read
    BY <1>3, RestartFrame
  <2>2. CASE call[op].pc = "applying"
    <3>1. read = "none"
      BY <1>s, <2>2
    <3> QED
      BY <1>0, <2>1, <2>2, <3>1 DEF Final
  <2>3. CASE call[op].pc # "applying"
    BY <1>1, <2>1, <2>3
  <2> QED BY <2>2, <2>3
<1>4. CASE Moves(op)
  <2>u. UNCHANGED vars
    BY <1>4, MovesFrame
  <2>1. CASE call'[op].told = "none" /\ call'[op].read = "none"
    BY <1>0, <2>1 DEF Final
  <2>2. CASE /\ call[op].pc \in {"ready", "applying"} /\ call'[op].told = "error"
             /\ call'[op].read = call[op].read
    <3>1. read = "none"
      BY <1>s, <2>2
    <3> QED
      BY <1>0, <2>2, <3>1 DEF Final
  <2>3. CASE /\ call'[op].n = call[op].n /\ call'[op].told = call[op].told
             /\ call'[op].read = "error"
    BY <1>1, <2>3
  <2>4. CASE /\ call[op].pc = "applying" /\ At(call[op].r, "done")
             /\ call'[op].told = Told(h[call[op].r].result)
             /\ call'[op].n = call[op].n /\ call'[op].read = call[op].read
    <3>1. PICK x, m, t :
            /\ x \in Requests /\ m \in Nodes
            /\ x = call[op].r /\ m = call[op].n /\ t = call'[op].told /\ h[x].n = m /\ h[x].op = op
            /\ At(x, "done") /\ h[x].result \in {"conflict", "not_found"} => ~HeldBy(m, op)
      BY <2>4 DEF Waits, Settles
    <3>2. read = "none" /\ At(x, "done") /\ t = Told(h[x].result)
      BY <1>s, <2>4, <3>1
    <3>3. PICK res : res = h[x].result
      OBVIOUS
    <3>4. Said(t, m)
      <4>1. ASSUME t \in {"applied", "already_applied"}
            PROVE  HeldBy(m, op) /\ IsQuarantined(m) /\ quar[m] # None /\ objects[m] = None
        <5>1. h[x].result \in {"applied", "already_applied"}
          BY <3>2, <3>3, <4>1, ToldCases
        <5>2. /\ x \in Requests /\ h[x].n = m /\ h[x].op = op
              /\ h[x].pc = "done"
          BY <3>1, <3>2 DEF At
        <5>3. HeldBy(m, op) /\ IsQuarantined(m) /\ quar[m] # None
          BY <1>t, <3>1, <3>2, <5>1, <5>2 DEF AnswersHold
        <5> QED
          BY <1>t, <3>1, <5>3 DEF ClaimsMatch
      <4>2. ASSUME t = "failed" PROVE ~HeldBy(m, op)
        <5>1. h[x].result \in {"conflict", "not_found"}
          BY <3>2, <3>3, <4>2, ToldCases
        <5> QED
          BY <3>1, <3>2, <5>1
      <4> QED
        BY <4>1, <4>2 DEF Said
    <3>5. Said(t, m)'
      BY <2>u, <3>4 DEF Said, vars, dirs, HeldBy, IsQuarantined, Claimed
    <3>6. PICK s : s = call'[op].read
      OBVIOUS
    <3>7. Seen(s, m)'
      BY <2>4, <3>2, <3>6 DEF Seen
    <3> QED
      BY <1>q, <2>4, <3>1, <3>2, <3>5, <3>6, <3>7
  <2>5. CASE /\ call[op].pc = "reading" /\ At(call[op].r, "done")
             /\ call'[op].n = call[op].n /\ call'[op].told = call[op].told
             /\ call'[op].read = ReadBackOf(h[call[op].r].result)
    <3>1. PICK x, m, t, s :
            /\ x \in Requests /\ m \in Nodes
            /\ x = call[op].r /\ m = call[op].n /\ t = told /\ s = call'[op].read /\ h[x].n = m
            /\ At(x, "done") /\ s = ReadBackOf(h[x].result)
            /\ t \in {"applied", "already_applied"} => h[x].result # "not_quarantined"
      BY <2>5 DEF Waits, Settles
    <3>2. PICK res : res = h[x].result
      OBVIOUS
    <3>3. s \in {"quarantined", "not_quarantined"} => h[x].result = s
      BY <3>1, <3>2, ReadCases
    <3>4. Seen(s, m)
      BY <1>t, <3>1, <3>3 DEF Seen, AnswersHold
    <3>5. Said(t, m)
      BY <1>s, <3>1
    <3>6. Said(t, m)' /\ Seen(s, m)'
      BY <2>u, <3>4, <3>5 DEF Said, Seen, vars, dirs, HeldBy, IsQuarantined, Claimed
    <3>7. t \in {"applied", "already_applied"} => s # "not_quarantined"
      BY <3>1, <3>3
    <3> QED
      BY <1>q, <2>5, <3>1, <3>6, <3>7
  <2> QED
    BY <1>4, <2>1, <2>2, <2>3, <2>4, <2>5, MoveFields
<1> QED
  BY <1>t, <1>1, <1>2, <1>3, <1>4, CallCases

-----------------------------------------------------------------------------
(* The invariant and what follows from it. *)

LEMMA BridgeInitOK == BridgeInit => BridgeInductive
<1> SUFFICES ASSUME BridgeInit PROVE BridgeInductive
  OBVIOUS
<1>1. Inductive
  BY InitInductive DEF BridgeInit
<1>2. call = [op \in Operations |-> NoCall] /\ NoCall \in Calls
  BY DEF BridgeInit, NoCall, Calls
<1>3. call \in [Operations -> Calls]
  BY <1>2
<1>4. \A op \in Operations : /\ call[op].pc = "idle" /\ call[op].told = "none"
                             /\ call[op].read = "none"
  BY <1>2 DEF NoCall
<1>5. \A q \in Requests : h[q].pc = "idle"
  BY DEF BridgeInit, Init, Idle
<1>6. OneWorker /\ \A q \in Requests : WorkerOK(q)
  BY <1>5 DEF OneWorker, Works, InFlight, WorkerOK, At
<1>7. (\A op \in Operations : Waits(op) /\ Settles(op)) /\ ToldIsTrue
  BY <1>4 DEF Waits, Settles, ToldIsTrue, Final
<1> QED
  BY <1>1, <1>3, <1>6, <1>7 DEF BridgeInductive

LEMMA BridgeInductiveStep ==
  ASSUME ~Overlap, Settled, BridgeInductive, [BridgeNext]_bridgeVars
  PROVE  BridgeInductive'
<1>a. /\ Inductive /\ call \in [Operations -> Calls] /\ OneWorker
      /\ \A q \in Requests : WorkerOK(q)
      /\ \A op \in Operations : Waits(op) /\ Settles(op) /\ TrueOf(op)
  BY ToldIsTrueOf DEF BridgeInductive
<1>1. [Next]_vars
  BY <1>a, BridgeStepIsStep DEF CallsNamed, Settles
<1>2. Inductive'
  BY <1>a, <1>1, InductiveStep
<1>3. call' \in [Operations -> Calls]
  BY <1>a, CallsStep DEF Inductive
<1>4. OneWorker'
  BY <1>a, OneWorkerStep
<1>5. \A q \in Requests : WorkerOK(q)'
  BY <1>a, <1>1, WorkersStep
<1>6. \A op \in Operations : Waits(op)' /\ Settles(op)'
  BY <1>a, <1>1, WaitsStep, SettlesStep
<1>7. \A op \in Operations : TrueOf(op)'
  BY <1>a, <1>1, <1>2, TrueStep
<1> QED
  BY <1>2, <1>3, <1>4, <1>5, <1>6, <1>7, ToldIsTrueOfNext DEF BridgeInductive

\* The inductive invariant of the bridge holds throughout: Drive works on an
\* operation in one request at a time, and every call waits for its own.
THEOREM BridgeInvariant ==
  ASSUME ~Overlap, Settled
  PROVE  BridgeSpec => []BridgeInductive
<1>1. BridgeInductive /\ [BridgeNext]_bridgeVars => BridgeInductive'
  BY BridgeInductiveStep
<1> QED
  BY <1>1, BridgeInitOK, PTL DEF BridgeSpec

\* What the executor was told last about an operation is so, and stays so,
\* through timeouts, lost answers and restarts: applied means that the node is
\* held and its payload kept away from readers, failed that the operation has
\* not got the node (Service.Apply, callDrive, applyQuarantine).
THEOREM ToldStaysTrue ==
  ASSUME ~Overlap, Settled
  PROVE  BridgeSpec => []ToldIsTrue
<1>1. BridgeInductive => ToldIsTrue
  BY DEF BridgeInductive
<1> QED
  BY <1>1, BridgeInvariant, PTL

-----------------------------------------------------------------------------
(* Replays.  What follows needs neither Settled nor the answers that calls got. *)

BridgeWorkers == /\ Inductive /\ call \in [Operations -> Calls] /\ CallsNamed
                 /\ OneWorker /\ \A q \in Requests : WorkerOK(q)

LEMMA CallsNamedStep ==
  ASSUME TypeOK, call \in [Operations -> Calls], CallsNamed, [BridgeNext]_bridgeVars
  PROVE  CallsNamed'
<1> SUFFICES ASSUME NEW op \in Operations, call'[op].pc # "idle"
             PROVE  call'[op].n \in Nodes
  BY DEF CallsNamed
<1>1. CASE call'[op] = call[op]
  BY <1>1 DEF CallsNamed
<1>2. ASSUME NEW r \in Requests, Send(op, r) \/ SendRead(op, r) PROVE call'[op].n \in Nodes
  BY <1>2, SendFrame DEF CallsNamed
<1>3. CASE RestartDrive
  BY <1>3, RestartFrame DEF CallsNamed
<1>4. CASE Moves(op)
  BY <1>4, MoveFields DEF CallsNamed
<1> QED
  BY <1>1, <1>2, <1>3, <1>4, CallCases

LEMMA BridgeWorkersStep ==
  ASSUME ~Overlap, BridgeWorkers, [BridgeNext]_bridgeVars
  PROVE  BridgeWorkers'
<1>a. /\ Inductive /\ call \in [Operations -> Calls] /\ CallsNamed /\ TypeOK
      /\ OneWorker /\ \A q \in Requests : WorkerOK(q)
  BY DEF BridgeWorkers, Inductive
<1>1. [Next]_vars
  BY <1>a, BridgeStepIsStep
<1>2. Inductive'
  BY <1>a, <1>1, InductiveStep
<1>3. call' \in [Operations -> Calls] /\ CallsNamed'
  BY <1>a, CallsStep, CallsNamedStep
<1>4. OneWorker'
  BY <1>a, OneWorkerStep
<1>5. \A q \in Requests : WorkerOK(q)'
  BY <1>a, <1>1, WorkersStep
<1> QED
  BY <1>2, <1>3, <1>4, <1>5 DEF BridgeWorkers

\* A read does not end in the answers that deny an operation.
LEMMA ReadAnswers ==
  ASSUME Inductive, NEW x \in Requests, ReadStep(x), h'[x].pc = "done"
  PROVE  h'[x].result \notin {"not_found", "conflict"}
<1>g. ASSUME NEW pc, Goto(x, pc), pc # "done" PROVE FALSE
  BY <1>g, GotoFields
<1>a. ASSUME NEW res, Answer(x, res), res \notin {"not_found", "conflict"}
      PROVE  h'[x].result \notin {"not_found", "conflict"}
  BY <1>a, AnswerFields
<1> QED
  BY <1>g, <1>a DEF ReadStep, ReadBack, ReadAbsent, ReadPayload, ReadObject

LEMMA ReplayStep ==
  ASSUME BridgeWorkers, [BridgeNext]_bridgeVars, NEW x \in Requests, InFlight(x),
         h'[x].pc = "done", h'[x].result \in {"not_found", "conflict"}
  PROVE  ~HeldBy(h[x].n, h[x].op)
<1>a. /\ Inductive /\ call \in [Operations -> Calls] /\ TypeOK
      /\ OneWorker /\ \A q \in Requests : WorkerOK(q)
  BY DEF BridgeWorkers, Inductive
<1>0. h'[x] # h[x]
  BY DEF InFlight
<1>1. ASSUME NEW r \in Requests, Work(r) PROVE ~HeldBy(h[x].n, h[x].op)
  <2>1. x = r
    BY <1>a, <1>0, <1>1, WorkFields DEF Work
  <2>2. ~ReadStep(x)
    BY <1>a, ReadAnswers
  <2>3. ApplyStep(x)
    BY <1>1, <2>1, <2>2 DEF Work
  <2> QED
    BY <1>a, <2>3, DeniedNotHeld
<1>2. ASSUME NEW op \in Operations, NEW r \in Requests, Send(op, r) \/ SendRead(op, r) PROVE FALSE
  BY <1>a, <1>0, <1>2, SendFrame
<1>3. ASSUME RestartDrive PROVE FALSE
  BY <1>a, <1>3, RestartFrame DEF Idle
<1>4. PublishFile => h' = h
  BY DEF PublishFile, Publish
<1>5. ASSUME NEW op \in Operations, Moves(op) PROVE h' = h
  BY <1>a, <1>5, MovesFrame DEF vars
<1>6. UNCHANGED <<vars, call>> => h' = h
  BY DEF vars
<1> QED
  BY <1>0, <1>1, <1>2, <1>3, <1>4, <1>5, <1>6, BridgeCases DEF Moves

\* "An exact replay of the same operation is idempotent": an operation that
\* holds a node is never told that it failed, with files published again under
\* the node and stats that fail as well, as long as it is not repeated while
\* Drive is at work on it (ApplyQuarantine, reconcileQuarantine).
THEOREM ReplaysNotDenied ==
  ASSUME ~Overlap
  PROVE  BridgeSpec => ReplayNotDenied
<1>1. BridgeInit => BridgeWorkers
  BY BridgeInitOK DEF BridgeInductive, BridgeWorkers, CallsNamed, Settles
<1>2. BridgeWorkers /\ [BridgeNext]_bridgeVars => BridgeWorkers'
  BY BridgeWorkersStep
<1>3. BridgeWorkers /\ [BridgeNext]_bridgeVars =>
        [\A r \in Requests :
           InFlight(r) /\ h'[r].pc = "done" /\ h'[r].result \in {"not_found", "conflict"}
             => ~HeldBy(h[r].n, h[r].op)]_vars
  BY ReplayStep
<1> QED
  BY <1>1, <1>2, <1>3, PTL DEF BridgeSpec, ReplayNotDenied
=============================================================================
