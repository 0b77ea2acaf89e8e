----------------------------- MODULE Quarantine -----------------------------
(***************************************************************************)
(* Wardveil's quarantine of published files: the quarantine service        *)
(* (internal/quarantine) and the storage operations under it               *)
(* (internal/storage/quarantine.go), with the other operations that move   *)
(* an object: its publication and its move to trash.                       *)
(*                                                                         *)
(* Requests run concurrently and hold no lock; what keeps them apart are   *)
(* single file-system calls (an exclusive create, a hard link that does    *)
(* not overwrite, a rename).  A step of a request is one such call, or one *)
(* stat, so requests interleave between any two of them, and a restart     *)
(* may fall between any two.                                               *)
(***************************************************************************)
EXTENDS Naturals, FiniteSets

CONSTANTS Nodes,       \* file nodes
          Operations,  \* pairs of an operation and a correlation identifier
          Requests,    \* requests that may be in flight at the same time
          Payloads,    \* inodes of published files
          None,        \* no such file
          Torn,        \* a state file that cannot be read as a state
          Serial,      \* TRUE: one request per node at a time
          Republish,   \* TRUE: a node can be published again once its object is gone
          Trashing,    \* TRUE: MoveToTrash is in use
          MaxRestarts, \* bound on the restarts of the server
          Faults       \* the steps at which a call may fail

ASSUME FlagsAssumption == /\ Serial \in BOOLEAN /\ Republish \in BOOLEAN
                          /\ Trashing \in BOOLEAN /\ MaxRestarts \in Nat

VARIABLES objects,   \* the active object of each node
          quar,      \* the quarantined payload of each node
          trash,     \* the trashed payload of each node
          qstate,    \* the quarantine state file of each node
          h,         \* the requests
          published, \* history: the payloads that each node was published with
          restarts   \* how often the server was restarted

dirs == <<objects, quar, trash>>
vars == <<dirs, qstate, h, published, restarts>>
-----------------------------------------------------------------------------
\* A readable state: which operation holds the node, and how far it got.
Claim(op, status) == [op |-> op, status |-> status]
Claims == [op : Operations, status : {"pending", "quarantined"}]

ASSUME NoneAssumption == /\ None \notin Payloads /\ None # Torn
                         /\ None \notin Claims /\ Torn \notin Claims
ASSUME NoneOperation == None \notin Operations

ApplyPCs == {"read", "checkquar", "checkobj", "claim", "write", "sync", "reread",
             "statobj", "statquar", "link", "remove", "finish"}
ReadPCs  == {"rstate", "rabsent", "rquar", "robj"}
TrashPCs == {"tlink", "tremove"}
StatPCs  == {"checkquar", "checkobj", "statobj", "statquar", "rabsent", "rquar", "robj"}
Results  == {"applied", "already_applied", "conflict", "not_found", "unknown",
             "quarantined", "not_quarantined", "trashed", "error"}

Request == [pc : {"idle", "done"} \cup ApplyPCs \cup ReadPCs \cup TrashPCs,
            n : Nodes \cup {None}, op : Operations \cup {None},
            status : {"none", "pending", "quarantined"}, objectExists : BOOLEAN,
            result : Results \cup {"none"}]
Idle == [pc |-> "idle", n |-> None, op |-> None, status |-> "none",
         objectExists |-> FALSE, result |-> "none"]

TypeOK == /\ objects \in [Nodes -> Payloads \cup {None}]
          /\ quar \in [Nodes -> Payloads \cup {None}]
          /\ trash \in [Nodes -> Payloads \cup {None}]
          /\ qstate \in [Nodes -> Claims \cup {None, Torn}]
          /\ h \in [Requests -> Request]
          /\ published \in [Nodes -> SUBSET Payloads]
          /\ restarts \in Nat

Init == /\ objects = [n \in Nodes |-> None]
        /\ quar = [n \in Nodes |-> None]
        /\ trash = [n \in Nodes |-> None]
        /\ qstate = [n \in Nodes |-> None]
        /\ h = [r \in Requests |-> Idle]
        /\ published = [n \in Nodes |-> {}]
        /\ restarts = 0
-----------------------------------------------------------------------------
At(r, pc)      == h[r].pc = pc
InFlight(r)    == h[r].pc \notin {"idle", "done"}
Become(r, l)   == h' = [h EXCEPT ![r] = l]
Goto(r, pc)    == Become(r, [h[r] EXCEPT !.pc = pc])
Answer(r, res) == Become(r, [h[r] EXCEPT !.pc = "done", !.result = res,
                                         !.status = "none", !.objectExists = FALSE])
There(dir, r)  == dir[h[r].n] # None

\* Mutant: an error of os.Stat is taken for a file that is there.
existsOnError(dir, r) == {There(dir, r)} \cup {TRUE : f \in Faults \cap {h[r].pc}}

\* What a look at a file may say: an error of os.Stat, whatever its cause, is
\* taken for a file that is not there.
exists(dir, r) == {There(dir, r)} \cup {FALSE : f \in Faults \cap {h[r].pc}}

\* A request arrives at a handler that has nothing in flight.
Start(r, n, op, pc) ==
  /\ ~InFlight(r)
  /\ Serial => \A q \in Requests : InFlight(q) => h[q].n # n
  /\ Become(r, [Idle EXCEPT !.pc = pc, !.n = n, !.op = op])
  /\ UNCHANGED <<dirs, qstate, published, restarts>>

Apply(r, n, op)   == Start(r, n, op, "read")
Read(r, n)        == Start(r, n, None, "rstate")
MoveToTrash(r, n) == Trashing /\ Start(r, n, None, "tlink")
-----------------------------------------------------------------------------
(* ApplyQuarantine. *)

\* The state that was read belongs to this very operation, or the request ends.
Matching(r, next) ==
  LET state == qstate[h[r].n]
  IN IF state.op = h[r].op
       THEN Become(r, [h[r] EXCEPT !.pc = next, !.status = state.status])
       ELSE Answer(r, "conflict")

ReadState(r) ==
  /\ At(r, "read")
  /\ \/ qstate[h[r].n] = Torn /\ Answer(r, "unknown")
     \/ qstate[h[r].n] = None /\ Goto(r, "checkquar")
     \/ qstate[h[r].n] \notin {None, Torn} /\ Matching(r, "statobj")
  /\ UNCHANGED <<dirs, qstate, published, restarts>>

CheckQuarantine(r) ==
  /\ At(r, "checkquar")
  /\ \E held \in exists(quar, r) : IF held THEN Answer(r, "unknown") ELSE Goto(r, "checkobj")
  /\ UNCHANGED <<dirs, qstate, published, restarts>>

\* Mutant: no claim is made before the payload is moved.
CheckObjectUnclaimed(r) ==
  /\ At(r, "checkobj")
  /\ \E there \in exists(objects, r) :
       IF there THEN Become(r, [h[r] EXCEPT !.pc = "statobj", !.status = "pending"])
                ELSE Answer(r, "not_found")
  /\ UNCHANGED <<dirs, qstate, published, restarts>>

CheckObject(r) ==
  /\ At(r, "checkobj")
  /\ \E there \in exists(objects, r) :
       IF there THEN Goto(r, "claim") ELSE Answer(r, "not_found")
  /\ UNCHANGED <<dirs, qstate, published, restarts>>

\* Mutant: O_CREATE without O_EXCL.
CreateShared(r) ==
  /\ At(r, "claim")
  /\ qstate' = [qstate EXCEPT ![h[r].n] = Torn]
  /\ Goto(r, "write")
  /\ UNCHANGED <<dirs, published, restarts>>

\* O_CREATE|O_EXCL: the first to get here owns the node.  The file is empty.
CreateExclusive(r) ==
  /\ At(r, "claim")
  /\ IF qstate[h[r].n] = None
       THEN qstate' = [qstate EXCEPT ![h[r].n] = Torn] /\ Goto(r, "write")
       ELSE UNCHANGED qstate /\ Goto(r, "reread")
  /\ UNCHANGED <<dirs, published, restarts>>

WritePending(r) ==
  /\ At(r, "write")
  /\ qstate' = [qstate EXCEPT ![h[r].n] = Claim(h[r].op, "pending")]
  /\ Become(r, [h[r] EXCEPT !.pc = "sync", !.status = "pending"])
  /\ UNCHANGED <<dirs, published, restarts>>

\* file.Sync and Close: when they fail the state stands, and its owner is told
\* that nothing is known.
SyncPending(r) ==
  /\ At(r, "sync")
  /\ Goto(r, "statobj")
  /\ UNCHANGED <<dirs, qstate, published, restarts>>

Reread(r) ==
  /\ At(r, "reread")
  /\ IF qstate[h[r].n] \in {None, Torn} THEN Answer(r, "unknown") ELSE Matching(r, "statobj")
  /\ UNCHANGED <<dirs, qstate, published, restarts>>

\* reconcileQuarantine: the object is looked at first, then the payload.
StatObject(r) ==
  /\ At(r, "statobj")
  /\ \E there \in exists(objects, r) :
       Become(r, [h[r] EXCEPT !.pc = "statquar", !.objectExists = there])
  /\ UNCHANGED <<dirs, qstate, published, restarts>>

\* Mutant: a pending operation is only carried on while its object is there.
StatQuarantineNoResume(r) ==
  /\ At(r, "statquar")
  /\ \/ /\ h[r].status = "quarantined"
        /\ \E held \in exists(quar, r) :
             Answer(r, IF held /\ ~h[r].objectExists THEN "already_applied" ELSE "unknown")
     \/ /\ h[r].status = "pending"
        /\ \E held \in exists(quar, r) :
             \/ h[r].objectExists /\ Goto(r, IF held THEN "remove" ELSE "link")
             \/ ~h[r].objectExists /\ Answer(r, "unknown")
  /\ UNCHANGED <<dirs, qstate, published, restarts>>

\* Mutant: a payload that is held always has its object removed.
StatQuarantineRemoves(r) ==
  /\ At(r, "statquar")
  /\ \/ /\ h[r].status = "quarantined"
        /\ \E held \in exists(quar, r) :
             Answer(r, IF held /\ ~h[r].objectExists THEN "already_applied" ELSE "unknown")
     \/ /\ h[r].status = "pending"
        /\ \E held \in exists(quar, r) :
             \/ held /\ Goto(r, "remove")
             \/ ~held /\ h[r].objectExists /\ Goto(r, "link")
             \/ ~held /\ ~h[r].objectExists /\ Answer(r, "unknown")
  /\ UNCHANGED <<dirs, qstate, published, restarts>>

StatQuarantine(r) ==
  /\ At(r, "statquar")
  /\ \/ /\ h[r].status = "quarantined"
        /\ \E held \in exists(quar, r) :
             Answer(r, IF held /\ ~h[r].objectExists THEN "already_applied" ELSE "unknown")
     \/ /\ h[r].status = "pending"
        /\ \E held \in exists(quar, r) :
             \/ held /\ Goto(r, IF h[r].objectExists THEN "remove" ELSE "finish")
             \/ ~held /\ h[r].objectExists /\ Goto(r, "link")
             \/ ~held /\ ~h[r].objectExists /\ Answer(r, "unknown")
  /\ UNCHANGED <<dirs, qstate, published, restarts>>

\* Mutant: the result of the link is ignored.
LinkPayloadIgnored(r) ==
  /\ At(r, "link")
  /\ Goto(r, "remove")
  /\ UNCHANGED <<dirs, qstate, published, restarts>>

\* Mutant: the object keeps its name in the active namespace.
LinkPayloadOnly(r) ==
  /\ At(r, "link")
  /\ IF There(objects, r) /\ ~There(quar, r)
       THEN quar' = [quar EXCEPT ![h[r].n] = objects[h[r].n]] /\ Goto(r, "finish")
       ELSE UNCHANGED quar /\ Answer(r, "unknown")
  /\ UNCHANGED <<objects, trash, qstate, published, restarts>>

\* os.Link: no object is ENOENT, which the service reports as not found; a
\* payload that is there already is taken for the one linked earlier.
LinkPayload(r) ==
  /\ At(r, "link")
  /\ \/ ~There(objects, r) /\ Answer(r, "not_found") /\ UNCHANGED quar
     \/ There(objects, r) /\ There(quar, r) /\ Goto(r, "remove") /\ UNCHANGED quar
     \/ /\ There(objects, r) /\ ~There(quar, r)
        /\ quar' = [quar EXCEPT ![h[r].n] = objects[h[r].n]]
        /\ Goto(r, "remove")
  /\ UNCHANGED <<objects, trash, qstate, published, restarts>>

RemoveObject(r) ==
  /\ At(r, "remove")
  /\ IF There(objects, r)
       THEN objects' = [objects EXCEPT ![h[r].n] = None] /\ Goto(r, "finish")
       ELSE UNCHANGED objects /\ Answer(r, "not_found")
  /\ UNCHANGED <<quar, trash, qstate, published, restarts>>

\* Mutant: a status that no reader knows.
FinishStateApplied(r) ==
  /\ At(r, "finish")
  /\ qstate' = [qstate EXCEPT ![h[r].n] = Claim(h[r].op, "applied")]
  /\ Answer(r, "applied")
  /\ UNCHANGED <<dirs, published, restarts>>

\* A temporary file, written and synced, is renamed over the state.
WriteAtomic(r, status) == qstate' = [qstate EXCEPT ![h[r].n] = Claim(h[r].op, status)]
FinishState(r) ==
  /\ At(r, "finish")
  /\ WriteAtomic(r, "quarantined")
  /\ Answer(r, "applied")
  /\ UNCHANGED <<dirs, published, restarts>>
-----------------------------------------------------------------------------
(* ReadQuarantine: a favourable answer needs state and payload to agree. *)

\* Mutant: the status of the state is not looked at.
ReadBackAnyStatus(r) ==
  /\ At(r, "rstate")
  /\ \/ qstate[h[r].n] = Torn /\ Answer(r, "unknown")
     \/ qstate[h[r].n] = None /\ Goto(r, "rabsent")
     \/ qstate[h[r].n] \notin {None, Torn} /\ Goto(r, "rquar")
  /\ UNCHANGED <<dirs, qstate, published, restarts>>

ReadBack(r) ==
  /\ At(r, "rstate")
  /\ \/ qstate[h[r].n] = Torn /\ Answer(r, "unknown")
     \/ qstate[h[r].n] = None /\ Goto(r, "rabsent")
     \/ /\ qstate[h[r].n] \notin {None, Torn}
        /\ IF qstate[h[r].n].status = "quarantined" THEN Goto(r, "rquar") ELSE Answer(r, "unknown")
  /\ UNCHANGED <<dirs, qstate, published, restarts>>

ReadAbsent(r) ==
  /\ At(r, "rabsent")
  /\ \E held \in exists(quar, r) : Answer(r, IF held THEN "unknown" ELSE "not_quarantined")
  /\ UNCHANGED <<dirs, qstate, published, restarts>>

ReadPayload(r) ==
  /\ At(r, "rquar")
  /\ \E held \in exists(quar, r) : IF held THEN Goto(r, "robj") ELSE Answer(r, "unknown")
  /\ UNCHANGED <<dirs, qstate, published, restarts>>

ReadObject(r) ==
  /\ At(r, "robj")
  /\ \E there \in exists(objects, r) : Answer(r, IF there THEN "unknown" ELSE "quarantined")
  /\ UNCHANGED <<dirs, qstate, published, restarts>>
-----------------------------------------------------------------------------
(* The other operations that move an object. *)

\* Finalize of an upload: a fresh file under a node that has no object.
Publish(n, p) ==
  /\ objects[n] = None
  /\ Republish \/ published[n] = {}
  /\ \A m \in Nodes : p \notin published[m]
  /\ objects' = [objects EXCEPT ![n] = p]
  /\ published' = [published EXCEPT ![n] = @ \cup {p}]
  /\ UNCHANGED <<quar, trash, qstate, h, restarts>>

TrashLink(r) ==
  /\ At(r, "tlink")
  /\ IF There(objects, r) /\ ~There(trash, r)
       THEN trash' = [trash EXCEPT ![h[r].n] = objects[h[r].n]] /\ Goto(r, "tremove")
       ELSE UNCHANGED trash /\ Answer(r, "error")
  /\ UNCHANGED <<objects, quar, qstate, published, restarts>>

TrashRemove(r) ==
  /\ At(r, "tremove")
  /\ IF There(objects, r)
       THEN objects' = [objects EXCEPT ![h[r].n] = None] /\ Answer(r, "trashed")
       ELSE UNCHANGED objects /\ Answer(r, "error")
  /\ UNCHANGED <<quar, trash, qstate, published, restarts>>

\* The call that a request is at fails: nothing is undone, and the service
\* answers that it does not know.  A stat has no such answer, see exists.
Fail(r) ==
  /\ InFlight(r) /\ h[r].pc \in Faults \ StatPCs
  /\ Answer(r, IF h[r].pc \in TrashPCs THEN "error" ELSE "unknown")
  /\ UNCHANGED <<dirs, qstate, published, restarts>>

Restart ==
  /\ restarts < MaxRestarts
  /\ restarts' = restarts + 1
  /\ h' = [r \in Requests |-> Idle]
  /\ UNCHANGED <<dirs, qstate, published>>

ApplyStep(r) == \/ ReadState(r) \/ CheckQuarantine(r) \/ CheckObject(r) \/ CreateExclusive(r)
                \/ WritePending(r) \/ SyncPending(r) \/ Reread(r) \/ StatObject(r) \/ StatQuarantine(r)
                \/ LinkPayload(r) \/ RemoveObject(r) \/ FinishState(r)
ReadStep(r)  == \/ ReadBack(r) \/ ReadAbsent(r) \/ ReadPayload(r) \/ ReadObject(r)
TrashStep(r) == \/ TrashLink(r) \/ TrashRemove(r)

Next == \/ Restart
        \/ \E n \in Nodes, p \in Payloads : Publish(n, p)
        \/ \E r \in Requests, n \in Nodes :
             \/ Read(r, n) \/ MoveToTrash(r, n)
             \/ \E op \in Operations : Apply(r, n, op)
        \/ \E r \in Requests : ApplyStep(r) \/ ReadStep(r) \/ TrashStep(r) \/ Fail(r)

Spec == Init /\ [][Next]_vars
-----------------------------------------------------------------------------
(* What must hold however requests overlap, fail and are cut short. *)

Claimed(n)         == qstate[n] \notin {None, Torn}
HeldBy(n, op)      == Claimed(n) /\ qstate[n].op = op
IsQuarantined(n)   == Claimed(n) /\ qstate[n].status = "quarantined"

\* A node that an operation has claimed stays with that operation, and a
\* finished quarantine is never reopened: conflicting operations, replays and
\* restarts in the middle of a claim included (writeQuarantineStateExclusive,
\* ErrQuarantineConflict).
ClaimIsFinal ==
  [][\A n \in Nodes :
       /\ qstate[n] # None => qstate'[n] # None
       /\ Claimed(n) => /\ qstate'[n] \notin {None, Torn}
                        /\ qstate'[n].op = qstate[n].op
       /\ IsQuarantined(n) => qstate'[n] = qstate[n]]_vars

\* "A durable pending state is recorded before the side effect": a payload in
\* quarantine can always be traced to the operation that put it there.
ClaimPrecedesPayload == \A n \in Nodes : quar[n] # None => Claimed(n)

\* A quarantine that is on record as done is one: the payload is held, and it
\* is not reachable as an active object any more ("Remove the active object
\* only after the quarantine payload exists", docs/WARDVEIL-QUARANTINE.md).
IsolatedIsInactive ==
  \A n \in Nodes : IsQuarantined(n) => /\ quar[n] # None
                                       /\ \A m \in Nodes : objects[m] # quar[n]

\* "Quarantine is not deletion. The payload remains recoverable": every file
\* that was ever published is still an object, in quarantine or in trash,
\* whichever operations met on it and wherever they stopped.
PayloadPreserved ==
  \A n \in Nodes : \A p \in published[n] : p \in {objects[n], quar[n], trash[n]}

\* A favourable answer stays true: whoever was told that a node is quarantined
\* can rely on the state, its owner and the payload (Apply, Read).
AnswersHold ==
  \A r \in Requests :
    /\ At(r, "done") /\ h[r].result \in {"applied", "already_applied"}
         => HeldBy(h[r].n, h[r].op) /\ IsQuarantined(h[r].n) /\ quar[h[r].n] # None
    /\ At(r, "done") /\ h[r].result = "quarantined"
         => IsQuarantined(h[r].n) /\ quar[h[r].n] # None

\* "An exact replay of the same operation is idempotent": the operation that
\* holds a node is never told that it failed.
ReplayNotDenied ==
  [][\A r \in Requests :
       InFlight(r) /\ h'[r].pc = "done" /\ h'[r].result \in {"not_found", "conflict"}
         => ~HeldBy(h[r].n, h[r].op)]_vars

\* The file of a node, the place it is in, and who has the node, as a reader of
\* the directories sees them: a file is active as long as it has its object name.
file  == [n \in Nodes |-> IF objects[n] # None THEN objects[n]
                          ELSE IF quar[n] # None THEN quar[n] ELSE trash[n]]
where == [n \in Nodes |-> IF objects[n] # None THEN "active"
                          ELSE IF quar[n] # None THEN "isolated"
                          ELSE IF trash[n] # None THEN "trashed" ELSE "nowhere"]
owner == [n \in Nodes |-> IF Claimed(n) THEN qstate[n].op ELSE None]

done  == [n \in Nodes |-> IsQuarantined(n)]

Atomic == INSTANCE AtomicQuarantine
            WITH file <- file, where <- where, owner <- owner, done <- done

\* ApplyQuarantine "atomically removes a finalized object from the active object
\* namespace while preserving the payload" (quarantine.go:42): its calls, cut
\* short and interleaved in any order, amount to the single steps of
\* AtomicQuarantine.
AppliesAtomically == Atomic!Spec
-----------------------------------------------------------------------------
(* Why the safety properties hold: what a request may rely on at each step. *)

HolderPCs == {"sync", "statobj", "statquar", "link", "remove", "finish"}

\* No node is published twice, and the stat that decides whether there is an
\* object to remove does not fail.
Settled == ~Republish /\ "statobj" \notin Faults

\* A request names a node and, if it quarantines, an operation.
RequestKnown(r) ==
  /\ h[r].pc # "idle" => h[r].n \in Nodes
  /\ h[r].pc \in ApplyPCs => h[r].op \in Operations

\* Whoever won the exclusive create is alone in filling the state in.
WriterAlone(r) ==
  At(r, "write") => /\ qstate[h[r].n] = Torn
                    /\ \A q \in Requests : At(q, "write") /\ h[q].n = h[r].n => q = r

\* A request that moves a payload does so for the operation on record, and
\* takes an object or a payload for gone or kept only when it is.
HolderHolds(r) ==
  /\ h[r].pc \in HolderPCs => HeldBy(h[r].n, h[r].op)
  /\ h[r].pc \in HolderPCs /\ h[r].status = "quarantined" => IsQuarantined(h[r].n)
  /\ h[r].pc \in {"remove", "finish", "robj"} => quar[h[r].n] # None
  /\ h[r].pc \in {"rquar", "robj"} => IsQuarantined(h[r].n)
  /\ At(r, "tremove") => trash[h[r].n] # None
  /\ h[r].pc \in {"claim", "write"} => published[h[r].n] # {}
  /\ Settled => /\ At(r, "statquar") /\ ~h[r].objectExists => objects[h[r].n] = None
                /\ At(r, "finish") => objects[h[r].n] = None

RequestsOK == \A r \in Requests : /\ RequestKnown(r) /\ WriterAlone(r)
                                  /\ HolderHolds(r)

\* A payload is only ever found under the node it was published to.
PayloadsKnown ==
  \A n \in Nodes :
    /\ {objects[n], quar[n], trash[n]} \subseteq published[n] \cup {None}
    /\ \A m \in Nodes : m # n => published[n] \cap published[m] = {}

\* What a claim says of the node that it is on.
ClaimsMatch ==
  \A n \in Nodes :
    /\ qstate[n] # None => published[n] # {}
    /\ IsQuarantined(n) => quar[n] # None
    /\ Settled /\ IsQuarantined(n) => objects[n] = None

\* A node that is published once has one payload, and keeps it.
SinglePayload ==
  ~Republish => /\ PayloadPreserved
                /\ \A n \in Nodes : \A p, q \in published[n] : p = q

Inductive == /\ TypeOK
             /\ RequestsOK
             /\ PayloadsKnown
             /\ ClaimsMatch
             /\ SinglePayload
             /\ ClaimPrecedesPayload
             /\ AnswersHold
=============================================================================
