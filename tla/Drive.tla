------------------------------- MODULE Drive -------------------------------
(***************************************************************************)
(* Uploads and quarantine in one server: both work on the same object      *)
(* directory of the same file system (storage.Local in cmd/server), know   *)
(* nothing of each other, and go down together.  An upload can publish a   *)
(* node whose object was quarantined or trashed, and a quarantine can take *)
(* a file away while its upload is still being finished.                   *)
(***************************************************************************)
EXTENDS Uploads

CONSTANTS Operations, Torn, MaxRestarts,  \* see Quarantine
          QuarantineRequests,             \* quarantine requests in flight
          QuarantineSerial,               \* TRUE: one of them per node at a time
          QuarantineFaults                \* the steps at which their calls may fail

VARIABLES quar, trash, qstate, qh, restarts,  \* see Quarantine
          inspected  \* history: the content each inode was released with

quarantineVars == <<quar, trash, qstate, qh, restarts>>
driveVars      == <<vars, quarantineVars, inspected>>

Q == INSTANCE Quarantine WITH Payloads <- Inodes, h <- qh, Requests <- QuarantineRequests,
                              Serial <- QuarantineSerial, Republish <- TRUE, Trashing <- TRUE,
                              Faults <- QuarantineFaults, published <- {}

DriveInit == /\ Init
             /\ quar = [n \in Nodes |-> None] /\ trash = [n \in Nodes |-> None]
             /\ qstate = [n \in Nodes |-> None]
             /\ qh = [r \in QuarantineRequests |-> Q!Idle]
             /\ restarts = 0
             /\ inspected = [i \in Inodes |-> << >>]
-----------------------------------------------------------------------------
\* The inodes that have a name outside of staging and objects: not free.
Kept == {quar[n] : n \in Nodes} \cup {trash[n] : n \in Nodes}

UploadStep ==
  /\ \/ Tick
     \/ \E u \in UploadIDs : Expire(u) \/ \E n \in Nodes : Create(u, n)
     \/ \E r \in Requests, u \in UploadIDs :
          StartComplete(r, u) \/ \E body \in Bodies : StartAppend(r, u, body)
     \/ \E r \in Requests : AppendStep(r) \/ GateStep(r) \/ FinalizeStep(r) \/ Fail(r)
  /\ \A u \in UploadIDs : staging'[u] # staging[u] => staging'[u] \notin Kept \ {None}
  /\ inspected' = [i \in Inodes |->
                     IF \E n \in Nodes : objects'[n] = i /\ objects[n] # i
                       THEN LET n == CHOOSE m \in Nodes : objects'[m] = i IN pub'[n].digest
                       ELSE inspected[i]]
  /\ UNCHANGED quarantineVars

QuarantineStep ==
  /\ \/ \E r \in QuarantineRequests, n \in Nodes :
          \/ Q!Read(r, n) \/ Q!MoveToTrash(r, n)
          \/ \E op \in Operations : Q!Apply(r, n, op)
     \/ \E r \in QuarantineRequests :
          Q!ApplyStep(r) \/ Q!ReadStep(r) \/ Q!TrashStep(r) \/ Q!Fail(r)
  /\ UNCHANGED <<clock, repo, staging, data, h, hist, inspected>>

RestartServer == Restart /\ Q!Restart /\ UNCHANGED inspected

DriveNext == UploadStep \/ QuarantineStep \/ RestartServer

DriveSpec == DriveInit /\ [][DriveNext]_driveVars
-----------------------------------------------------------------------------
(* What must hold across the two. *)

\* Whatever has an object, a quarantine or a trash name holds the bytes that
\* were inspected when it was released, also after it has been moved: no
\* upload that is still open writes into it (Finalize, os.Link, AppendStaging).
KeptIsInspected ==
  \A n \in Nodes : \A i \in {objects[n], quar[n], trash[n]} \ {None} : data[i] = inspected[i]

\* A file that was taken out of the active namespace does not come back: not
\* by a second completion of its upload, nor by a session that finds its
\* staging name again after a restart.
NeverRevived ==
  [][\A i \in Kept \ {None} :
       (\A n \in Nodes : objects[n] # i) => (\A n \in Nodes : objects'[n] # i)]_driveVars

\* A quarantine on record as done holds a payload that no node serves, also
\* when the node has been published again since, or is being published now.
IsolatedIsInactive == Q!IsolatedIsInactive
-----------------------------------------------------------------------------
(* Why they hold: what has left staging is out of reach of every upload that *)
(* can still write, whichever of the directories it is in.                   *)

\* The inodes that have a name outside of staging.
Named == {objects[n] : n \in Nodes} \cup Kept

DriveTypeOK == /\ TypeOK
               /\ quar \in [Nodes -> Inodes \cup {None}]
               /\ trash \in [Nodes -> Inodes \cup {None}]
               /\ qstate \in [Nodes -> Q!Claims \cup {None, Torn}]
               /\ qh \in [QuarantineRequests -> Q!Request]
               /\ restarts \in Nat
               /\ inspected \in [Inodes -> Content]

\* No two uploads, and no two nodes, share a file; a payload in quarantine is
\* an object only under its own node.
NamesApart ==
  /\ \A u, v \in UploadIDs : staging[u] # None /\ staging[u] = staging[v] => u = v
  /\ \A n, m \in Nodes : objects[n] # None /\ objects[n] = objects[m] => n = m
  /\ \A n, m \in Nodes : quar[n] # None /\ quar[n] = objects[m] => n = m

\* A staged file has another name only between the link and the unlink of its
\* finalization, wherever the file has been moved by then, or when its session
\* is lost.
StagedTwice ==
  \A u \in UploadIDs :
    staging[u] # None /\ staging[u] \in Named =>
      \/ repo[u].state = "lost"
      \/ \E r \in Requests : At(r, "unlink") /\ h[r].u = u

\* An open descriptor reaches the staged file of its own upload, or one that
\* has lost its name, and never a file that has left staging.
DescriptorApart(r) ==
  /\ h[r].pc \notin {"write"} \cup ReadPCs => h[r].fd = None
  /\ h[r].fd # None => /\ staging[h[r].u] \in {None, h[r].fd}
                       /\ \A q \in Requests : h[q].fd = h[r].fd => q = r
                       /\ \A u \in UploadIDs : staging[u] = h[r].fd => u = h[r].u
                       /\ h[r].fd \notin Named

\* From the first hash to the link, the digest is that of the staged file.
HashedPCs == {"openscan", "scan", "evaluate", "openrehash", "rehash", "recheck", "link"}
DigestHolds(r) ==
  /\ At(r, "hash") => Begins(h[r].buf, data[h[r].fd])
  /\ h[r].pc \in HashedPCs /\ staging[h[r].u] # None => data[staging[h[r].u]] = h[r].digest

UploadsApart == \A r \in Requests : DescriptorApart(r) /\ DigestHolds(r)

\* A request names a node and, if it quarantines, an operation; it is alone on
\* its node if requests are serial.
RequestAlone(r) ==
  /\ qh[r].pc # "idle" => qh[r].n \in Nodes
  /\ qh[r].pc \in Q!ApplyPCs => qh[r].op \in Operations
  /\ QuarantineSerial /\ Q!InFlight(r) =>
       \A q \in QuarantineRequests : Q!InFlight(q) /\ qh[q].n = qh[r].n => q = r

\* A quarantine is finished only when no node has its payload, although the
\* node may have been published again.
Inactive(n) == \A m \in Nodes : objects[m] # quar[n]
FinishesInactive(r) ==
  /\ qh[r].pc \in {"remove", "finish"} => quar[qh[r].n] # None
  /\ Q!At(r, "finish") => Inactive(qh[r].n)
  /\ Q!At(r, "statquar") /\ ~qh[r].objectExists /\ quar[qh[r].n] # None => Inactive(qh[r].n)

RequestsAlone == \A r \in QuarantineRequests : RequestAlone(r)

DriveInductive == /\ DriveTypeOK
                  /\ Sound /\ SerialSessions
                  /\ NamesApart /\ StagedTwice /\ UploadsApart
                  /\ RequestsAlone
                  /\ KeptIsInspected

\* With serial requests, and the stat that decides whether there is an object to
\* remove not failing.
Isolation == /\ \A r \in QuarantineRequests : FinishesInactive(r)
             /\ IsolatedIsInactive
=============================================================================
