-------------------------- MODULE AtomicQuarantine --------------------------
(***************************************************************************)
(* What ApplyQuarantine promises: it "atomically removes a finalized       *)
(* object from the active object namespace while preserving the payload in *)
(* the private quarantine namespace" (internal/storage/quarantine.go:42).  *)
(* A file is in one place at a time and is the file that was published; an *)
(* operation that has a node keeps it; the file leaves the active          *)
(* namespace in one step, and for good; and a quarantine is confirmed only *)
(* of a file that is isolated.  Quarantine implements this module.         *)
(***************************************************************************)
CONSTANTS Nodes, Operations, Payloads, None

VARIABLES file,  \* the file of each node
          where, \* the place it is in
          owner, \* the operation that has the node
          done   \* TRUE: its quarantine is confirmed

vars == <<file, where, owner, done>>

Init == /\ file = [n \in Nodes |-> None]
        /\ where = [n \in Nodes |-> "nowhere"]
        /\ owner = [n \in Nodes |-> None]
        /\ done = [n \in Nodes |-> FALSE]

Publish(n, p) ==
  /\ where[n] = "nowhere"
  /\ file' = [file EXCEPT ![n] = p]
  /\ where' = [where EXCEPT ![n] = "active"]
  /\ UNCHANGED <<owner, done>>

Own(n, op) ==
  /\ where[n] # "nowhere" /\ owner[n] = None
  /\ owner' = [owner EXCEPT ![n] = op]
  /\ UNCHANGED <<file, where, done>>

Isolate(n) ==
  /\ where[n] = "active" /\ owner[n] # None
  /\ where' = [where EXCEPT ![n] = "isolated"]
  /\ UNCHANGED <<file, owner, done>>

Trash(n) ==
  /\ where[n] = "active"
  /\ where' = [where EXCEPT ![n] = "trashed"]
  /\ UNCHANGED <<file, owner, done>>

Confirm(n) ==
  /\ where[n] = "isolated" /\ owner[n] # None
  /\ done' = [done EXCEPT ![n] = TRUE]
  /\ UNCHANGED <<file, where, owner>>

Next == \E n \in Nodes : \/ \E p \in Payloads : Publish(n, p)
                         \/ \E op \in Operations : Own(n, op)
                         \/ Isolate(n) \/ Trash(n) \/ Confirm(n)

Spec == Init /\ [][Next]_vars
=============================================================================
