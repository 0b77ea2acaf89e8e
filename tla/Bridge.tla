------------------------------- MODULE Bridge -------------------------------
(***************************************************************************)
(* Wardveil's way to a quarantine: the Worker that Wardveil's executor     *)
(* calls (cloudflare/quarantine-target), Drive's internal endpoints        *)
(* (internal/httpapi/quarantine.go) and the quarantine service behind      *)
(* them, over the storage operations of Quarantine.                        *)
(*                                                                         *)
(* The Worker gives up on a call after five seconds and on any answer that *)
(* it does not understand; Drive's request goes on, since no handler looks *)
(* at the context.  The executor, which is not in this repository, repeats *)
(* an operation under the same identifiers until it has a final answer,    *)
(* and may read the state back.                                            *)
(***************************************************************************)
EXTENDS Quarantine

CONSTANTS Overlap,    \* TRUE: an operation may be repeated while Drive still works on it
          MaxTimeouts \* bound on the calls that the Worker gives up on

ASSUME BridgeAssumption == Overlap \in BOOLEAN /\ MaxTimeouts \in Nat

VARIABLES call,  \* the executor's call for each operation
          token, \* the service token that Drive was started with, seen from the Worker
          late   \* how many calls were given up

bridgeVars == <<vars, call, token, late>>
-----------------------------------------------------------------------------
Tokens  == {"same", "other", "unset"}
Final   == {"applied", "already_applied", "failed"}
NoCall  == [pc |-> "idle", n |-> None, r |-> None, told |-> "none", read |-> "none"]

BridgeInit == /\ Init /\ call = [op \in Operations |-> NoCall] /\ token \in Tokens
              /\ late = 0
-----------------------------------------------------------------------------
(* Drive's side of the connection: status and HTTP code of a result. *)

\* Mutant: only what the service was sure of is told apart.
ApplyStatusLoose(result) ==
  IF result \in {"conflict", "not_found"} THEN "failed" ELSE "applied"

\* Service.Apply: a conflict and a missing object are failures; any other
\* error leaves it open what happened.
ApplyStatus(result) == CASE result \in {"applied", "already_applied"} -> result
                         [] result \in {"conflict", "not_found"}      -> "failed"
                         [] OTHER                                     -> "unknown"

ApplyCode(status) == CASE status \in {"applied", "already_applied"} -> 200
                       [] status = "failed"                         -> 409
                       [] OTHER                                     -> 503
ReadCode(status)  == IF status = "unknown" THEN 503 ELSE 200

authorizeWardveilService(t) == CASE t = "unset" -> 503 [] t = "other" -> 404 [] OTHER -> 200

\* The Worker's side: what callDrive throws at, and what its caller then does.
callDrive(code, status) == IF code \in {200, 409, 503} THEN status ELSE "error"
Told(result)     == LET status == ApplyStatus(result)
                        seen   == callDrive(ApplyCode(status), status)
                    IN IF seen \in Final \cup {"unknown"} THEN seen ELSE "error"
ReadBackOf(result) == LET seen == callDrive(ReadCode(result), result)
                      IN IF seen \in {"quarantined", "not_quarantined", "unknown"}
                           THEN seen ELSE "error"
-----------------------------------------------------------------------------
Update(op, c) == call' = [call EXCEPT ![op] = c]
Awaited(r)    == \E op \in Operations : call[op].r = r

\* The executor takes up an operation on a node.
Ask(op, n) ==
  /\ call[op].pc = "idle"
  /\ Update(op, [NoCall EXCEPT !.pc = "ready", !.n = n])
  /\ UNCHANGED <<vars, token, late>>

\* No connection, or a caller that Drive does not know: nothing has happened.
Refused(op) ==
  /\ \/ call[op].pc = "ready" /\ Update(op, [call[op] EXCEPT !.told = "error"])
     \/ call[op].pc = "settled" /\ Update(op, [call[op] EXCEPT !.read = "error"])
  /\ UNCHANGED <<vars, token, late>>

\* applyQuarantine up to its await.
Send(op, r) ==
  /\ call[op].pc = "ready" /\ ~Awaited(r)
  /\ Overlap \/ \A q \in Requests : InFlight(q) => h[q].op # op
  /\ authorizeWardveilService(token) = 200
  /\ Apply(r, call[op].n, op)
  /\ Update(op, [call[op] EXCEPT !.pc = "applying", !.r = r])
  /\ UNCHANGED <<token, late>>

\* applyQuarantine after its await; without a final answer the executor
\* tries again.
Receive(op) ==
  LET c == call[op]
  IN /\ c.pc = "applying" /\ At(c.r, "done")
     /\ LET told == Told(h[c.r].result)
        IN Update(op, [c EXCEPT !.pc = IF told \in Final THEN "settled" ELSE "ready",
                                !.r = None, !.told = told])
     /\ UNCHANGED <<vars, token, late>>

\* Mutant: a call that was given up is taken for one that failed.
TimeoutFails(op) ==
  LET c == call[op]
  IN /\ c.pc \in {"applying", "reading"} /\ late < MaxTimeouts
     /\ Update(op, IF c.pc = "applying"
                     THEN [c EXCEPT !.pc = "settled", !.r = None, !.told = "failed"]
                     ELSE [c EXCEPT !.pc = "settled", !.r = None, !.read = "error"])
     /\ late' = late + 1 /\ UNCHANGED <<vars, token>>

\* AbortSignal.timeout: Drive goes on with the request, and nobody waits for
\* its answer.
Timeout(op) ==
  LET c == call[op]
  IN /\ c.pc \in {"applying", "reading"} /\ late < MaxTimeouts
     /\ Update(op, IF c.pc = "applying"
                     THEN [c EXCEPT !.pc = "ready", !.r = None, !.told = "error"]
                     ELSE [c EXCEPT !.pc = "settled", !.r = None, !.read = "error"])
     /\ late' = late + 1 /\ UNCHANGED <<vars, token>>

\* readQuarantine, before and after its await.
SendRead(op, r) ==
  /\ call[op].pc = "settled" /\ ~Awaited(r)
  /\ authorizeWardveilService(token) = 200
  /\ Read(r, call[op].n)
  /\ Update(op, [call[op] EXCEPT !.pc = "reading", !.r = r])
  /\ UNCHANGED <<token, late>>

ReceiveRead(op) ==
  LET c == call[op]
  IN /\ c.pc = "reading" /\ At(c.r, "done")
     /\ Update(op, [c EXCEPT !.pc = "settled", !.r = None, !.read = ReadBackOf(h[c.r].result)])
     /\ UNCHANGED <<vars, token, late>>

\* Drive is started again, perhaps with another token: the connections break.
RestartDrive ==
  /\ Restart
  /\ token' \in Tokens /\ UNCHANGED late
  /\ call' = [op \in Operations |->
                LET c == call[op]
                IN CASE c.pc = "applying" -> [c EXCEPT !.pc = "ready", !.r = None, !.told = "error"]
                     [] c.pc = "reading"  -> [c EXCEPT !.pc = "settled", !.r = None, !.read = "error"]
                     [] OTHER             -> c]

Work(r) == (ApplyStep(r) \/ ReadStep(r)) /\ UNCHANGED <<call, token, late>>

PublishFile == (\E n \in Nodes, p \in Payloads : Publish(n, p)) /\ UNCHANGED <<call, token, late>>

BridgeNext ==
  \/ RestartDrive \/ PublishFile
  \/ \E op \in Operations :
       \/ \E n \in Nodes : Ask(op, n)
       \/ \E r \in Requests : Send(op, r) \/ SendRead(op, r)
       \/ Refused(op) \/ Receive(op) \/ Timeout(op) \/ ReceiveRead(op)
  \/ \E r \in Requests : Work(r)

\* Drive serves its requests, and the executor goes on repeating: not every
\* call is refused, and after MaxTimeouts Drive answers in time.
BridgeSpec == /\ BridgeInit /\ [][BridgeNext]_bridgeVars
              /\ \A r \in Requests : WF_bridgeVars(Work(r))
              /\ \A op \in Operations : /\ SF_bridgeVars(\E r \in Requests : Send(op, r))
                                        /\ SF_bridgeVars(Receive(op))
-----------------------------------------------------------------------------
(* What Wardveil may rely on. *)

\* What the executor was told last about an operation is so, and stays so: an
\* operation that was applied holds the node, its payload is kept and not
\* active, and no later read finds the node free; one that failed does not
\* have the node, then or later (ApplyResult, docs/WARDVEIL-QUARANTINE.md:29).
ToldIsTrue ==
  \A op \in Operations :
    LET c == call[op]
    IN /\ c.told \in {"applied", "already_applied"} =>
            /\ HeldBy(c.n, op) /\ IsQuarantined(c.n)
            /\ quar[c.n] # None /\ objects[c.n] = None
            /\ c.read # "not_quarantined"
       /\ c.told = "failed" => ~HeldBy(c.n, op)
       /\ c.read = "quarantined" => IsQuarantined(c.n)

TokenSettles == <>[](token = "same")

\* An operation that Wardveil has taken up gets a final answer, whatever
\* timeouts and restarts get in its way, unless a restart tore its state file.
OperationSettles ==
  TokenSettles =>
    \A op \in Operations :
      call[op].pc = "ready" ~> \/ call[op].told \in Final
                               \/ \E n \in Nodes : qstate[n] = Torn

\* A claim that an interrupted delivery left behind is carried through by the
\* repetitions: no file stays half quarantined.
PendingResolves ==
  TokenSettles =>
    \A n \in Nodes, op \in Operations :
      qstate[n] = Claim(op, "pending") ~> qstate[n] = Claim(op, "quarantined")
-----------------------------------------------------------------------------
(* Why ToldIsTrue holds: what a call, and the requests it caused, rely on. *)

Calls == [pc : {"idle", "ready", "applying", "settled", "reading"},
          n : Nodes \cup {None}, r : Requests \cup {None},
          told : Final \cup {"none", "unknown", "error"},
          read : {"none", "quarantined", "not_quarantined", "unknown", "error"}]

\* The request is still at work on the operation, awaited or not.
Works(q, op) == InFlight(q) /\ h[q].op = op

\* Drive works on an operation in one request at a time.
OneWorker == \A op \in Operations : \A p, q \in Requests : Works(p, op) /\ Works(q, op) => p = q

\* No other request has claimed the node for the operation of one that found it
\* free, or has taken away the object that one is about to move.
WorkerOK(q) ==
  /\ h[q].pc \in {"checkquar", "checkobj", "claim"} => ~HeldBy(h[q].n, h[q].op)
  /\ \/ At(q, "statquar") /\ h[q].objectExists
     \/ h[q].pc \in {"link", "remove"}
     => objects[h[q].n] # None

\* The call waits for a request of its own, which carries what it asked for.
Waits(op) ==
  LET c == call[op]
  IN /\ c.pc = "applying" =>
          /\ c.r \in Requests /\ h[c.r].pc \in {"done"} \cup ApplyPCs
          /\ h[c.r].n = c.n /\ h[c.r].op = op
          /\ \A q \in Requests : Works(q, op) => q = c.r
          /\ At(c.r, "done") /\ h[c.r].result \in {"conflict", "not_found"} => ~HeldBy(c.n, op)
     /\ c.pc = "reading" =>
          /\ c.r \in Requests /\ h[c.r].pc \in {"done"} \cup ReadPCs /\ h[c.r].n = c.n
          /\ c.told \in {"applied", "already_applied"} =>
               /\ ~At(c.r, "rabsent")
               /\ At(c.r, "done") => h[c.r].result # "not_quarantined"

\* A final answer ends the work on an operation, and reads come after it.
Settles(op) ==
  LET c == call[op]
  IN /\ c.pc # "idle" => c.n \in Nodes
     /\ c.pc \in {"idle", "ready", "applying"} => c.told \notin Final /\ c.read = "none"
     /\ c.pc \in {"settled", "reading"} => \A q \in Requests : ~Works(q, op)

BridgeInductive == /\ Inductive /\ call \in [Operations -> Calls] /\ OneWorker
                   /\ \A q \in Requests : WorkerOK(q)
                   /\ \A op \in Operations : Waits(op) /\ Settles(op)
                   /\ ToldIsTrue
=============================================================================
