---------------------------- MODULE MCAcceptance ----------------------------
(* Builds that lack up to two safeguards before scanners that break up to   *)
(* two promises, and inputs with up to one defect.                          *)
EXTENDS Acceptance, TLC

Builds == {Safeguards \ {x, y} : x, y \in Safeguards} \cup {Safeguards}
Scanners == {Promises \ {x, y} : x, y \in Promises} \cup {Promises}

GoodSecret == [kind |-> "regular", perm |-> 384, size |-> 64, lines |-> 1]
GoodEvidence == [absolute |-> TRUE, kind |-> "regular", perm |-> 384, size |-> 2000,
                 json |-> TRUE, says |-> EvidenceFields, observed |-> now - 3600]
GoodEndpoint == [scheme |-> "http", decorated |-> FALSE, path |-> "/v1/scan",
                 port |-> "8791", host |-> "loopback"]
Good == [secret |-> GoodSecret, evidence |-> GoodEvidence, endpoint |-> GoodEndpoint,
         tokens |-> TRUE]

SecretDefects == {[GoodSecret EXCEPT !.kind = "directory"], [GoodSecret EXCEPT !.perm = 416],
                  [GoodSecret EXCEPT !.size = 4097], [GoodSecret EXCEPT !.size = 31],
                  [GoodSecret EXCEPT !.lines = 0], [GoodSecret EXCEPT !.lines = 2]}
EvidenceDefects ==
  {[GoodEvidence EXCEPT !.absolute = FALSE], [GoodEvidence EXCEPT !.kind = "symlink"],
   [GoodEvidence EXCEPT !.perm = 256], [GoodEvidence EXCEPT !.size = 0],
   [GoodEvidence EXCEPT !.size = 65537], [GoodEvidence EXCEPT !.json = FALSE]}
    \cup {[GoodEvidence EXCEPT !.says = @ \ {f}] : f \in EvidenceFields}
    \cup {[GoodEvidence EXCEPT !.observed = t] :
            t \in {now + 301, now + 300, now - 86400, now - 86401}}
EndpointDefects ==
  {[GoodEndpoint EXCEPT !.scheme = "https"], [GoodEndpoint EXCEPT !.decorated = TRUE],
   [GoodEndpoint EXCEPT !.path = "/"], [GoodEndpoint EXCEPT !.port = ""],
   [GoodEndpoint EXCEPT !.host = "remote"]}

Inputs == {Good, [Good EXCEPT !.tokens = FALSE]}
            \cup {[Good EXCEPT !.secret = s] : s \in SecretDefects}
            \cup {[Good EXCEPT !.evidence = e] : e \in EvidenceDefects}
            \cup {[Good EXCEPT !.endpoint = e] : e \in EndpointDefects}

SomeTrials == [build : Builds, scanner : Scanners, input : {Good}]
                \cup [build : {Safeguards}, scanner : {Promises}, input : Inputs]
=============================================================================
