------------------------------- MODULE Quota --------------------------------
(***************************************************************************)
(* The byte quota of one Space (internal/quota): the service and its       *)
(* PostgreSQL repository.  Each call is one SQL statement, so concurrent   *)
(* callers interleave between calls; a caller that asks Check and then     *)
(* Reserve can find the quota changed in between.  The answer of a         *)
(* statement that was committed can be lost: the call then reports an      *)
(* error, and a caller that repeats it charges, or gives back, twice.      *)
(* The table has no rows for single reservations: a release gives back     *)
(* whatever it names, also bytes that another caller has reserved.         *)
(***************************************************************************)
EXTENDS Integers, FiniteSets, Functions

CONSTANTS Callers,  \* the callers of the service
          Sizes,    \* the sizes asked for, zero and negative ones included
          Limits,   \* the limits an administrator sets, NoLimit among them
          NoLimit,  \* limit_bytes IS NULL
          MaxBigint, \* the largest bigint
          MaxDoubt  \* bound on unreported and on unmatched

ASSUME QuotaAssumption ==
  /\ IsFiniteSet(Callers) /\ MaxBigint \in Nat /\ MaxDoubt \in Nat /\ Sizes \subseteq Int
  /\ NoLimit \notin Int /\ Limits \ {NoLimit} \subseteq 0..MaxBigint

VARIABLES used,       \* used_bytes
          limit,      \* limit_bytes
          answer,     \* the last answer each caller was given
          known,      \* what each caller holds, going by its answers
          unreported, \* history: bytes of reservations whose answer was lost
          unmatched   \* history: bytes that releases named and no caller's
                      \* holding was lowered by

vars == <<used, limit, answer, known, unreported, unmatched>>

Answers == {"none", "ok", "exceeded", "invalid_size", "unavailable", "error"}

TypeOK == /\ used \in 0..MaxBigint
          /\ limit \in (0..MaxBigint) \cup {NoLimit}
          /\ answer \in [Callers -> Answers]
          /\ known \in [Callers -> Nat]
          /\ unreported \in 0..MaxDoubt
          /\ unmatched \in 0..MaxDoubt

Init == /\ used = 0 /\ unreported = 0 /\ unmatched = 0 /\ limit \in Limits
        /\ answer = [c \in Callers |-> "none"]
        /\ known = [c \in Callers |-> 0]
-----------------------------------------------------------------------------
Answer(c, a) == answer' = [answer EXCEPT ![c] = a]
Refuse(c, a) == Answer(c, a) /\ UNCHANGED <<used, limit, known, unreported, unmatched>>

InvalidSize(c, bytes) == bytes <= 0 /\ Refuse(c, "invalid_size")

\* A statement that the database does not carry out, of Check, Reserve or Release.
Fail(c, bytes) == bytes > 0 /\ Refuse(c, "error")

Check(c, bytes) ==
  /\ bytes > 0
  /\ Refuse(c, IF limit # NoLimit /\ bytes > limit - used THEN "exceeded" ELSE "ok")

\* Mutant: the statement relies on an earlier Check.
FitsUnchecked(bytes) == bytes > 0
\* The WHERE clause of the reservation.
Fits(bytes) == limit # NoLimit => used + bytes <= limit

\* Mutant: a Space that is exactly full is reported as broken.
InvalidUsageFull(u) == u < 0 \/ (limit # NoLimit /\ u >= limit)
\* What the service refuses to report, after the statement has been committed.
InvalidUsage(u) == u < 0 \/ (limit # NoLimit /\ u > limit)

\* Mutant: the column is as wide as any sum.
OverflowsNever(bytes) == bytes < 0
\* The sum is a bigint: one that is too large is an error of the statement.
Overflows(bytes) == used + bytes > MaxBigint

\* The reservation is committed and its answer never arrives.
LoseReserve(c, bytes) ==
  /\ bytes > 0 /\ ~Overflows(bytes) /\ Fits(bytes)
  /\ used' = used + bytes
  /\ unreported' = unreported + bytes /\ unreported' <= MaxDoubt
  /\ Answer(c, "error")
  /\ UNCHANGED <<limit, known, unmatched>>

Reserve(c, bytes) ==
  /\ bytes > 0
  /\ \/ Overflows(bytes) /\ Refuse(c, "error")
     \/ ~Overflows(bytes) /\ ~Fits(bytes) /\ Refuse(c, "exceeded")
     \/ /\ ~Overflows(bytes) /\ Fits(bytes)
        /\ used' = used + bytes
        /\ IF InvalidUsage(used + bytes)
             THEN Answer(c, "unavailable") /\ UNCHANGED known
             ELSE Answer(c, "ok") /\ known' = [known EXCEPT ![c] = @ + bytes]
        /\ UNCHANGED <<limit, unreported, unmatched>>

\* GREATEST(used_bytes - bytes, 0)
Decrease(bytes) == IF used - bytes > 0 THEN used - bytes ELSE 0

\* What a release that was answered takes off the caller's own account.
Matched(c, bytes) == IF bytes < known[c] THEN bytes ELSE known[c]

\* Nothing compares what is given back with what was reserved.
Release(c, bytes) ==
  /\ bytes > 0
  /\ used' = Decrease(bytes)
  /\ known' = [known EXCEPT ![c] = @ - Matched(c, bytes)]
  /\ unmatched' = unmatched + (bytes - Matched(c, bytes)) /\ unmatched' <= MaxDoubt
  /\ Answer(c, "ok")
  /\ UNCHANGED <<limit, unreported>>

\* The release is committed and its answer never arrives.
LoseRelease(c, bytes) ==
  /\ bytes > 0
  /\ used' = Decrease(bytes)
  /\ unmatched' = unmatched + bytes /\ unmatched' <= MaxDoubt
  /\ Answer(c, "error")
  /\ UNCHANGED <<limit, known, unreported>>

\* Limits are set outside the service, below the present usage too.
SetLimit(l) == /\ limit' = l /\ l # limit
               /\ UNCHANGED <<used, answer, known, unreported, unmatched>>

Next == \/ \E c \in Callers, bytes \in Sizes :
             \/ InvalidSize(c, bytes) \/ Fail(c, bytes) \/ Check(c, bytes)
             \/ Reserve(c, bytes) \/ LoseReserve(c, bytes)
             \/ Release(c, bytes) \/ LoseRelease(c, bytes)
        \/ \E l \in Limits : SetLimit(l)

Spec == Init /\ [][Next]_vars
-----------------------------------------------------------------------------
(* Properties. *)

\* Usage is never raised past the limit in force at that moment, whatever the
\* callers were told by Check before; it may exceed a limit lowered later.
NeverRaisedPastLimit ==
  [][used' > used /\ limit # NoLimit => used' <= limit]_vars

\* Usage never exceeds what callers know to hold and the reservations whose
\* answer was lost.
NoHiddenCharge == used <= SumFunction(known) + unreported

\* What callers know to hold is charged, except for as many bytes as releases
\* have taken beyond their caller's own: those committed without an answer, as
\* by a caller that repeats its release, and those that named too much.
HoldingsAreCharged == SumFunction(known) + unreported <= used + unmatched

\* Usage is what the callers hold, up to what lost answers and releases beyond
\* a caller's own explain.  A reservation that is refused, or that the service
\* rejects after the commit, charges nothing; releases that are repeated or too
\* large cannot make up usage, nor take back more than they named (Reserve,
\* Release).
UsageIsAccounted == NoHiddenCharge /\ HoldingsAreCharged
=============================================================================
