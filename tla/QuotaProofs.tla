---------------------------- MODULE QuotaProofs -----------------------------
(***************************************************************************)
(* Proofs about Quota, for every finite set of callers, every set of sizes *)
(* and limits and every width of the column.                               *)
(*                                                                         *)
(* What is accounted for is a sum over the callers, so it rests on an      *)
(* induction over the finite sets of callers: the naturals are well        *)
(* founded, which gives induction for a set of naturals, and with it the   *)
(* recursion behind the sum and what one changed term does to it.          *)
(***************************************************************************)
EXTENDS Quota, FiniteSetTheorems, WellFoundedInduction, TLAPS

-----------------------------------------------------------------------------
(* Induction, and sums of functions over finite sets. *)

\* A set that holds 0 and every successor of its naturals holds them all.
LEMMA NatSetInduction ==
  ASSUME NEW S, 0 \in S, \A n \in Nat : n \in S => n + 1 \in S
  PROVE  Nat \subseteq S
<1> DEFINE R == OpToRel(<, Nat)
<1> SUFFICES ASSUME Nat \ S # {} PROVE FALSE
  OBVIOUS
<1>1. IsWellFoundedOn(R, Nat)
  BY NatLessThanWellFounded
<1>2. \A x, y \in Nat : y < x => <<y, x>> \in R
  BY DEF OpToRel
<1> HIDE DEF R
<1>3. PICK x \in Nat \ S : \A y \in Nat \ S : ~(<<y, x>> \in R)
  BY <1>1, WFMin
<1>4. x - 1 \in Nat /\ x - 1 < x
  BY <1>3
<1>5. x - 1 \in S
  BY <1>2, <1>3, <1>4
<1>6. (x - 1) + 1 \in S
  BY <1>4, <1>5
<1> QED
  BY <1>3, <1>6

\* A set of subsets of a finite set that holds the empty one, and every set
\* that it holds without one of its elements, holds them all.
LEMMA SubsetInduction ==
  ASSUME NEW D, IsFiniteSet(D), NEW Good, {} \in Good,
         \A s \in SUBSET D : s # {} /\ (\A x \in s : s \ {x} \in Good) => s \in Good
  PROVE  SUBSET D \subseteq Good
<1> DEFINE Upto == {n \in Nat : \A s \in SUBSET D : Cardinality(s) <= n => s \in Good}
<1>1. \A s \in SUBSET D : /\ IsFiniteSet(s) /\ Cardinality(s) \in Nat
                          /\ Cardinality(s) = 0 => s = {}
                          /\ \A x \in s : Cardinality(s \ {x}) = Cardinality(s) - 1
  BY FS_Subset, FS_CardinalityType, FS_EmptySet, FS_RemoveElement
<1>2. 0 \in Upto
  <2>1. ASSUME NEW s \in SUBSET D, Cardinality(s) <= 0 PROVE s \in Good
    <3>1. s = {}
      BY <1>1, <2>1
    <3> QED
      BY <3>1
  <2> QED
    BY <2>1
<1>3. ASSUME NEW n \in Nat, n \in Upto PROVE n + 1 \in Upto
  <2>1. ASSUME NEW s \in SUBSET D, Cardinality(s) <= n + 1, s # {} PROVE s \in Good
    <3>1. \A x \in s : s \ {x} \in SUBSET D /\ Cardinality(s \ {x}) <= n
      BY <1>1, <2>1
    <3> QED
      BY <1>3, <2>1, <3>1
  <2>2. \A s \in SUBSET D : Cardinality(s) <= n + 1 => s \in Good
    BY <2>1
  <2> QED
    BY <2>2
<1>4. Nat \subseteq Upto
  <2> HIDE DEF Upto
  <2> QED
    BY <1>2, <1>3, NatSetInduction
<1> QED
  BY <1>1, <1>4

Picked(s) == CHOOSE x \in s : TRUE

\* The terms added so far.
Added(f, it, s) == IF s = {} THEN 0 ELSE f[Picked(s)] + it[s \ {Picked(s)}]

LEMMA PickedIn == \A s : s # {} => Picked(s) \in s
BY DEF Picked

\* The recursion that defines the sum has a solution, so the sum satisfies it.
LEMMA SumRecursion ==
  ASSUME NEW D, IsFiniteSet(D), NEW f \in [D -> Int]
  PROVE  \E it \in [SUBSET D -> Int] :
           /\ \A s \in SUBSET D : it[s] = Added(f, it, s)
           /\ SumFunction(f) = it[D]
<1> DEFINE Good == {n \in Nat : \E it \in [SUBSET D -> Int] : \A s \in SUBSET D :
                                  Cardinality(s) <= n => it[s] = Added(f, it, s)}
<1>1. \A s \in SUBSET D : /\ IsFiniteSet(s) /\ Cardinality(s) \in Nat
                          /\ Cardinality(s) = 0 => s = {}
                          /\ Cardinality(s) <= Cardinality(D)
                          /\ \A x \in s : Cardinality(s \ {x}) = Cardinality(s) - 1
  BY FS_Subset, FS_CardinalityType, FS_EmptySet, FS_RemoveElement
<1>2. 0 \in Good
  <2> DEFINE it == [s \in SUBSET D |-> 0]
  <2>1. it \in [SUBSET D -> Int] /\ \A s \in SUBSET D :
                                      Cardinality(s) <= 0 => it[s] = Added(f, it, s)
    BY <1>1 DEF Added
  <2> HIDE DEF it
  <2> QED
    BY <2>1
<1>3. ASSUME NEW n \in Nat, n \in Good PROVE n + 1 \in Good
  <2>1. PICK g \in [SUBSET D -> Int] : \A s \in SUBSET D :
                                         Cardinality(s) <= n => g[s] = Added(f, g, s)
    BY <1>3
  <2>2. \A s \in SUBSET D : Added(f, g, s) \in Int
    BY PickedIn DEF Added
  <2> DEFINE it == [s \in SUBSET D |-> IF Cardinality(s) = n + 1 THEN Added(f, g, s) ELSE g[s]]
  <2>3. it \in [SUBSET D -> Int]
    BY <2>2
  <2>4. ASSUME NEW s \in SUBSET D, Cardinality(s) <= n + 1
        PROVE  it[s] = Added(f, it, s)
    <3>1. Added(f, it, s) = Added(f, g, s)
      <4>1. CASE s = {}
        BY <4>1 DEF Added
      <4>2. CASE s # {}
        <5> DEFINE t == s \ {Picked(s)}
        <5>1. t \in SUBSET D /\ Cardinality(t) <= n
          BY <1>1, <2>4, <4>2, PickedIn
        <5>2. it[t] = g[t]
          BY <1>1, <5>1
        <5> HIDE DEF it, t
        <5> QED
          BY <5>2 DEF Added, t
      <4> QED BY <4>1, <4>2
    <3>2. it[s] = Added(f, g, s)
      BY <1>1, <2>1, <2>4
    <3> QED
      BY <3>1, <3>2
  <2> HIDE DEF it
  <2> QED
    BY <2>3, <2>4
<1>4. Nat \subseteq Good
  <2> HIDE DEF Good
  <2> QED
    BY <1>2, <1>3, NatSetInduction
<1>5. D \in SUBSET D /\ Cardinality(D) \in Nat
  BY <1>1
<1>6. PICK g \in [SUBSET D -> Int] : \A s \in SUBSET D : g[s] = Added(f, g, s)
  BY <1>1, <1>4, <1>5
<1>7. \E i : i = [s \in SUBSET D |-> Added(f, i, s)]
  <2>1. g = [s \in SUBSET D |-> Added(f, g, s)]
    BY <1>6
  <2> QED
    BY <2>1
<1>8. \E it : /\ it = [s \in SUBSET D |-> Added(f, it, s)]
              /\ SumFunction(f) = it[D]
  <2> DEFINE it == CHOOSE i : i = [s \in SUBSET D |-> Added(f, i, s)]
  <2>1. it = [s \in SUBSET D |-> Added(f, it, s)]
    BY <1>7
  <2>2. SumFunction(f) = it[D]
    BY DEF SumFunction, SumFunctionOnSet, FoldFunctionOnSet, MapThenFoldSet, Added, Picked
  <2> HIDE DEF it
  <2> QED
    BY <2>1, <2>2
<1>9. PICK it : /\ it = [s \in SUBSET D |-> Added(f, it, s)]
                /\ SumFunction(f) = it[D]
  BY <1>8
<1>10. \A s \in SUBSET D : it[s] = Added(f, it, s)
  BY <1>9
<1>11. SUBSET D \subseteq {s \in SUBSET D : it[s] \in Int}
  <2> DEFINE Ints == {s \in SUBSET D : it[s] \in Int}
  <2>1. {} \in Ints
    <3>1. it[{}] = 0
      BY <1>10 DEF Added
    <3> QED
      BY <3>1
  <2>2. ASSUME NEW s \in SUBSET D, s # {}, \A x \in s : s \ {x} \in Ints PROVE s \in Ints
    <3> DEFINE x == Picked(s)
    <3>1. x \in s
      BY <2>2, PickedIn
    <3>2. f[x] \in Int /\ it[s \ {x}] \in Int
      BY <2>2, <3>1
    <3>3. it[s] = f[x] + it[s \ {x}]
      BY <1>10, <2>2 DEF Added
    <3> HIDE DEF x
    <3>4. it[s] \in Int
      BY <3>2, <3>3
    <3> QED
      BY <3>4
  <2>3. SUBSET D \subseteq Ints
    <3> HIDE DEF Ints
    <3> QED
      BY <2>1, <2>2, SubsetInduction
  <2> QED
    BY <2>3
<1>12. it \in [SUBSET D -> Int]
  <2>1. \A s \in SUBSET D : it[s] \in Int
    BY <1>11
  <2> QED
    BY <1>9, <2>1
<1> QED
  BY <1>9, <1>10, <1>12

\* Changing one term changes the sum by the difference.
LEMMA SumUpdate ==
  ASSUME NEW D, IsFiniteSet(D), NEW f \in [D -> Int], NEW c \in D, NEW v \in Int
  PROVE  SumFunction([f EXCEPT ![c] = v]) = SumFunction(f) + (v - f[c])
<1> DEFINE k == [f EXCEPT ![c] = v]
           d == v - f[c]
<1>1. k \in [D -> Int] /\ k[c] = v /\ (\A x \in D \ {c} : k[x] = f[x]) /\ d \in Int
  BY DEF k
<1>2. f[c] \in Int /\ k[c] = f[c] + d
  BY <1>1
<1>3. PICK F \in [SUBSET D -> Int] : /\ \A s \in SUBSET D : F[s] = Added(f, F, s)
                                     /\ SumFunction(f) = F[D]
  BY SumRecursion
<1> HIDE DEF k, d
<1>4. PICK K \in [SUBSET D -> Int] : /\ \A s \in SUBSET D : K[s] = Added(k, K, s)
                                     /\ SumFunction(k) = K[D]
  BY <1>1, SumRecursion
<1> DEFINE Good == {s \in SUBSET D : K[s] = F[s] + (IF c \in s THEN d ELSE 0)}
<1>5. {} \in Good
  <2>1. K[{}] = 0 /\ F[{}] = 0
    BY <1>3, <1>4 DEF Added
  <2> QED
    BY <2>1
<1>6. ASSUME NEW s \in SUBSET D, s # {}, \A x \in s : s \ {x} \in Good
      PROVE  s \in Good
  <2> DEFINE x == Picked(s)
             t == s \ {x}
  <2>1. x \in s /\ x \in D /\ t \in SUBSET D
    BY <1>6, PickedIn
  <2>2. K[s] = k[x] + K[t] /\ F[s] = f[x] + F[t]
    BY <1>3, <1>4, <1>6 DEF Added
  <2>3. K[t] = F[t] + (IF c \in t THEN d ELSE 0)
    BY <1>6, <2>1
  <2>4. f[x] \in Int /\ F[t] \in Int /\ F[s] \in Int
    BY <2>1
  <2>5. CASE x = c
    <3>1. c \notin t /\ c \in s
      BY <2>1, <2>5
    <3>2. K[s] = F[s] + d
      BY <1>1, <1>2, <2>2, <2>3, <2>4, <2>5, <3>1
    <3> QED
      BY <3>1, <3>2
  <2>6. CASE x # c
    <3>1. (c \in t <=> c \in s) /\ k[x] = f[x]
      BY <1>1, <2>1, <2>6
    <3> HIDE DEF x, t
    <3>2. K[s] = F[s] + (IF c \in s THEN d ELSE 0)
      BY <1>1, <2>2, <2>3, <2>4, <3>1
    <3> QED
      BY <3>2
  <2> QED
    BY <2>5, <2>6
<1>7. SUBSET D \subseteq Good
  <2> HIDE DEF Good
  <2> QED
    BY <1>5, <1>6, SubsetInduction
<1>8. K[D] = F[D] + d
  BY <1>7
<1> QED
  BY <1>3, <1>4, <1>8 DEF k, d

\* A sum of naturals is a natural, and no term exceeds it.
LEMMA SumBounds ==
  ASSUME NEW D, IsFiniteSet(D), NEW f \in [D -> Nat]
  PROVE  /\ SumFunction(f) \in Nat
         /\ \A c \in D : f[c] <= SumFunction(f)
<1>1. f \in [D -> Int]
  OBVIOUS
<1>2. PICK F \in [SUBSET D -> Int] : /\ \A s \in SUBSET D : F[s] = Added(f, F, s)
                                     /\ SumFunction(f) = F[D]
  BY <1>1, SumRecursion
<1> DEFINE Good == {s \in SUBSET D : F[s] \in Nat /\ \A c \in s : f[c] <= F[s]}
<1>3. {} \in Good
  <2>1. F[{}] = 0
    BY <1>2 DEF Added
  <2> QED
    BY <2>1
<1>4. ASSUME NEW s \in SUBSET D, s # {}, \A x \in s : s \ {x} \in Good
      PROVE  s \in Good
  <2> DEFINE x == Picked(s)
             t == s \ {x}
  <2>1. x \in s /\ x \in D /\ f[x] \in Nat
    BY <1>4, PickedIn
  <2>2. F[s] = f[x] + F[t]
    BY <1>2, <1>4 DEF Added
  <2>3. F[t] \in Nat /\ \A c \in t : f[c] <= F[t]
    BY <1>4, <2>1
  <2>4. \A c \in s : c = x \/ c \in t
    OBVIOUS
  <2> HIDE DEF x, t
  <2>5. F[s] \in Nat
    BY <2>1, <2>2, <2>3
  <2>6. ASSUME NEW c \in s PROVE f[c] <= F[s]
    <3>1. CASE c = x
      BY <2>1, <2>2, <2>3, <3>1
    <3>2. CASE c \in t
      <4>1. f[c] \in Nat /\ f[c] <= F[t]
        BY <2>3, <3>2
      <4> QED
        BY <2>1, <2>2, <2>3, <4>1
    <3> QED
      BY <2>4, <3>1, <3>2
  <2> QED
    BY <2>5, <2>6
<1>5. SUBSET D \subseteq Good
  <2> HIDE DEF Good
  <2> QED
    BY <1>3, <1>4, SubsetInduction
<1>6. F[D] \in Nat /\ \A c \in D : f[c] <= F[D]
  BY <1>5
<1> QED
  BY <1>2, <1>6

\* A sum of zeros is zero.
LEMMA SumOfZeros ==
  ASSUME NEW D, IsFiniteSet(D)
  PROVE  SumFunction([c \in D |-> 0]) = 0
<1> DEFINE f == [c \in D |-> 0]
<1>1. f \in [D -> Int] /\ \A c \in D : f[c] = 0
  OBVIOUS
<1> HIDE DEF f
<1>2. PICK F \in [SUBSET D -> Int] : /\ \A s \in SUBSET D : F[s] = Added(f, F, s)
                                     /\ SumFunction(f) = F[D]
  BY <1>1, SumRecursion
<1> DEFINE Good == {s \in SUBSET D : F[s] = 0}
<1>3. {} \in Good
  <2>1. F[{}] = 0
    BY <1>2 DEF Added
  <2> QED
    BY <2>1
<1>4. ASSUME NEW s \in SUBSET D, s # {}, \A x \in s : s \ {x} \in Good
      PROVE  s \in Good
  <2> DEFINE x == Picked(s)
  <2>1. x \in s
    BY <1>4, PickedIn
  <2>2. F[s] = f[x] + F[s \ {x}]
    BY <1>2, <1>4 DEF Added
  <2>3. f[x] = 0 /\ F[s \ {x}] = 0
    BY <1>1, <1>4, <2>1
  <2>4. F[s] = 0
    BY <2>2, <2>3
  <2> QED
    BY <2>4
<1>5. SUBSET D \subseteq Good
  <2> HIDE DEF Good
  <2> QED
    BY <1>3, <1>4, SubsetInduction
<1>6. F[D] = 0
  BY <1>5
<1> QED
  BY <1>2, <1>6 DEF f

-----------------------------------------------------------------------------
(* The quota. *)

Sum == SumFunction(known)

\* What the variables are, and that Sizes are integers.
LEMMA QuotaNumbers ==
  ASSUME TypeOK
  PROVE  /\ MaxBigint \in Nat /\ MaxDoubt \in Nat /\ IsFiniteSet(Callers)
         /\ Sizes \subseteq Int
         /\ used \in Nat /\ used <= MaxBigint
         /\ unreported \in Nat /\ unmatched \in Nat
         /\ known \in [Callers -> Nat]
         /\ Sum \in Nat
<1>1. MaxBigint \in Nat /\ MaxDoubt \in Nat /\ IsFiniteSet(Callers) /\ Sizes \subseteq Int
  BY QuotaAssumption
<1>2. known \in [Callers -> Nat]
  BY DEF TypeOK
<1>3. Sum \in Nat
  BY <1>1, <1>2, SumBounds DEF Sum
<1> QED
  BY <1>1, <1>2, <1>3 DEF TypeOK

\* A change of one caller's holding, in the sum.
LEMMA HoldingChanges ==
  ASSUME TypeOK, NEW c \in Callers, NEW v \in Int, known' = [known EXCEPT ![c] = v]
  PROVE  Sum' = Sum + (v - known[c])
<1>1. IsFiniteSet(Callers) /\ known \in [Callers -> Int]
  BY QuotaNumbers
<1> QED
  BY <1>1, SumUpdate DEF Sum

\* If a value falls by no more than b, it was at most b above.
LEMMA FallsBy ==
  ASSUME NEW u \in Int, NEW v \in Int, NEW b \in Int, u - b <= v
  PROVE  u <= v + b
OBVIOUS

\* Raising both terms of a sum that bounds another.
LEMMA BoundMoves ==
  ASSUME NEW x \in Int, NEW u \in Int, NEW v \in Int, NEW w \in Int, NEW b \in Int,
         x <= u + w, u <= v + b
  PROVE  x <= v + (w + b)
OBVIOUS

\* GREATEST takes off no more than was named, and nothing below zero.
LEMMA DecreaseBounds ==
  ASSUME TypeOK, NEW bytes \in Int, bytes > 0
  PROVE  /\ Decrease(bytes) \in Nat
         /\ Decrease(bytes) <= used
         /\ used - bytes <= Decrease(bytes)
         /\ Decrease(bytes) = used - bytes \/ Decrease(bytes) = 0
BY QuotaNumbers DEF Decrease

\* A release lowers its caller's holding by no more than it named, and by no
\* more than the caller held.
LEMMA MatchedBounds ==
  ASSUME TypeOK, NEW c \in Callers, NEW bytes \in Int, bytes > 0
  PROVE  /\ Matched(c, bytes) \in Nat
         /\ Matched(c, bytes) <= bytes
         /\ Matched(c, bytes) <= known[c]
         /\ known[c] \in Nat
BY QuotaNumbers DEF Matched

\* A reservation that the statement let through is one the service reports: the
\* WHERE clause has made the test that it makes after the commit.
LEMMA FittingIsValid ==
  ASSUME TypeOK, NEW bytes \in Int, bytes > 0, Fits(bytes)
  PROVE  ~InvalidUsage(used + bytes)
<1>1. used + bytes >= 0
  BY QuotaNumbers
<1>2. CASE limit = NoLimit
  BY <1>1, <1>2, QuotaNumbers DEF InvalidUsage
<1>3. CASE limit # NoLimit
  BY <1>1, <1>3, QuotaNumbers DEF InvalidUsage, Fits, TypeOK
<1> QED
  BY <1>2, <1>3

\* The four kinds of steps: a call that charges nothing, a reservation, a
\* release, and a new limit.
Charges(c, bytes) ==
  /\ bytes \in Int /\ bytes > 0 /\ ~Overflows(bytes) /\ Fits(bytes)
  /\ used' = used + bytes /\ UNCHANGED <<limit, unmatched>>
  /\ \/ /\ known' = [known EXCEPT ![c] = known[c] + bytes] /\ UNCHANGED unreported
        /\ Answer(c, "ok")
     \/ /\ unreported' = unreported + bytes /\ unreported' <= MaxDoubt /\ UNCHANGED known
        /\ Answer(c, "error")

GivesBack(c, bytes) ==
  /\ bytes \in Int /\ bytes > 0
  /\ used' = Decrease(bytes) /\ UNCHANGED <<limit, unreported>> /\ unmatched' <= MaxDoubt
  /\ \/ /\ known' = [known EXCEPT ![c] = known[c] - Matched(c, bytes)]
        /\ unmatched' = unmatched + (bytes - Matched(c, bytes))
        /\ Answer(c, "ok")
     \/ /\ unmatched' = unmatched + bytes /\ UNCHANGED known
        /\ Answer(c, "error")

LEMMA QuotaFrame ==
  ASSUME TypeOK, [Next]_vars
  PROVE  \/ UNCHANGED vars
         \/ \E c \in Callers, a \in Answers : Refuse(c, a)
         \/ \E c \in Callers, bytes \in Sizes : Charges(c, bytes) \/ GivesBack(c, bytes)
         \/ \E l \in Limits : SetLimit(l)
<1> DEFINE Goal == \/ \E c \in Callers, a \in Answers : Refuse(c, a)
                   \/ \E c \in Callers, bytes \in Sizes : Charges(c, bytes) \/ GivesBack(c, bytes)
                   \/ \E l \in Limits : SetLimit(l)
<1>1. ASSUME NEW c \in Callers, NEW bytes \in Sizes,
             InvalidSize(c, bytes) \/ Fail(c, bytes) \/ Check(c, bytes)
      PROVE  Goal
  BY <1>1 DEF InvalidSize, Fail, Check, Answers
<1>2. ASSUME NEW c \in Callers, NEW bytes \in Sizes, Reserve(c, bytes) PROVE Goal
  <2>1. bytes \in Int /\ bytes > 0
    BY <1>2, QuotaNumbers DEF Reserve
  <2>2. CASE Refuse(c, "error") \/ Refuse(c, "exceeded")
    BY <2>2 DEF Answers
  <2>3. CASE ~Overflows(bytes) /\ Fits(bytes) /\ ~(Refuse(c, "error") \/ Refuse(c, "exceeded"))
    <3>1. Charges(c, bytes)
      BY <1>2, <2>1, <2>3, FittingIsValid DEF Reserve, Charges
    <3> QED
      BY <3>1
  <2> QED
    BY <1>2, <2>2, <2>3 DEF Reserve
<1>3. ASSUME NEW c \in Callers, NEW bytes \in Sizes, LoseReserve(c, bytes) PROVE Goal
  <2>1. Charges(c, bytes)
    BY <1>3, QuotaNumbers DEF LoseReserve, Charges
  <2> QED
    BY <2>1
<1>4. ASSUME NEW c \in Callers, NEW bytes \in Sizes,
             Release(c, bytes) \/ LoseRelease(c, bytes)
      PROVE  Goal
  <2>1. GivesBack(c, bytes)
    BY <1>4, QuotaNumbers DEF Release, LoseRelease, GivesBack
  <2> QED
    BY <2>1
<1>5. CASE Next
  <2> HIDE DEF Goal
  <2>1. Goal
    BY <1>1, <1>2, <1>3, <1>4, <1>5 DEF Next, Goal
  <2> QED
    BY <2>1 DEF Goal
<1> QED
  BY <1>5

Accounts == TypeOK /\ NoHiddenCharge /\ HoldingsAreCharged

LEMMA InitAccounts == Init => Accounts
<1> SUFFICES ASSUME Init PROVE Accounts
  OBVIOUS
<1>1. TypeOK
  BY QuotaAssumption DEF Init, TypeOK, Answers
<1>2. SumFunction(known) = 0
  BY QuotaAssumption, SumOfZeros DEF Init
<1> QED
  BY <1>1, <1>2 DEF Init, Accounts, NoHiddenCharge, HoldingsAreCharged

\* A charge: the overflow test keeps the column in range, and what is charged
\* is added to the caller's holding or to what was not reported.
LEMMA ChargeStep ==
  ASSUME Accounts, NEW c \in Callers, NEW bytes \in Sizes, Charges(c, bytes)
  PROVE  Accounts'
<1>k. TypeOK /\ used <= Sum + unreported /\ Sum + unreported <= used + unmatched
  BY DEF Accounts, NoHiddenCharge, HoldingsAreCharged, Sum
<1>n. /\ MaxBigint \in Nat /\ MaxDoubt \in Nat /\ used \in Nat /\ used <= MaxBigint
      /\ unreported \in Nat /\ unmatched \in Nat /\ known \in [Callers -> Nat] /\ Sum \in Nat
  BY <1>k, QuotaNumbers
<1>b. /\ bytes \in Int /\ bytes > 0 /\ used' = used + bytes /\ used + bytes <= MaxBigint
      /\ limit' = limit /\ unmatched' = unmatched
  BY <1>n DEF Charges, Overflows
<1>1. CASE /\ known' = [known EXCEPT ![c] = known[c] + bytes] /\ unreported' = unreported
           /\ Answer(c, "ok")
  <2>1. PICK v \in Int : v = known[c] + bytes /\ v >= 0
    BY <1>n, <1>b
  <2>2. known' = [known EXCEPT ![c] = v]
    BY <1>1, <2>1
  <2>3. Sum' = Sum + (v - known[c])
    BY <1>k, <2>2, HoldingChanges
  <2>4. known[c] \in Nat
    BY <1>n
  <2>5. Sum' = Sum + bytes
    BY <1>n, <1>b, <2>1, <2>3, <2>4
  <2>6. TypeOK'
    BY <1>k, <1>n, <1>b, <1>1, <2>2 DEF TypeOK, Answer, Answers
  <2>7. used' <= Sum' + unreported' /\ Sum' + unreported' <= used' + unmatched'
    BY <1>k, <1>n, <1>b, <1>1, <2>5
  <2> QED
    BY <2>6, <2>7 DEF Accounts, NoHiddenCharge, HoldingsAreCharged, Sum
<1>2. CASE /\ unreported' = unreported + bytes /\ unreported' <= MaxDoubt /\ known' = known
           /\ Answer(c, "error")
  <2>1. Sum' = Sum
    BY <1>2 DEF Sum
  <2>2. TypeOK'
    BY <1>k, <1>n, <1>b, <1>2 DEF TypeOK, Answer, Answers
  <2>3. used' <= Sum' + unreported' /\ Sum' + unreported' <= used' + unmatched'
    BY <1>k, <1>n, <1>b, <1>2, <2>1
  <2> QED
    BY <2>2, <2>3 DEF Accounts, NoHiddenCharge, HoldingsAreCharged, Sum
<1> QED
  BY <1>1, <1>2 DEF Charges

\* A release: the usage falls by as much as the holding and what is unmatched
\* account for, or it ends at zero, which no holding is below.
LEMMA GiveBackStep ==
  ASSUME Accounts, NEW c \in Callers, NEW bytes \in Sizes, GivesBack(c, bytes)
  PROVE  Accounts'
<1>k. TypeOK /\ used <= Sum + unreported /\ Sum + unreported <= used + unmatched
  BY DEF Accounts, NoHiddenCharge, HoldingsAreCharged, Sum
<1>n. /\ MaxBigint \in Nat /\ MaxDoubt \in Nat /\ used \in Nat /\ used <= MaxBigint
      /\ unreported \in Nat /\ unmatched \in Nat /\ known \in [Callers -> Nat] /\ Sum \in Nat
      /\ IsFiniteSet(Callers)
  BY <1>k, QuotaNumbers
<1>b. /\ bytes \in Int /\ bytes > 0 /\ limit' = limit /\ unreported' = unreported
      /\ used' \in Nat /\ used' <= used /\ used - bytes <= used'
      /\ used' = used - bytes \/ used' = 0
  BY <1>k, DecreaseBounds DEF GivesBack
<1>a. /\ used \in Nat /\ used' \in Nat /\ bytes \in Int /\ unreported \in Nat
      /\ unmatched \in Nat /\ Sum \in Nat
      /\ used' <= used /\ used <= used' + bytes
  <2>1. used - bytes <= used'
    BY <1>b
  <2>2. used \in Int /\ used' \in Int /\ bytes \in Int
    BY <1>n, <1>b
  <2>3. used <= used' + bytes
    BY <2>1, <2>2, FallsBy
  <2> QED
    BY <1>n, <1>b, <2>3
<1>1. CASE /\ known' = [known EXCEPT ![c] = known[c] - Matched(c, bytes)]
           /\ unmatched' = unmatched + (bytes - Matched(c, bytes)) /\ unmatched' <= MaxDoubt
           /\ Answer(c, "ok")
  <2>1. PICK m \in Nat : m = Matched(c, bytes) /\ m <= bytes /\ m <= known[c] /\ known[c] \in Nat
    BY <1>k, <1>b, MatchedBounds
  <2>2. PICK v \in Int : v = known[c] - m /\ v >= 0
    BY <2>1
  <2>3. known' = [known EXCEPT ![c] = v] /\ known' \in [Callers -> Nat]
    BY <1>n, <1>1, <2>1, <2>2
  <2>4. Sum' = Sum + (v - known[c])
    BY <1>k, <2>3, HoldingChanges
  <2>5. Sum' \in Nat
    BY <1>n, <2>3, SumBounds DEF Sum
  <2>6. Sum' = Sum - m /\ unmatched' = unmatched + (bytes - m)
    BY <1>n, <1>1, <2>1, <2>2, <2>4
  <2>7. TypeOK'
    BY <1>k, <1>n, <1>b, <1>1, <2>1, <2>3, <2>6 DEF TypeOK, Answer, Answers
  <2>8. used' <= Sum' + unreported' /\ Sum' + unreported' <= used' + unmatched'
    BY <1>k, <1>n, <1>b, <2>1, <2>5, <2>6
  <2> QED
    BY <2>7, <2>8 DEF Accounts, NoHiddenCharge, HoldingsAreCharged, Sum
<1>2. CASE /\ unmatched' = unmatched + bytes /\ unmatched' <= MaxDoubt /\ known' = known
           /\ Answer(c, "error")
  <2>1. Sum' = Sum
    BY <1>2 DEF Sum
  <2>2. TypeOK'
    BY <1>k, <1>n, <1>b, <1>2 DEF TypeOK, Answer, Answers
  <2>3. unmatched' = unmatched + bytes /\ unreported' = unreported
    BY <1>b, <1>2
  <2>4. used' <= Sum' + unreported'
    BY <1>k, <1>a, <2>1, <2>3
  <2>5. Sum' + unreported' <= used' + unmatched'
    <3>1. Sum + unreported <= used + unmatched
      BY <1>k
    <3>2. Sum + unreported \in Int
      BY <1>n
    <3>3. used \in Int /\ unmatched \in Int
      BY <1>n
    <3>4. used' \in Int /\ bytes \in Int
      BY <1>a
    <3>5. used <= used' + bytes
      BY <1>a
    <3>6. PICK x \in Int : x = Sum + unreported
      BY <3>2
    <3>7. x <= used + unmatched
      BY <3>1, <3>6
    <3>8. x <= used' + (unmatched + bytes)
      BY <3>3, <3>4, <3>5, <3>7, BoundMoves, Zenon
    <3> QED
      BY <2>1, <2>3, <3>6, <3>8
  <2> QED
    BY <2>2, <2>4, <2>5 DEF Accounts, NoHiddenCharge, HoldingsAreCharged, Sum
<1> QED
  BY <1>1, <1>2 DEF GivesBack

LEMMA AccountsStep == Accounts /\ [Next]_vars => Accounts'
<1> SUFFICES ASSUME Accounts, [Next]_vars PROVE Accounts'
  OBVIOUS
<1>t. TypeOK
  BY DEF Accounts
<1>1. CASE UNCHANGED vars
  BY <1>1 DEF vars, Accounts, TypeOK, NoHiddenCharge, HoldingsAreCharged
<1>2. ASSUME NEW c \in Callers, NEW a \in Answers, Refuse(c, a) PROVE Accounts'
  BY <1>2 DEF Refuse, Answer, Accounts, TypeOK, NoHiddenCharge, HoldingsAreCharged
<1>3. ASSUME NEW c \in Callers, NEW bytes \in Sizes, Charges(c, bytes) \/ GivesBack(c, bytes)
      PROVE  Accounts'
  BY <1>3, ChargeStep, GiveBackStep
<1>4. ASSUME NEW l \in Limits, SetLimit(l) PROVE Accounts'
  BY <1>4, QuotaAssumption DEF SetLimit, Accounts, TypeOK, NoHiddenCharge, HoldingsAreCharged
<1> QED
  BY <1>t, <1>1, <1>2, <1>3, <1>4, QuotaFrame

\* Usage stays within a bigint and never falls below zero, whatever is
\* reserved and released (the overflow of the sum, GREATEST).
THEOREM QuotaTypeOK == Spec => []TypeOK
<1>1. Accounts => TypeOK
  BY DEF Accounts
<1> QED
  BY <1>1, InitAccounts, AccountsStep, PTL DEF Spec

\* For any number of callers, and although answers of reservations and of
\* releases are lost and releases repeated or too large: every byte of usage is
\* one that a caller knows to hold or one whose reservation was never reported,
\* and every byte held is charged, up to what releases took beyond their
\* caller's own.  Without such a release the two sums are equal (Reserve,
\* Release).
THEOREM UsageStaysAccounted == Spec => []UsageIsAccounted
<1>1. Accounts => UsageIsAccounted
  BY DEF Accounts, UsageIsAccounted
<1> QED
  BY <1>1, InitAccounts, AccountsStep, PTL DEF Spec

\* The WHERE clause of the reservation keeps usage within the limit in force,
\* whatever Check answered before and however the limit moved since.
THEOREM LimitHolds == Spec => NeverRaisedPastLimit
<1>1. TypeOK /\ [Next]_vars => [used' > used /\ limit # NoLimit => used' <= limit]_vars
  <2> SUFFICES ASSUME TypeOK, [Next]_vars, used' > used, limit # NoLimit PROVE used' <= limit
    OBVIOUS
  <2>1. used \in Nat
    BY QuotaNumbers
  <2>2. used' # used
    BY <2>1
  <2>3. ASSUME NEW c \in Callers, NEW bytes \in Sizes, GivesBack(c, bytes) PROVE FALSE
    BY <2>1, <2>3, DecreaseBounds DEF GivesBack
  <2>4. ASSUME NEW c \in Callers, NEW bytes \in Sizes, Charges(c, bytes) PROVE used' <= limit
    BY <2>4 DEF Charges, Fits
  <2> QED
    BY <2>2, <2>3, <2>4, QuotaFrame DEF vars, Refuse, SetLimit
<1>2. Accounts => TypeOK
  BY DEF Accounts
<1> QED
  BY <1>1, <1>2, InitAccounts, AccountsStep, PTL DEF Spec, NeverRaisedPastLimit

=============================================================================
