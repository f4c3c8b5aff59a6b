----------------------------- MODULE OperationsProofs -----------------------------
(****************************************************************************)
(* What guards and measures the service: the circuit breaker over reports   *)
(* of any length, the judges and their calibration for any scores and any   *)
(* golden set, the experiments for any weights and results, and the limiter *)
(* for any keys, requests, limit and window.                                *)
(****************************************************************************)
EXTENDS CircuitBreaker, Judge, Experiments, RateLimiter, SequenceTheorems,
        FiniteSetTheorems, WellFoundedInduction, TLAPS

--------------------------------------------------------------------------------
(****************************************************************************)
(* Induction and sums.  The induction theorems of the library take an       *)
(* operator, which no prover here can put in; that of well-founded          *)
(* relations on minimal elements takes sets, and what follows comes from it.*)
(****************************************************************************)
LEMMA Least ==
  ASSUME NEW T, T \subseteq Nat, T # {}
  PROVE  \E x \in T : \A y \in T : x <= y
<1> DEFINE R == OpToRel(<, Nat)
<1>1. IsWellFoundedOn(R, Nat)
  BY NatLessThanWellFounded
<1>2. \A x, y \in Nat : <<x, y>> \in R <=> x < y
  BY DEF OpToRel
<1> HIDE DEF R
<1>3. PICK x \in T : \A y \in T : ~(<<y, x>> \in R)
  BY <1>1, WFMin
<1>4. \A y \in T : x <= y
  <2> TAKE y \in T
  <2>1. x \in Nat /\ y \in Nat /\ ~(y < x)
    BY <1>2, <1>3
  <2> QED  BY <2>1
<1> QED  BY <1>4

\* Induction, with a set for the property.
LEMMA Induct ==
  ASSUME NEW P, 0 \in P, \A n \in Nat : n \in P => n + 1 \in P
  PROVE  \A n \in Nat : n \in P
<1> SUFFICES ASSUME NEW n \in Nat, n \notin P PROVE FALSE
  OBVIOUS
<1>1. PICK x \in Nat \ P : \A y \in Nat \ P : x <= y
  BY Least
<1>2. x - 1 \in Nat /\ x - 1 \in P
  BY <1>1
<1> QED  BY <1>1, <1>2

\* Induction over finite sets: every set but the empty one has an element it may do without.
LEMMA InductSet ==
  ASSUME NEW S, IsFiniteSet(S), NEW P, {} \in P,
         \A s \in SUBSET S : s # {} => \E x \in s : s \ {x} \in P => s \in P
  PROVE  \A s \in SUBSET S : s \in P
<1> DEFINE Q == {n \in Nat : \A s \in SUBSET S : Cardinality(s) = n => s \in P}
<1>1. \A s \in SUBSET S : IsFiniteSet(s) /\ Cardinality(s) \in Nat
  BY FS_Subset, FS_CardinalityType
<1>2. 0 \in Q
  BY <1>1, FS_EmptySet
<1>3. ASSUME NEW n \in Nat, n \in Q PROVE n + 1 \in Q
  <2> SUFFICES ASSUME NEW s \in SUBSET S, Cardinality(s) = n + 1 PROVE s \in P
    OBVIOUS
  <2>1. s # {}
    <3>1. Cardinality({}) = 0 /\ n + 1 # 0
      BY FS_EmptySet
    <3> QED  BY <3>1
  <2>2. PICK x \in s : s \ {x} \in P => s \in P
    BY <2>1
  <2>3. Cardinality(s \ {x}) = n
    <3>1. Cardinality(s \ {x}) = Cardinality(s) - 1
      BY <1>1, FS_RemoveElement
    <3> QED  BY <3>1
  <2> QED  BY <1>3, <2>2, <2>3
<1> HIDE DEF Q
<1>4. \A n \in Nat : n \in Q
  BY <1>2, <1>3, Induct
<1> QED  BY <1>1, <1>4 DEF Q

\* c picks an element of every set, with an integer in g, and sum adds these up.
Picks(S, c, g) ==
  IsFiniteSet(S) /\ \A s \in SUBSET S : s # {} => c[s] \in s /\ g[c[s]] \in Int

SumsOf(S, c, g) ==
  {sum \in [SUBSET S -> Int] :
     /\ sum[{}] = 0
     /\ \A s \in SUBSET S : s # {} => sum[s] = g[c[s]] + sum[s \ {c[s]}]}

\* There is a sum, whatever order it is taken in.
LEMMA SumExists ==
  ASSUME NEW S, NEW c, NEW g, Picks(S, c, g)
  PROVE  SumsOf(S, c, g) # {}
<1>0. IsFiniteSet(S) /\ \A s \in SUBSET S : s # {} => c[s] \in s /\ g[c[s]] \in Int
  BY DEF Picks
<1> DEFINE Small(n) == {s \in SUBSET S : Cardinality(s) <= n}
           Sums(n) == {sum \in [Small(n) -> Int] :
                         /\ sum[{}] = 0
                         /\ \A s \in Small(n) : s # {} => sum[s] = g[c[s]] + sum[s \ {c[s]}]}
           P == {n \in Nat : Sums(n) # {}}
<1>1. \A s \in SUBSET S : IsFiniteSet(s) /\ Cardinality(s) \in Nat
  BY <1>0, FS_Subset, FS_CardinalityType
<1>2. 0 \in P
  <2>1. Small(0) = {{}}
    BY <1>1, FS_EmptySet
  <2>2. [s \in Small(0) |-> 0] \in Sums(0)
    BY <2>1
  <2> QED  BY <2>2
<1>3. ASSUME NEW n \in Nat, n \in P PROVE n + 1 \in P
  <2>1. PICK sum : sum \in Sums(n)
    BY <1>3
  <2> DEFINE more == [s \in Small(n + 1) |-> IF s = {} THEN 0 ELSE g[c[s]] + sum[s \ {c[s]}]]
  <2>2. \A s \in Small(n + 1) : s # {} => s \ {c[s]} \in Small(n)
    <3> TAKE s \in Small(n + 1)
    <3> HAVE s # {}
    <3>1. Cardinality(s \ {c[s]}) = Cardinality(s) - 1
      BY <1>0, <1>1, FS_RemoveElement
    <3> QED  BY <1>1, <3>1
  <2>3. \A s \in Small(n) : s \in Small(n + 1)
    BY <1>1
  <2>4. \A s \in Small(n) : more[s] = sum[s]
    BY <2>1, <2>3
  <2> HIDE DEF Small
  <2>5. more \in [Small(n + 1) -> Int]
    BY <1>0, <2>1, <2>2 DEF Small
  <2>6. {} \in Small(n + 1)
    BY FS_EmptySet DEF Small
  <2>7. \A s \in Small(n + 1) : s # {} => more[s] = g[c[s]] + more[s \ {c[s]}]
    BY <2>2, <2>4
  <2>8. more[{}] = 0
    BY <2>6
  <2> HIDE DEF more
  <2>9. more \in Sums(n + 1)
    BY <2>5, <2>7, <2>8
  <2> HIDE DEF Sums
  <2>10. n + 1 \in Nat /\ Sums(n + 1) # {}
    BY <2>9
  <2> QED  BY <2>10
<1> HIDE DEF P
<1>4. Cardinality(S) \in P
  BY <1>0, <1>1, <1>2, <1>3, Induct
<1>5. Small(Cardinality(S)) = SUBSET S
  BY <1>0, <1>1, FS_Subset
<1> QED  BY <1>4, <1>5 DEF P, SumsOf

\* The sums over subsets from which the library takes that over the set.
AnyOf(s) == CHOOSE x \in s : TRUE

SetSums(f, S) ==
  {sum \in [SUBSET S -> Int] :
     /\ SumFunctionOnSet(f, S) = sum[S] /\ sum[{}] = 0
     /\ \A s \in SUBSET S : s # {} => sum[s] = f[AnyOf(s)] + sum[s \ {AnyOf(s)}]}

LEMMA SetSum ==
  ASSUME NEW f, NEW S, IsFiniteSet(S), \A x \in S : f[x] \in Int
  PROVE  SetSums(f, S) # {}
<1> DEFINE Is(it) == it = [s \in SUBSET S |->
                             IF s = {} THEN 0
                             ELSE f[CHOOSE x \in s : TRUE] + it[s \ {CHOOSE x \in s : TRUE}]]
           c == [s \in SUBSET S |-> CHOOSE x \in s : TRUE]
           sum == CHOOSE it : Is(it)
<1>1. SumFunctionOnSet(f, S) = sum[S]
  BY DEF SumFunctionOnSet, FoldFunctionOnSet, MapThenFoldSet
<1>2. \A s \in SUBSET S : s # {} => c[s] \in s /\ f[c[s]] \in Int
  OBVIOUS
<1>3. \E it : Is(it)
  <2> HIDE DEF c
  <2>1. PICK it : it \in SumsOf(S, c, f)
    BY <1>2, SumExists DEF Picks
  <2>2. /\ it \in [SUBSET S -> Int]
        /\ \A s \in SUBSET S : it[s] = IF s = {} THEN 0
                                  ELSE f[CHOOSE x \in s : TRUE] + it[s \ {CHOOSE x \in s : TRUE}]
    <3>1. \A s \in SUBSET S : c[s] = CHOOSE x \in s : TRUE
      BY DEF c
    <3>2. /\ it \in [SUBSET S -> Int] /\ it[{}] = 0
          /\ \A s \in SUBSET S : s # {} => it[s] = f[c[s]] + it[s \ {c[s]}]
      BY <2>1 DEF SumsOf
    <3> QED  BY <3>1, <3>2
  <2>3. Is(it)
    BY <2>2
  <2> QED  BY <2>3
<1>4. Is(sum)
  <2> HIDE DEF Is
  <2> QED  BY <1>3
<1> HIDE DEF sum
<1>5. /\ sum[{}] = 0
      /\ \A s \in SUBSET S : s # {} => sum[s] = f[c[s]] + sum[s \ {c[s]}]
  BY <1>4
<1> DEFINE P == {s \in SUBSET S : sum[s] \in Int}
<1>6. \A s \in SUBSET S : s \in P
  <2> HIDE DEF c
  <2>1. \A s \in SUBSET S : s # {} => \E x \in s : s \ {x} \in P => s \in P
    <3> SUFFICES ASSUME NEW s \in SUBSET S, s # {} PROVE s \ {c[s]} \in P => s \in P
      BY <1>2
    <3>1. f[c[s]] \in Int /\ sum[s] = f[c[s]] + sum[s \ {c[s]}]
      BY <1>2, <1>5
    <3> QED  BY <3>1
  <2>2. {} \in P
    BY <1>5
  <2> HIDE DEF P
  <2> QED  BY <2>1, <2>2, InductSet
<1>7. sum \in [SUBSET S -> Int]
  BY <1>4, <1>6
<1>8. \A s \in SUBSET S : s # {} => sum[s] = f[AnyOf(s)] + sum[s \ {AnyOf(s)}]
  BY <1>5 DEF AnyOf
<1> HIDE DEF c
<1> QED  BY <1>1, <1>5, <1>7, <1>8 DEF SetSums

LEMMA MaxIs ==
  ASSUME NEW n \in Nat, NEW s \in SUBSET (1..n), s # {}
  PROVE  Max(s) \in s /\ \A x \in s : Max(s) >= x
<1> DEFINE T == {k \in Nat : n - k \in s}
<1>1. PICK x : x \in s /\ x \in 1..n
  OBVIOUS
<1>2. n - x \in T
  BY <1>1
<1>3. PICK k \in T : \A j \in T : k <= j
  BY <1>2, Least
<1>4. n - k \in s
  BY <1>3
<1>5. \A y \in s : n - k >= y
  <2> TAKE y \in s
  <2>1. y \in 1..n
    OBVIOUS
  <2>2. n - (n - y) = y /\ n - y \in Nat
    BY <2>1
  <2>3. k <= n - y
    BY <1>3, <2>2
  <2> QED  BY <1>3, <2>1, <2>3
<1> QED  BY <1>4, <1>5 DEF Max

--------------------------------------------------------------------------------
(****************************************************************************)
(* The circuit breaker.                                                     *)
(****************************************************************************)

\* The shape of the breaker's fields.
CbTypeOK ==
  /\ level \in Nat
  /\ failures \in 0..5 /\ successes \in 0..3 /\ sinceFall \in 0..3
  /\ sideFails \in [Sides -> 0..3]
  /\ sideDown \in [Sides -> BOOLEAN]
  /\ sideBad \in [Sides -> 0..3]

\* A streak the breaker counts is a streak there was.  The two differ when the
\* level was degraded: the count goes on, and what it counted is still true.
StreakIsReal == successes <= sinceFall

\* The failures of a side the breaker counts are those since its last success.
SideCounted == \A s \in Sides : sideFails[s] = sideBad[s]

CbInv ==
  CbTypeOK /\ StreakIsReal /\ SideCounted /\ TrippedIsLevel3 /\ DownMeansFailing

--------------------------------------------------------------------------------
LEMMA InitCbInv == CbInit => CbInv
BY DEF CbInit, CbInv, CbTypeOK, StreakIsReal, SideCounted, TrippedIsLevel3, DownMeansFailing,
       FAILURES, LATERAL

\* A latency report degrades to level 2 at most, and leaves a tripped breaker alone.
LEMMA LatencyCbInv ==
  ASSUME CbInv, NEW slow \in BOOLEAN, record_llm_latency(slow)
  PROVE  CbInv'
<1>1. /\ level' \in Nat /\ level' <= 3
      /\ level = 3 => level' = 3
  BY DEF record_llm_latency, CbInv, CbTypeOK, TrippedIsLevel3
<1> QED
  BY <1>1 DEF record_llm_latency, sideVars, CbInv, CbTypeOK, StreakIsReal, SideCounted,
              TrippedIsLevel3, DownMeansFailing

LEMMA FailureCbInv ==
  ASSUME CbInv, record_llm_failure
  PROVE  CbInv'
<1>1. /\ failures' \in 0..5 /\ successes' = 0 /\ sinceFall' = 0
      /\ level' = IF failures' = 5 THEN 3 ELSE level
  BY DEF record_llm_failure, CbInv, CbTypeOK, UpTo, FAILURES
<1>2. UNCHANGED <<sideFails, sideDown, sideBad>>
  BY DEF record_llm_failure, sideVars
<1>3. CbTypeOK' /\ StreakIsReal'
  BY <1>1, <1>2 DEF CbInv, CbTypeOK, StreakIsReal
<1>4. TrippedIsLevel3'
  BY <1>1 DEF CbInv, CbTypeOK, TrippedIsLevel3, FAILURES
<1>5. SideCounted' /\ DownMeansFailing'
  BY <1>2 DEF CbInv, SideCounted, DownMeansFailing
<1> QED BY <1>3, <1>4, <1>5 DEF CbInv

\* What a success does to the level and the two streaks.
LEMMA SuccessSteps ==
  ASSUME CbInv, record_llm_success
  PROVE  /\ level' \in Nat /\ level' <= level
         /\ successes' \in 0..3 /\ sinceFall' \in 0..3 /\ successes' <= sinceFall'
         /\ level' < level => level' = level - 1 /\ sinceFall >= 2
<1>0. /\ level \in Nat /\ successes \in 0..3 /\ sinceFall \in 0..3 /\ successes <= sinceFall
  BY DEF CbInv, CbTypeOK, StreakIsReal
<1> DEFINE streak == UpTo(successes + 1, RECOVERY)
           fall == level # 0 /\ streak = RECOVERY
<1>1. /\ level' = IF fall THEN level - 1 ELSE level
      /\ successes' = IF fall THEN 0 ELSE streak
      /\ sinceFall' = IF fall THEN 0 ELSE UpTo(sinceFall + 1, RECOVERY)
  BY DEF record_llm_success
<1>2. /\ streak = IF successes + 1 < 3 THEN successes + 1 ELSE 3
      /\ UpTo(sinceFall + 1, RECOVERY) = IF sinceFall + 1 < 3 THEN sinceFall + 1 ELSE 3
      /\ RECOVERY = 3
  BY DEF UpTo, RECOVERY
<1> HIDE DEF streak
<1>3. CASE fall
  <2>1. level' = level - 1 /\ successes' = 0 /\ sinceFall' = 0 /\ successes >= 2 /\ level # 0
    BY <1>0, <1>1, <1>2, <1>3
  <2> QED BY <1>0, <2>1
<1>4. CASE ~fall
  <2>1. /\ level' = level /\ successes' = streak
        /\ sinceFall' = IF sinceFall + 1 < 3 THEN sinceFall + 1 ELSE 3
    BY <1>1, <1>2, <1>4
  <2> QED BY <1>0, <1>2, <2>1
<1> QED BY <1>3, <1>4

LEMMA SuccessCbInv ==
  ASSUME CbInv, record_llm_success
  PROVE  CbInv'
<1>1. /\ level' \in Nat /\ level' <= 3
      /\ successes' \in 0..3 /\ sinceFall' \in 0..3 /\ successes' <= sinceFall'
  BY SuccessSteps DEF CbInv, TrippedIsLevel3, CbTypeOK
<1>2. failures' = 0 /\ UNCHANGED <<sideFails, sideDown, sideBad>>
  BY DEF record_llm_success, sideVars
<1>3. CbTypeOK' /\ StreakIsReal' /\ TrippedIsLevel3'
  BY <1>1, <1>2 DEF CbInv, CbTypeOK, StreakIsReal, TrippedIsLevel3, FAILURES
<1>4. SideCounted' /\ DownMeansFailing'
  BY <1>2 DEF CbInv, SideCounted, DownMeansFailing
<1> QED BY <1>3, <1>4 DEF CbInv

\* A report about a side touches that side and nothing else.
LEMMA SideCbInv ==
  ASSUME CbInv, NEW s \in Sides, record_side_failure(s) \/ record_side_success(s)
  PROVE  CbInv'
<1>1. UNCHANGED <<level, failures, successes, sinceFall>>
  BY DEF record_side_failure, record_side_success, llmVars
<1>2. \E n \in 0..3, d \in BOOLEAN :
        /\ sideFails' = [sideFails EXCEPT ![s] = n]
        /\ sideBad' = [sideBad EXCEPT ![s] = n]
        /\ sideDown' = [sideDown EXCEPT ![s] = d]
        /\ d <=> n = 3
  <2>1. /\ sideFails[s] \in 0..3 /\ sideBad[s] = sideFails[s]
        /\ sideDown[s] \in BOOLEAN /\ (sideDown[s] <=> sideBad[s] = 3)
        /\ sideFails \in [Sides -> 0..3]
    BY DEF CbInv, CbTypeOK, SideCounted, DownMeansFailing, LATERAL
  <2>2. CASE record_side_success(s)
    <3>1. /\ sideFails' = [sideFails EXCEPT ![s] = 0]
          /\ sideBad' = [sideBad EXCEPT ![s] = 0]
          /\ sideDown' = [sideDown EXCEPT ![s] = FALSE]
      BY <2>2 DEF record_side_success
    <3> WITNESS 0 \in 0..3, FALSE \in BOOLEAN
    <3> QED BY <3>1
  <2>3. CASE record_side_failure(s)
    <3> DEFINE n == IF sideFails[s] + 1 < 3 THEN sideFails[s] + 1 ELSE 3
               d == sideDown[s] \/ n = 3
    <3>1. n \in 0..3 /\ d \in BOOLEAN /\ (d <=> n = 3)
      BY <2>1
    <3>2. /\ sideFails' = [sideFails EXCEPT ![s] = n]
          /\ sideBad' = [sideBad EXCEPT ![s] = n]
      BY <2>1, <2>3 DEF record_side_failure, UpTo, LATERAL
    <3>3. sideFails'[s] = n
      BY <2>1, <3>2
    <3>4. sideDown' = [sideDown EXCEPT ![s] = sideDown[s] \/ sideFails'[s] = LATERAL]
      BY <2>3 DEF record_side_failure
    <3>5. sideDown' = [sideDown EXCEPT ![s] = d]
      BY <3>3, <3>4 DEF LATERAL
    <3> HIDE DEF n, d
    <3> QED BY <3>1, <3>2, <3>5
  <2> QED BY <2>2, <2>3
<1>3. PICK n \in 0..3, d \in BOOLEAN :
        /\ sideFails' = [sideFails EXCEPT ![s] = n]
        /\ sideBad' = [sideBad EXCEPT ![s] = n]
        /\ sideDown' = [sideDown EXCEPT ![s] = d]
        /\ d <=> n = 3
  BY <1>2
<1>4. CbTypeOK'
  BY <1>1, <1>3 DEF CbInv, CbTypeOK
<1>5. SideCounted' /\ DownMeansFailing'
  BY <1>3 DEF CbInv, CbTypeOK, SideCounted, DownMeansFailing, LATERAL
<1>6. StreakIsReal' /\ TrippedIsLevel3'
  BY <1>1 DEF CbInv, StreakIsReal, TrippedIsLevel3
<1> QED BY <1>4, <1>5, <1>6 DEF CbInv

LEMMA NextCbInv == CbInv /\ [CbNext]_cbVars => CbInv'
<1> SUFFICES ASSUME CbInv, [CbNext]_cbVars PROVE CbInv'
  OBVIOUS
<1>1. CASE UNCHANGED cbVars
  BY <1>1 DEF cbVars, llmVars, sideVars, CbInv, CbTypeOK, StreakIsReal, SideCounted,
              TrippedIsLevel3, DownMeansFailing
<1> QED BY <1>1, LatencyCbInv, FailureCbInv, SuccessCbInv, SideCbInv DEF CbNext

\* Only a success lowers the level: by one, and at the end of a streak.
LEMMA NextSteps ==
  ASSUME CbInv, [CbNext]_cbVars, level' < level
  PROVE  level' = level - 1 /\ sinceFall >= RECOVERY - 1
<1>0. level \in Nat /\ level <= 3
  BY DEF CbInv, CbTypeOK, TrippedIsLevel3
<1>1. CASE record_llm_success
  BY <1>1, SuccessSteps DEF RECOVERY
<1>2. CASE record_llm_failure
  BY <1>0, <1>2 DEF record_llm_failure
<1>3. ASSUME NEW slow \in BOOLEAN, record_llm_latency(slow) PROVE FALSE
  BY <1>0, <1>3 DEF record_llm_latency
<1>4. ASSUME NEW s \in Sides, record_side_failure(s) \/ record_side_success(s) PROVE FALSE
  BY <1>0, <1>4 DEF record_side_failure, record_side_success, llmVars
<1>5. CASE UNCHANGED cbVars
  BY <1>0, <1>5 DEF cbVars, llmVars
<1> QED BY <1>1, <1>2, <1>3, <1>4, <1>5 DEF CbNext

--------------------------------------------------------------------------------
\* Every report keeps the invariant: streaks and switches agree with the reports made.
THEOREM Strong == CbSpec => []CbInv
BY InitCbInv, NextCbInv, PTL DEF CbSpec

\* A breaker with five failures in a row is at level 3, whatever latency reports and
\* older streaks do, and no report takes it further.
THEOREM Tripped == CbSpec => []TrippedIsLevel3
<1>1. CbInv => TrippedIsLevel3
  BY DEF CbInv
<1> QED BY <1>1, Strong, PTL

\* A side is off exactly while it has failed three times without a success between.
THEOREM SidesDown == CbSpec => []DownMeansFailing
<1>1. CbInv => DownMeansFailing
  BY DEF CbInv
<1> QED BY <1>1, Strong, PTL

\* OneStepPerStreak: recovery goes one level at a time, three successes in a row each.
THEOREM Progressive == CbSpec => OneStepPerStreak
<1>1. CbInv /\ [CbNext]_cbVars =>
        [level' < level => level' = level - 1 /\ sinceFall >= RECOVERY - 1]_cbVars
  BY NextSteps
<1> QED BY <1>1, Strong, PTL DEF CbSpec, OneStepPerStreak

--------------------------------------------------------------------------------
(****************************************************************************)
(* The judges.                                                              *)
(****************************************************************************)
Call == [outcome : {"running", "none", "scored"}, politeness : Nat, accuracy : Nat]

\* Who scored gave scores of the scale.
JuTypeOK ==
  /\ calls \in [Judges -> Call]
  /\ \A j \in Scored : calls[j].politeness \in Scores /\ calls[j].accuracy \in Scores

\* A judgement is made when nobody can change it any more.
JudgedLast == judgement.name # "none" => \A j \in Judges : calls[j] # Running

JuInv == JuTypeOK /\ JudgedLast /\ NeverFlattered

LEMMA InitJuInv == JuInit => JuInv
<1> SUFFICES ASSUME JuInit PROVE JuInv
  OBVIOUS
<1>1. judgement.name = "none"
  BY DEF JuInit
<1>2. JuTypeOK
  BY DEF JuInit, JuTypeOK, Call, Running, Scored
<1> QED  BY <1>1, <1>2 DEF JuInv, JudgedLast, NeverFlattered

LEMMA InvokeJuInv == ASSUME JuInv, NEW j \in Judges, _invoke_safely(j) PROVE JuInv'
<1>1. calls[j] = Running /\ UNCHANGED judgement
  BY DEF _invoke_safely
<1>2. judgement'.name = "none"
  BY <1>1 DEF JuInv, JudgedLast
<1>3. PICK c \in Call :
        /\ calls' = [calls EXCEPT ![j] = c]
        /\ c.outcome = "scored" => c.politeness \in Scores /\ c.accuracy \in Scores
  <2>1. ASSUME NEW p \in Scores, NEW a \in Scores,
               calls' = [calls EXCEPT ![j] = [outcome |-> "scored", politeness |-> p, accuracy |-> a]]
        PROVE  \E c \in Call :
                 /\ calls' = [calls EXCEPT ![j] = c]
                 /\ c.outcome = "scored" => c.politeness \in Scores /\ c.accuracy \in Scores
    <3> DEFINE c == [outcome |-> "scored", politeness |-> p, accuracy |-> a]
    <3>1. c \in Call
      BY JudgeScale DEF Call
    <3> QED  BY <2>1, <3>1
  <2>2. CASE calls' = [calls EXCEPT ![j].outcome = "none"]
    <3>1. calls[j] \in Call
      BY DEF JuInv, JuTypeOK
    <3>2. [calls[j] EXCEPT !.outcome = "none"] \in Call
      BY <3>1 DEF Call
    <3>3. [calls[j] EXCEPT !.outcome = "none"].outcome = "none"
      BY <3>1 DEF Call
    <3> QED  BY <2>2, <3>2, <3>3
  <2> QED  BY <2>1, <2>2 DEF _invoke_safely
<1>4. JuTypeOK'
  BY <1>3 DEF JuInv, JuTypeOK, Scored
<1> QED  BY <1>2, <1>4 DEF JuInv, JudgedLast, NeverFlattered

LEMMA LeastOfTwo ==
  ASSUME NEW a \in Nat, NEW b \in Nat
  PROVE  Min({a, b}) <= a /\ Min({a, b}) <= b
<1>1. \E x \in {a, b} : \A y \in {a, b} : x <= y
  OBVIOUS
<1> QED  BY <1>1 DEF Min

\* What is made of the two calls is no better than either of them.
LEMMA AggregateBelow ==
  ASSUME JuTypeOK, NEW j \in Scored
  PROVE  _aggregate.accuracy <= calls[j].accuracy
<1>1. Scored \subseteq Judges /\ \A k \in Scored : calls[k].accuracy \in Nat
  BY DEF Scored, JuTypeOK, Call
<1>2. CASE Scored = {j}
  <2>1. Cardinality(Scored) = 1
    BY <1>2, FS_Singleton
  <2>2. _aggregate.accuracy = calls[j].accuracy
    BY <1>2, <2>1 DEF _aggregate
  <2> QED  BY <1>1, <2>2
<1>3. CASE Scored # {j}
  <2>1. Scored = {"primary", "secondary"}
    BY <1>1, <1>3 DEF Judges
  <2>2. Cardinality(Scored) = 2
    <3>1. IsFiniteSet({"primary"}) /\ Cardinality({"primary"}) = 1
      BY FS_Singleton
    <3>2. Scored = {"primary"} \union {"secondary"} /\ "secondary" \notin {"primary"}
      BY <2>1
    <3> QED  BY <3>1, <3>2, FS_AddElement
  <2>3. {calls[k].accuracy : k \in Scored} = {calls["primary"].accuracy, calls["secondary"].accuracy}
    BY <2>1
  <2>4. _aggregate.accuracy = Min({calls["primary"].accuracy, calls["secondary"].accuracy})
    BY <2>1, <2>2, <2>3 DEF _aggregate, _ensemble
  <2> QED  BY <1>1, <2>1, <2>4, LeastOfTwo
<1> QED  BY <1>2, <1>3

LEMMA EvaluateJuInv == ASSUME JuInv, evaluate PROVE JuInv'
<1>1. /\ judgement' = _aggregate /\ UNCHANGED calls
      /\ \A j \in Judges : calls[j] # Running
  BY DEF evaluate
<1>2. \A j \in Scored : judgement'.accuracy <= calls[j].accuracy
  BY <1>1, AggregateBelow DEF JuInv
<1>3. ASSUME Scored = {}, NEW p \in Scores, NEW a \in Scores
      PROVE  aggregate_csat(3, 3, judgement')
               <= aggregate_csat(3, 3, [politeness |-> p, accuracy |-> a])
  <2>1. judgement'.politeness = 1 /\ judgement'.accuracy = 1
    BY <1>1, <1>3 DEF _aggregate
  <2>2. p \in Nat /\ a \in Nat /\ p >= 1 /\ a >= 1
    BY JudgeScale
  <2>3. 20 * (3 + 1 + 1) <= 20 * (3 + p + a)
    BY <2>2
  <2>4. aggregate_csat(3, 3, judgement') = 40 * 3 + 20 * (3 + 1 + 1)
    BY <2>1 DEF aggregate_csat
  <2>5. aggregate_csat(3, 3, [politeness |-> p, accuracy |-> a]) = 40 * 3 + 20 * (3 + p + a)
    BY DEF aggregate_csat
  <2> QED  BY <2>2, <2>3, <2>4, <2>5
<1>4. JuTypeOK' /\ Scored' = Scored
  BY <1>1 DEF JuInv, JuTypeOK, Scored
<1>5. NeverFlattered'
  BY <1>1, <1>2, <1>3, <1>4 DEF NeverFlattered, aggregate_csat
<1>6. JudgedLast'
  BY <1>1 DEF JudgedLast
<1> QED  BY <1>4, <1>5, <1>6 DEF JuInv

LEMMA NextJuInv == JuInv /\ [JuNext]_juVars => JuInv'
<1> SUFFICES ASSUME JuInv, [JuNext]_juVars PROVE JuInv'
  OBVIOUS
<1>1. CASE run_cycle \/ UNCHANGED juVars
  <2>1. UNCHANGED <<calls, judgement>>
    BY <1>1 DEF run_cycle, juVars
  <2>2. JuTypeOK' /\ Scored' = Scored /\ JudgedLast'
    BY <2>1 DEF JuInv, JuTypeOK, Scored, JudgedLast
  <2>3. NeverFlattered'
    BY <2>1, <2>2 DEF JuInv, NeverFlattered, aggregate_csat
  <2> QED  BY <2>2, <2>3 DEF JuInv
<1> QED  BY <1>1, InvokeJuInv, EvaluateJuInv DEF JuNext

\* NeverFlattered, for any scores of the scale, in whatever order the judges end,
\* fail or are late.
THEOREM Unflattered == JuSpec => []NeverFlattered
<1>1. JuInv => NeverFlattered
  BY DEF JuInv
<1> QED  BY InitJuInv, NextJuInv, <1>1, PTL DEF JuSpec

--------------------------------------------------------------------------------
\* Labels that agree no more often than chance, in a set that is not all of one
\* label: what is left of the agreement is not positive, what is left of the set is.
LEMMA ChanceIsLarge ==
  ASSUME NEW a \in Nat, NEW b \in Nat, NEW s \in Nat, NEW x \in Nat,
         a * b <= s * x, a + b + s + x # a, a + b + s + x # b
  PROVE  LET n == a + b + s + x
             chance == (a + s) * (a + x) + (b + x) * (b + s)
         IN  n * (a + b) - chance <= 0 /\ n * n - chance > 0
<1> DEFINE n == a + b + s + x
           chance == (a + s) * (a + x) + (b + x) * (b + s)
<1>1. n * (a + b) - chance = 2 * (a * b) - 2 * (s * x)
  OBVIOUS
<1>2. n * n - chance = (a + b) * (s + x) + s * s + x * x + 2 * (a * b)
  OBVIOUS
<1>3. /\ a * b \in Nat /\ s * x \in Nat /\ s * s \in Nat /\ x * x \in Nat
      /\ (a + b) * (s + x) \in Nat
  OBVIOUS
<1>4. n * (a + b) - chance <= 0
  BY <1>1, <1>3
<1>5. s * s > 0 \/ x * x > 0 \/ a * b > 0
  <2>1. CASE s > 0   BY <2>1
  <2>2. CASE x > 0   BY <2>2
  <2>3. CASE s = 0 /\ x = 0 /\ a > 0 /\ b > 0
    BY <2>3
  <2>4. ~(s = 0 /\ x = 0 /\ (a = 0 \/ b = 0))
    OBVIOUS
  <2> QED  BY <2>1, <2>2, <2>3, <2>4
<1>6. n * n - chance > 0
  BY <1>2, <1>3, <1>5
<1> QED  BY <1>4, <1>6

LEMMA NotPositiveQuotient ==
  ASSUME NEW p \in Int, NEW d \in Int, p <= 0, d > 0
  PROVE  (100 * p) \div d \in Int /\ (100 * p) \div d <= 0
<1>1. 100 * p \in Int /\ 100 * p <= 0
  OBVIOUS
<1> QED  BY <1>1

LEMMA ChanceFails ==
  ASSUME NEW g \in [good : Nat, bad : Nat, strict : Nat, lax : Nat],
         Size(g) \notin {g.good, g.bad}, g.good * g.bad <= g.strict * g.lax
  PROVE  Passes(_agreement_rate(g)) = "recalibration"
<1>1. PICK a \in Nat, b \in Nat, s \in Nat, x \in Nat :
        a = g.good /\ b = g.bad /\ s = g.strict /\ x = g.lax
  OBVIOUS
<1> DEFINE n == a + b + s + x
           chance == (a + s) * (a + x) + (b + x) * (b + s)
<1>2. Size(g) = n
  BY <1>1 DEF Size
<1>3. n * (a + b) - chance <= 0 /\ n * n - chance > 0
  BY <1>1, <1>2, ChanceIsLarge
<1>4. _agreement_rate(g) = IF chance = n * n THEN 100
                           ELSE (100 * (n * (a + b) - chance)) \div (n * n - chance)
  BY <1>1, <1>2 DEF _agreement_rate
<1>5. n * (a + b) - chance \in Int /\ n * n - chance \in Int /\ n * n \in Int /\ chance \in Int
  OBVIOUS
<1> HIDE DEF n, chance
<1>6. chance # n * n
  BY <1>3, <1>5
<1>7. _agreement_rate(g) \in Int /\ _agreement_rate(g) <= 0
  BY <1>3, <1>4, <1>5, <1>6, NotPositiveQuotient
<1>8. ~(_agreement_rate(g) >= KAPPA_THRESHOLD)
  BY <1>7 DEF KAPPA_THRESHOLD
<1> QED  BY <1>8 DEF Passes

\* A golden set is looked at in the one cycle there is.
ChanceInv == (golden # <<>> => cycle.action # "none") /\ ChanceNeverPasses

LEMMA CyclePasses ==
  ASSUME ChanceInv, run_cycle
  PROVE  ChanceInv'
<1>1. golden = <<>>
  BY DEF run_cycle, ChanceInv
<1>2. DOMAIN <<>> = {}
  BY EmptySeq
<1>3. CASE golden' = golden
  BY <1>1, <1>2, <1>3 DEF ChanceInv, ChanceNeverPasses
<1>4. ASSUME NEW g \in [good : 0..Pairs, bad : 0..Pairs, strict : 0..Pairs, lax : 0..Pairs],
             golden' = <<g>>,
             cycle' = [action |-> Passes(_agreement_rate(g)), kappa |-> _agreement_rate(g),
                       fallback |-> FALSE]
      PROVE  ChanceInv'
  <2>1. g \in [good : Nat, bad : Nat, strict : Nat, lax : Nat]
    BY JudgeScale
  <2>2. cycle'.action = Passes(_agreement_rate(g)) /\ cycle'.action # "none"
    BY <1>4 DEF Passes
  <2>3. DOMAIN golden' = {1} /\ golden'[1] = g
    BY <1>4
  <2>4. ChanceNeverPasses'
    BY <2>1, <2>2, <2>3, ChanceFails DEF ChanceNeverPasses, Size
  <2> QED  BY <2>2, <2>4 DEF ChanceInv
<1> QED  BY <1>3, <1>4 DEF run_cycle, Result

\* ChanceNeverPasses, for golden sets of any size.
THEOREM NoLuck == JuSpec => []ChanceNeverPasses
<1>1. JuInit => ChanceInv
  <2>1. DOMAIN <<>> = {}
    BY EmptySeq
  <2> QED  BY <2>1 DEF JuInit, ChanceInv, ChanceNeverPasses
<1>2. ChanceInv /\ [JuNext]_juVars => ChanceInv'
  <2> SUFFICES ASSUME ChanceInv, [JuNext]_juVars PROVE ChanceInv'
    OBVIOUS
  <2>1. CASE UNCHANGED <<golden, cycle>>
    BY <2>1 DEF ChanceInv, ChanceNeverPasses, Size
  <2> QED  BY <2>1, CyclePasses DEF JuNext, evaluate, _invoke_safely, juVars
<1>3. ChanceInv => ChanceNeverPasses
  BY DEF ChanceInv
<1> QED  BY <1>1, <1>2, <1>3, PTL DEF JuSpec

--------------------------------------------------------------------------------
(****************************************************************************)
(* Experiments.                                                             *)
(****************************************************************************)

\* What a weight adds to the total.
Share(w) == IF w < 0 THEN 0 ELSE w

\* The totals of q, one for each of its first n elements.
Totals(q, n) ==
  {sum \in [0..n -> Int] :
     /\ sum[0] = 0
     /\ \A m \in 1..n : sum[m] = sum[m - 1] + Share(q[m])
     /\ FoldLeft(LAMBDA s, w : s + IF w < 0 THEN 0 ELSE w, 0, q) = sum[n]}

\* The fold over a sequence adds from its first element to its last.
LEMMA ListSum ==
  ASSUME NEW n \in Nat, NEW q, DOMAIN q = 1..n, \A i \in 1..n : q[i] \in Int
  PROVE  Totals(q, n) # {}
<1> DEFINE D == 1..n
           Is(it) == it = [s \in SUBSET D |->
                             IF s = {} THEN 0
                             ELSE it[s \ {Max(s)}] + IF q[Max(s)] < 0 THEN 0 ELSE q[Max(s)]]
           c == [s \in SUBSET D |-> Max(s)]
           g == [i \in D |-> Share(q[i])]
           it == CHOOSE x : Is(x)
<1>1. FoldLeft(LAMBDA s, w : s + IF w < 0 THEN 0 ELSE w, 0, q) = it[D]
  BY DEF FoldLeft, MapThenFoldSet
<1>2. IsFiniteSet(D)
  BY FS_Interval
<1>3. \A s \in SUBSET D : s # {} => c[s] \in s /\ g[c[s]] \in Int
  <2> TAKE s \in SUBSET D
  <2> HAVE s # {}
  <2>1. c[s] \in s
    BY MaxIs
  <2>2. \A i \in D : g[i] \in Int
    BY DEF Share
  <2> HIDE DEF g
  <2> QED  BY <2>1, <2>2
<1>4. \E x : Is(x)
  <2> HIDE DEF c, g, D
  <2>1. PICK x : x \in SumsOf(D, c, g)
    BY <1>2, <1>3, SumExists DEF Picks
  <2>2. \A s \in SUBSET D : s # {} => x[s] = x[s \ {c[s]}] + g[c[s]]
    <3> TAKE s \in SUBSET D
    <3> HAVE s # {}
    <3>1. x[s] = g[c[s]] + x[s \ {c[s]}] /\ x[s \ {c[s]}] \in Int /\ g[c[s]] \in Int
      BY <1>3, <2>1 DEF SumsOf
    <3> QED  BY <3>1
  <2>3. \A s \in SUBSET D : s # {} => c[s] = Max(s) /\ Max(s) \in D /\ c[s] \in s
    BY <1>3 DEF c
  <2>4. \A s \in SUBSET D : s # {} => g[c[s]] = IF q[Max(s)] < 0 THEN 0 ELSE q[Max(s)]
    BY <2>3 DEF g, Share
  <2>5. x = [s \in SUBSET D |-> IF s = {} THEN 0 ELSE x[s \ {Max(s)}] + g[c[s]]]
    BY <2>1, <2>2, <2>3 DEF SumsOf
  <2>6. Is(x)
    BY <2>4, <2>5
  <2> QED  BY <2>6
<1>5. Is(it)
  <2> HIDE DEF Is
  <2> QED  BY <1>4
<1> HIDE DEF it
<1>6. /\ it[{}] = 0
      /\ \A s \in SUBSET D : s # {} => it[s] = it[s \ {Max(s)}] + Share(q[Max(s)])
  BY <1>5 DEF Share
<1> DEFINE P == {s \in SUBSET D : it[s] \in Int}
<1>7. \A s \in SUBSET D : s \in P
  <2>1. ASSUME NEW s \in SUBSET D, s # {} PROVE \E x \in s : s \ {x} \in P => s \in P
    <3>1. Max(s) \in s /\ Share(q[Max(s)]) \in Int
      BY <1>3, <2>1
    <3>2. it[s] = it[s \ {Max(s)}] + Share(q[Max(s)])
      BY <1>6, <2>1
    <3>3. s \ {Max(s)} \in P => s \in P
      BY <3>1, <3>2
    <3> QED  BY <3>1, <3>3
  <2>2. {} \in P
    BY <1>6
  <2> HIDE DEF P, D
  <2> QED  BY <1>2, <2>1, <2>2, InductSet
<1> DEFINE sum == [m \in 0..n |-> it[1..m]]
<1>8. sum \in [0..n -> Int]
  <2>1. \A m \in 0..n : 1..m \in SUBSET D
    OBVIOUS
  <2> QED  BY <1>7, <2>1
<1>9. sum[0] = 0 /\ sum[n] = it[D]
  <2>1. 1..0 = {} /\ 0 \in 0..n /\ n \in 0..n
    OBVIOUS
  <2> QED  BY <1>6, <2>1
<1>10. \A m \in 1..n : sum[m] = sum[m - 1] + Share(q[m])
  <2> TAKE m \in 1..n
  <2>0. m \in 1..m
    OBVIOUS
  <2>1. 1..m \in SUBSET D /\ 1..m # {} /\ m \in 0..n /\ m - 1 \in 0..n
    <3>1. m \in 0..n /\ m - 1 \in 0..n
      OBVIOUS
    <3>2. \A x \in 1..m : x \in 1..n
      OBVIOUS
    <3>3. 1..m \subseteq D
      BY <3>2
    <3> HIDE DEF D
    <3> QED  BY <2>0, <3>1, <3>3
  <2>2. Max(1..m) \in 1..m /\ Max(1..m) >= m
    <3>1. m \in 1..m
      OBVIOUS
    <3> QED  BY <2>1, <3>1, MaxIs
  <2>3. Max(1..m) = m /\ (1..m) \ {m} = 1..(m - 1)
    BY <2>2
  <2>4. it[1..m] = it[1..(m - 1)] + Share(q[m])
    BY <1>6, <2>1, <2>3
  <2> QED  BY <2>1, <2>4
<1> HIDE DEF sum, it, Is, c, g
<1> QED  BY <1>1, <1>8, <1>9, <1>10 DEF Totals

\* A total is the one before it and the share of one weight more.
LEMMA TotalStep ==
  ASSUME NEW w \in Seq(Int)
  PROVE  /\ Total(w, 0) = 0
         /\ \A m \in 1..Len(w) : Total(w, m) = Total(w, m - 1) + Share(w[m])
         /\ \A m \in 0..Len(w) : Total(w, m) \in Nat
<1> DEFINE q(n) == SubSeq(w, 1, n)
           sum(n) == CHOOSE s : s \in Totals(q(n), n)
<1>1. Len(w) \in Nat /\ \A i \in 1..Len(w) : w[i] \in Int
  BY LenProperties, ElementOfSeq
<1>2. \A n \in 0..Len(w) : DOMAIN q(n) = 1..n /\ \A i \in 1..n : q(n)[i] = w[i]
  <2> TAKE n \in 0..Len(w)
  <2>1. 1 \in Int /\ n \in Int /\ \A i \in 1..n : w[i] \in Int
    BY <1>1
  <2>2. /\ q(n) \in Seq(Int) /\ Len(q(n)) = IF 1 <= n THEN n - 1 + 1 ELSE 0
        /\ \A i \in 1..(n - 1 + 1) : q(n)[i] = w[1 + i - 1]
    BY <2>1, SubSeqProperties
  <2>3. Len(q(n)) = n /\ \A i \in 1..n : q(n)[i] = w[i]
    <3> HIDE DEF q
    <3> QED  BY <1>1, <2>2
  <2>4. DOMAIN q(n) = 1..Len(q(n))
    BY <2>2, LenProperties
  <2> QED  BY <2>3, <2>4
<1>3. \A n \in 0..Len(w) : sum(n) \in Totals(q(n), n)
  <2> TAKE n \in 0..Len(w)
  <2>1. n \in Nat /\ DOMAIN q(n) = 1..n /\ \A i \in 1..n : q(n)[i] \in Int
    BY <1>1, <1>2
  <2> HIDE DEF q
  <2>2. Totals(q(n), n) # {}
    BY <2>1, ListSum
  <2> QED  BY <2>2
<1>4. \A n \in 0..Len(w) : Total(w, n) = sum(n)[n]
  <2> TAKE n \in 0..Len(w)
  <2>1. sum(n) \in Totals(q(n), n)
    BY <1>3
  <2> HIDE DEF sum
  <2> QED  BY <2>1 DEF Totals, Total
<1>5. \A n \in 0..Len(w) : /\ sum(n) \in [0..n -> Int] /\ sum(n)[0] = 0
                           /\ \A m \in 1..n : sum(n)[m] = sum(n)[m - 1] + Share(w[m])
  <2> TAKE n \in 0..Len(w)
  <2> HIDE DEF sum, q
  <2> QED  BY <1>2, <1>3 DEF Totals
<1> HIDE DEF sum, q
<1> DEFINE P == {m \in Nat : \A n \in 0..Len(w) : m <= n => sum(n)[m] = sum(m)[m]}
<1>6. \A m \in Nat : m \in P
  <2>1. 0 \in P
    BY <1>1, <1>5
  <2>2. ASSUME NEW m \in Nat, m \in P PROVE m + 1 \in P
    <3> SUFFICES ASSUME NEW n \in 0..Len(w), m + 1 <= n PROVE sum(n)[m + 1] = sum(m + 1)[m + 1]
      OBVIOUS
    <3>1. m + 1 \in 1..n /\ m + 1 \in 0..Len(w) /\ m \in 0..Len(w) /\ m + 1 \in 1..(m + 1)
          /\ (m + 1) - 1 = m
      BY <1>1
    <3>2. sum(n)[m] = sum(m)[m] /\ sum(m + 1)[m] = sum(m)[m]
      BY <2>2, <3>1
    <3>3. sum(n)[m + 1] = sum(n)[m] + Share(w[m + 1])
      BY <1>5, <3>1
    <3>4. sum(m + 1)[m + 1] = sum(m + 1)[m] + Share(w[m + 1])
      BY <1>5, <3>1
    <3> QED  BY <3>2, <3>3, <3>4
  <2> HIDE DEF P
  <2> QED  BY <2>1, <2>2, Induct
<1>7. Total(w, 0) = 0
  BY <1>1, <1>4, <1>5
<1>8. ASSUME NEW m \in 1..Len(w) PROVE Total(w, m) = Total(w, m - 1) + Share(w[m])
  <2>1. m \in 1..m /\ m \in 0..Len(w) /\ m - 1 \in 0..Len(w) /\ m - 1 \in Nat /\ m - 1 <= m
    BY <1>1
  <2>2. sum(m)[m] = sum(m)[m - 1] + Share(w[m])
    BY <1>5, <2>1
  <2>3. sum(m)[m - 1] = sum(m - 1)[m - 1]
    BY <1>6, <2>1
  <2> QED  BY <1>4, <2>1, <2>2, <2>3
<1> DEFINE N == {m \in Nat : m <= Len(w) => Total(w, m) \in Nat}
<1>9. \A m \in Nat : m \in N
  <2>1. 0 \in N
    BY <1>7
  <2>2. ASSUME NEW m \in Nat, m \in N PROVE m + 1 \in N
    <3> SUFFICES ASSUME m + 1 <= Len(w) PROVE Total(w, m + 1) \in Nat
      OBVIOUS
    <3>1. m + 1 \in 1..Len(w) /\ (m + 1) - 1 = m /\ Total(w, m) \in Nat
      BY <1>1, <2>2
    <3>2. Share(w[m + 1]) \in Nat
      BY <1>1, <3>1 DEF Share
    <3>3. Total(w, m + 1) = Total(w, m) + Share(w[m + 1])
      BY <1>8, <3>1
    <3> QED  BY <3>1, <3>2, <3>3
  <2> HIDE DEF N
  <2> QED  BY <2>1, <2>2, Induct
<1> QED  BY <1>1, <1>7, <1>8, <1>9

LEMMA TotalsGrow ==
  ASSUME NEW w \in Seq(Int), NEW i \in 0..Len(w), NEW j \in 0..Len(w), i <= j
  PROVE  Total(w, i) <= Total(w, j)
<1> DEFINE P == {n \in Nat : i <= n /\ n <= Len(w) => Total(w, i) <= Total(w, n)}
<1>1. Len(w) \in Nat /\ \A k \in 1..Len(w) : w[k] \in Int
  BY LenProperties, ElementOfSeq
<1>2. i \in Nat /\ j \in Nat /\ Total(w, i) \in Nat
  BY <1>1, TotalStep
<1>3. 0 \in P
  <2>1. i <= 0 => i = 0
    BY <1>2
  <2> QED  BY <1>2, <2>1
<1>4. ASSUME NEW n \in Nat, n \in P PROVE n + 1 \in P
  <2> SUFFICES ASSUME i <= n + 1, n + 1 <= Len(w) PROVE Total(w, i) <= Total(w, n + 1)
    OBVIOUS
  <2>1. CASE i = n + 1
    BY <1>2, <2>1
  <2>2. CASE i # n + 1
    <3>1. i <= n /\ n <= Len(w) /\ n \in 0..Len(w) /\ n + 1 \in 1..Len(w) /\ (n + 1) - 1 = n
      BY <1>1, <1>2, <2>2
    <3>2. Total(w, i) <= Total(w, n) /\ Total(w, n) \in Nat
      BY <1>4, <3>1, TotalStep
    <3>3. Share(w[n + 1]) \in Nat
      BY <1>1, <3>1 DEF Share
    <3>4. Total(w, n + 1) = Total(w, n) + Share(w[n + 1])
      BY <3>1, TotalStep
    <3> QED  BY <1>2, <3>2, <3>3, <3>4
  <2> QED  BY <2>1, <2>2
<1> HIDE DEF P
<1>5. j \in P
  BY <1>2, <1>3, <1>4, Induct
<1> QED  BY <1>1, <1>2, <1>5 DEF P

\* A bucket goes to the variant whose part of the line it lies in.
LEMMA Routed ==
  ASSUME NEW w \in Seq(Int), NEW b \in Nat, NEW i \in 1..Len(w)
  PROVE  _route_bucket(b, w) = i <=> Total(w, i - 1) <= b /\ b < Total(w, i)
<1> DEFINE reached == {k \in DOMAIN w : w[k] >= 0 /\ b < Total(w, k)}
<1>1. Len(w) \in Nat /\ DOMAIN w = 1..Len(w) /\ \A k \in 1..Len(w) : w[k] \in Int
  BY LenProperties, ElementOfSeq
<1>2. \A k \in 0..Len(w) : Total(w, k) \in Nat
  BY TotalStep
<1>3. _route_bucket(b, w) =
        IF reached = {} THEN 0 ELSE CHOOSE k \in reached : \A j \in reached : k <= j
  BY DEF _route_bucket
<1>4. \A k \in 1..Len(w) : Total(w, k - 1) <= b /\ b < Total(w, k) => w[k] >= 0
  <2> SUFFICES ASSUME NEW k \in 1..Len(w), Total(w, k - 1) <= b, b < Total(w, k), w[k] < 0
               PROVE  FALSE
    BY <1>1
  <2>1. Total(w, k) = Total(w, k - 1) + 0
    BY TotalStep DEF Share
  <2>2. Total(w, k) \in Nat /\ Total(w, k - 1) \in Nat
    BY <1>1, <1>2
  <2> QED  BY <2>1, <2>2
<1>5. ASSUME Total(w, i - 1) <= b, b < Total(w, i) PROVE _route_bucket(b, w) = i
  <2>1. i \in reached
    BY <1>1, <1>4, <1>5
  <2>2. ASSUME NEW j \in reached PROVE i <= j
    <3> SUFFICES ASSUME j < i PROVE FALSE
      BY <1>1
    <3>1. j \in 0..Len(w) /\ i - 1 \in 0..Len(w) /\ j <= i - 1 /\ b < Total(w, j)
      BY <1>1
    <3>2. Total(w, j) <= Total(w, i - 1)
      BY <3>1, TotalsGrow
    <3>3. Total(w, j) \in Nat /\ Total(w, i - 1) \in Nat
      BY <1>2, <3>1
    <3> QED  BY <1>5, <3>1, <3>2, <3>3
  <2>3. \A k \in reached : (\A j \in reached : k <= j) => k = i
    BY <1>1, <2>1, <2>2
  <2> HIDE DEF reached
  <2> QED  BY <1>3, <2>1, <2>2, <2>3
<1>6. ASSUME _route_bucket(b, w) = i PROVE Total(w, i - 1) <= b /\ b < Total(w, i)
  <2>1. reached \subseteq Nat /\ reached # {}
    BY <1>1, <1>3, <1>6
  <2>2. PICK k \in reached : \A j \in reached : k <= j
    <3> HIDE DEF reached
    <3> QED  BY <2>1, Least
  <2>3. i \in reached /\ \A j \in reached : i <= j
    <3> HIDE DEF reached
    <3> QED  BY <1>3, <1>6, <2>1, <2>2
  <2>4. b < Total(w, i)
    BY <2>3
  <2>5. ASSUME b < Total(w, i - 1) PROVE FALSE
    <3> DEFINE T == {j \in 1..(i - 1) : b < Total(w, j)}
    <3>1. i - 1 \in T
      <4>1. i # 1
        BY <2>5, TotalStep
      <4> QED  BY <1>1, <2>5, <4>1
    <3>2. PICK j \in T : \A k2 \in T : j <= k2
      <4>1. T \subseteq Nat /\ T # {}
        BY <3>1, SMTT(30)
      <4> HIDE DEF T
      <4> QED  BY <4>1, Least
    <3>3. j \in 1..Len(w) /\ j < i /\ b < Total(w, j)
      BY <1>1
    <3>4. ~(b < Total(w, j - 1))
      <4>1. CASE j = 1
        BY <4>1, TotalStep
      <4>2. CASE j # 1
        <5>1. j - 1 \in 1..(i - 1) /\ ~(j <= j - 1)
          BY <3>3, <4>2
        <5> QED  BY <3>2, <5>1
      <4> QED  BY <4>1, <4>2
    <3>5. j - 1 \in 0..Len(w)
      BY <1>1, <3>3
    <3>6. Total(w, j - 1) <= b
      BY <1>2, <3>4, <3>5, SMTT(30)
    <3>7. j \in reached
      BY <1>1, <1>4, <3>3, <3>6
    <3> QED  BY <2>3, <3>3, <3>7
  <2>6. i - 1 \in 0..Len(w)
    BY <1>1
  <2> QED  BY <1>2, <2>4, <2>5, <2>6, SMTT(30)
<1> QED  BY <1>5, <1>6

\* As many buckets go to a variant as its share, when all shares fit.
LEMMA BucketsOf ==
  ASSUME NEW w \in Seq(Int), NEW n \in Nat, Total(w, Len(w)) <= n, NEW i \in 1..Len(w)
  PROVE  Cardinality({b \in 0..(n - 1) : _route_bucket(b, w) = i}) = Share(w[i])
<1> DEFINE lo == Total(w, i - 1)
           hi == Total(w, i)
<1>1. Len(w) \in Nat /\ i - 1 \in 0..Len(w) /\ i \in 0..Len(w) /\ Len(w) \in 0..Len(w)
  BY LenProperties
<1>2. w[i] \in Int /\ Share(w[i]) \in Nat
  BY ElementOfSeq DEF Share
<1>3. lo \in Nat /\ hi \in Nat /\ hi = lo + Share(w[i])
  BY <1>1, TotalStep
<1>4. hi <= n
  <2>1. i <= Len(w) /\ hi <= Total(w, Len(w)) /\ Total(w, Len(w)) \in Nat
    BY <1>1, TotalsGrow, TotalStep
  <2> QED  BY <1>3, <2>1
<1>5. \A b \in 0..(n - 1) : _route_bucket(b, w) = i <=> lo <= b /\ b < hi
  BY Routed
<1> HIDE DEF lo, hi
<1>6. {b \in 0..(n - 1) : _route_bucket(b, w) = i} = lo..(hi - 1)
  BY <1>3, <1>4, <1>5
<1>7. lo \in Int /\ hi - 1 \in Int
  BY <1>3
<1>8. Cardinality(lo..(hi - 1)) = IF lo > hi - 1 THEN 0 ELSE (hi - 1) - lo + 1
  BY <1>7, FS_Interval
<1>9. (IF lo > hi - 1 THEN 0 ELSE (hi - 1) - lo + 1) = Share(w[i])
  BY <1>2, <1>3
<1> QED  BY <1>6, <1>8, <1>9

Measurement == [count : Nat, mean : Int]

Beats(res, i, j) == res[j].mean < res[i].mean \/ (res[j].mean = res[i].mean /\ i <= j)

\* Of the variants that were measured, one is the best.
LEMMA BestIs ==
  ASSUME NEW res \in Seq(Measurement), Measured(res) # {}
  PROVE  Best(res) \in Measured(res) /\ \A j \in Measured(res) : Beats(res, Best(res), j)
<1> DEFINE P == {s \in SUBSET (DOMAIN res) : s # {} => \E i \in s : \A j \in s : Beats(res, i, j)}
<1>1. /\ DOMAIN res = 1..Len(res) /\ Len(res) \in Nat
      /\ \A i \in DOMAIN res : res[i] \in Measurement
  BY LenProperties, ElementOfSeq
<1>2. \A i \in DOMAIN res : i \in Nat /\ res[i].mean \in Int
  BY <1>1 DEF Measurement
<1>3. IsFiniteSet(DOMAIN res)
  BY <1>1, FS_Interval
<1>4. ASSUME NEW s \in SUBSET (DOMAIN res), NEW x \in s, s \ {x} \in P PROVE s \in P
  <2>1. CASE s \ {x} = {}
    <3>1. \A j \in s : Beats(res, x, j)
      BY <1>2, <2>1 DEF Beats
    <3> QED  BY <3>1
  <2>2. CASE s \ {x} # {}
    <3>1. PICK i \in s \ {x} : \A j \in s \ {x} : Beats(res, i, j)
      BY <1>4, <2>2
    <3>2. CASE Beats(res, i, x)
      <4>1. \A j \in s : Beats(res, i, j)
        BY <3>1, <3>2
      <4> QED  BY <4>1
    <3>3. CASE ~Beats(res, i, x)
      <4>1. \A j \in s : Beats(res, x, j)
        BY <1>2, <3>1, <3>3 DEF Beats
      <4> QED  BY <4>1
    <3> QED  BY <3>2, <3>3
  <2> QED  BY <2>1, <2>2
<1>5. \A s \in SUBSET (DOMAIN res) : s \in P
  <2>1. {} \in P
    OBVIOUS
  <2> HIDE DEF P
  <2>2. \A s \in SUBSET (DOMAIN res) : s # {} => \E x \in s : s \ {x} \in P => s \in P
    BY <1>4
  <2> QED  BY <1>3, <2>1, <2>2, InductSet
<1>6. \E i \in Measured(res) : \A j \in Measured(res) : Beats(res, i, j)
  <2>1. Measured(res) \in P
    BY <1>5 DEF Measured
  <2> QED  BY <2>1
<1> QED  BY <1>6 DEF Best, Beats

\* Without a measured variant there is no score.
LEMMA NoScores ==
  ASSUME NEW res \in Seq(Measurement), Measured(res) = {}
  PROVE  FoldLeft(LAMBDA sum, r : sum + r.count, 0, res) = 0
<1> DEFINE D == DOMAIN res
           Is(it) == it = [s \in SUBSET D |->
                             IF s = {} THEN 0 ELSE it[s \ {Max(s)}] + res[Max(s)].count]
           it == CHOOSE x : Is(x)
<1>1. FoldLeft(LAMBDA sum, r : sum + r.count, 0, res) = it[D]
  BY DEF FoldLeft, MapThenFoldSet
<1>2. D = 1..Len(res) /\ Len(res) \in Nat /\ \A i \in D : res[i] \in Measurement
  BY LenProperties, ElementOfSeq
<1>3. IsFiniteSet(D)
  BY <1>2, FS_Interval
<1>4. \A s \in SUBSET D : s # {} => Max(s) \in s /\ res[Max(s)].count = 0
  <2> TAKE s \in SUBSET D
  <2> HAVE s # {}
  <2>1. Max(s) \in s
    <3> HIDE DEF D
    <3> QED  BY <1>2, MaxIs
  <2>2. \A i \in D : res[i].count = 0
    <3>1. \A i \in D : res[i].count \in Nat /\ ~(res[i].count > 0)
      BY <1>2 DEF Measurement, Measured
    <3> QED  BY <3>1
  <2> QED  BY <2>1, <2>2
<1>5. Is(it)
  <2>1. Is([s \in SUBSET D |-> 0])
    BY <1>4
  <2> HIDE DEF Is
  <2> QED  BY <2>1
<1> HIDE DEF it
<1> DEFINE P == {s \in SUBSET D : it[s] = 0}
<1>6. {} \in P
  BY <1>5
<1>7. ASSUME NEW s \in SUBSET D, s # {} PROVE \E x \in s : s \ {x} \in P => s \in P
  <2>1. it[s] = it[s \ {Max(s)}] + res[Max(s)].count
    BY <1>5, <1>7
  <2>2. s \ {Max(s)} \in P => it[s] = 0
    BY <1>4, <1>7, <2>1
  <2> QED  BY <1>4, <1>7, <2>2
<1>8. D \in P
  <2> HIDE DEF P, D
  <2>1. \A s \in SUBSET D : s \in P
    BY <1>3, <1>6, <1>7, InductSet
  <2> QED  BY <2>1
<1> QED  BY <1>1, <1>8

ExInv ==
  /\ split \in Splits \union {<<>>}
  /\ status \in {"none", "active", "completed"}
  /\ \/ variant = [b \in 0..(BUCKET_MODULUS - 1) |-> 0]
     \/ variant = [b \in 0..(BUCKET_MODULUS - 1) |-> _route_bucket(b, split)] /\ status # "none"
  /\ WinnerLeads

LEMMA InitExInv == ExInit => ExInv
BY DEF ExInit, ExInv, WinnerLeads

LEMMA PromoteExInv ==
  ASSUME ExInv, NEW res \in Results, auto_promote(res)
  PROVE  ExInv'
<1>1. res \in Seq(Measurement)
  BY ExperimentInputs DEF Measurement
<1>2. /\ status # "none" /\ results' = res
      /\ split' = split /\ variant' = variant
  BY DEF auto_promote
<1>3. CASE FoldLeft(LAMBDA sum, r : sum + r.count, 0, res) >= MIN_SAMPLE_SIZE /\ Leads(res)
  <2>1. promoted' = Best(res) /\ status' = "completed"
    BY <1>3 DEF auto_promote
  <2>2. Measured(res) # {}
    <3> SUFFICES ASSUME Measured(res) = {} PROVE FALSE
      OBVIOUS
    <3>1. FoldLeft(LAMBDA sum, r : sum + r.count, 0, res) = 0
      BY <1>1, NoScores
    <3>2. 0 >= MIN_SAMPLE_SIZE
      BY <1>3, <3>1
    <3> QED  BY <3>2, ExperimentInputs
  <2>3. Best(res) \in Measured(res)
    BY <1>1, <2>2, BestIs
  <2>4. \A j \in DOMAIN res : res[j] \in Measurement
    BY <1>1, LenProperties, ElementOfSeq
  <2>5. res[Best(res)].count > 0 /\ res[Best(res)].mean \in Int
    BY <2>3, <2>4 DEF Measured, Measurement
  <2>6. ASSUME NEW j \in DOMAIN res \ {Best(res)}, res[j].count > 0
        PROVE  res[Best(res)].mean >= res[j].mean + PROMOTION_DIFF_THRESHOLD
    <3>1. res[Best(res)].mean - res[j].mean >= PROMOTION_DIFF_THRESHOLD
      BY <1>3, <2>6 DEF Leads, Measured
    <3>2. res[j].mean \in Int
      BY <2>4 DEF Measurement
    <3> QED  BY <2>5, <3>1, <3>2 DEF PROMOTION_DIFF_THRESHOLD
  <2>7. WinnerLeads'
    BY <1>2, <2>1, <2>5, <2>6 DEF WinnerLeads
  <2> QED  BY <1>2, <2>1, <2>7 DEF ExInv
<1>4. CASE ~(FoldLeft(LAMBDA sum, r : sum + r.count, 0, res) >= MIN_SAMPLE_SIZE /\ Leads(res))
  <2>1. promoted' = 0 /\ status' = status
    BY <1>4 DEF auto_promote
  <2>2. WinnerLeads'
    BY <2>1 DEF WinnerLeads
  <2> QED  BY <1>2, <2>1, <2>2 DEF ExInv
<1> QED  BY <1>3, <1>4

LEMMA NextExInv == ExInv /\ [ExNext]_exVars => ExInv'
<1> SUFFICES ASSUME ExInv, [ExNext]_exVars PROVE ExInv'
  OBVIOUS
<1>1. ASSUME NEW weights \in Splits, create_experiment(weights) PROVE ExInv'
  <2>1. /\ status = "none" /\ split' = weights /\ status' = "active"
        /\ variant' = variant /\ results' = results /\ promoted' = promoted
    BY <1>1 DEF create_experiment
  <2>2. WinnerLeads' /\ variant' = [b \in 0..(BUCKET_MODULUS - 1) |-> 0]
    BY <2>1 DEF ExInv, WinnerLeads
  <2> QED  BY <2>1, <2>2 DEF ExInv
<1>2. CASE get_variant
  <2>1. /\ status # "none" /\ variant' = [b \in DOMAIN variant |-> _route_bucket(b, split)]
        /\ split' = split /\ status' = status /\ results' = results /\ promoted' = promoted
    BY <1>2 DEF get_variant
  <2>2. DOMAIN variant = 0..(BUCKET_MODULUS - 1)
    BY DEF ExInv
  <2>3. WinnerLeads'
    BY <2>1 DEF ExInv, WinnerLeads
  <2> QED  BY <2>1, <2>2, <2>3 DEF ExInv
<1>3. ASSUME NEW res \in Results, auto_promote(res) PROVE ExInv'
  BY <1>3, PromoteExInv
<1>4. ASSUME NEW d \in {0, 6}, ab_test_progress(d) PROVE ExInv'
  BY <1>4 DEF ab_test_progress, ExInv, WinnerLeads
<1>5. CASE UNCHANGED exVars
  BY <1>5 DEF exVars, ExInv, WinnerLeads
<1> QED  BY <1>1, <1>2, <1>3, <1>4, <1>5 DEF ExNext

\* SharesAsWeighted, for weights of any size, malformed ones among them, and any modulus.
THEOREM Shares == ExSpec => []SharesAsWeighted
<1>1. ASSUME ExInv PROVE SharesAsWeighted
  <2> SUFFICES ASSUME Total(split, Len(split)) <= BUCKET_MODULUS,
                      variant # [b \in DOMAIN variant |-> 0],
                      NEW i \in DOMAIN split
               PROVE  Cardinality({b \in DOMAIN variant : variant[b] = i})
                        = IF split[i] < 0 THEN 0 ELSE split[i]
    BY DEF SharesAsWeighted
  <2>1. variant = [b \in 0..(BUCKET_MODULUS - 1) |-> _route_bucket(b, split)]
    BY <1>1 DEF ExInv
  <2>2. split \in Seq(Int)
    <3>1. <<>> \in Seq(Int)
      BY EmptySeq
    <3> QED  BY <1>1, <3>1, ExperimentInputs DEF ExInv
  <2>3. i \in 1..Len(split) /\ BUCKET_MODULUS \in Nat
    BY <2>2, LenProperties, ExperimentInputs
  <2>4. Cardinality({b \in 0..(BUCKET_MODULUS - 1) : _route_bucket(b, split) = i}) = Share(split[i])
    BY <2>2, <2>3, BucketsOf
  <2>5. {b \in DOMAIN variant : variant[b] = i}
          = {b \in 0..(BUCKET_MODULUS - 1) : _route_bucket(b, split) = i}
    BY <2>1
  <2> QED  BY <2>4, <2>5 DEF Share
<1> QED  BY <1>1, InitExInv, NextExInv, PTL DEF ExSpec

\* WinnerLeads, for any results.
THEOREM Winners == ExSpec => []WinnerLeads
<1>1. ExInv => WinnerLeads
  BY DEF ExInv
<1> QED  BY <1>1, InitExInv, NextExInv, PTL DEF ExSpec

--------------------------------------------------------------------------------
(****************************************************************************)
(* The limiter.                                                             *)
(****************************************************************************)

\* The sum over a set in terms of sums over smaller ones.
LEMMA SumStep ==
  ASSUME NEW f, NEW S, IsFiniteSet(S), \A x \in S : f[x] \in Int
  PROVE  /\ SumFunctionOnSet(f, S) \in Int
         /\ SumFunctionOnSet(f, {}) = 0
         /\ S # {} => \E x \in S : SumFunctionOnSet(f, S) = f[x] + SumFunctionOnSet(f, S \ {x})
<1>1. PICK sum \in [SUBSET S -> Int] :
        /\ SumFunctionOnSet(f, S) = sum[S] /\ sum[{}] = 0
        /\ \A s \in SUBSET S : s # {} => sum[s] = f[AnyOf(s)] + sum[s \ {AnyOf(s)}]
  <2>1. SetSums(f, S) # {}
    BY SetSum
  <2> QED  BY <2>1 DEF SetSums
<1>2. IsFiniteSet({}) /\ \A x \in {} : f[x] \in Int
  BY FS_EmptySet
<1>3. SumFunctionOnSet(f, {}) = 0
  <2>1. PICK none \in [SUBSET {} -> Int] : SumFunctionOnSet(f, {}) = none[{}] /\ none[{}] = 0
    <3>1. SetSums(f, {}) # {}
      BY <1>2, SetSum
    <3> QED  BY <3>1 DEF SetSums
  <2> QED  BY <2>1
<1>4. ASSUME S # {}
      PROVE  SumFunctionOnSet(f, S) = f[AnyOf(S)] + SumFunctionOnSet(f, S \ {AnyOf(S)})
  <2> DEFINE U == S \ {AnyOf(S)}
  <2>1. IsFiniteSet(U) /\ \A x \in U : f[x] \in Int
    BY FS_RemoveElement
  <2>2. PICK part \in [SUBSET U -> Int] :
          /\ SumFunctionOnSet(f, U) = part[U] /\ part[{}] = 0
          /\ \A s \in SUBSET U : s # {} => part[s] = f[AnyOf(s)] + part[s \ {AnyOf(s)}]
    <3> HIDE DEF U
    <3>1. SetSums(f, U) # {}
      BY <2>1, SetSum
    <3> QED  BY <3>1 DEF SetSums
  <2> DEFINE P == {s \in SUBSET U : part[s] = sum[s]}
  <2>3. {} \in P
    BY <1>1, <2>2
  <2>4. ASSUME NEW s \in SUBSET U, s # {} PROVE \E x \in s : s \ {x} \in P => s \in P
    <3>1. AnyOf(s) \in s
      BY <2>4 DEF AnyOf
    <3>2. s \in SUBSET S
      OBVIOUS
    <3>3. part[s] = f[AnyOf(s)] + part[s \ {AnyOf(s)}] /\ sum[s] = f[AnyOf(s)] + sum[s \ {AnyOf(s)}]
      <4> HIDE DEF U
      <4> QED  BY <1>1, <2>2, <2>4, <3>2
    <3>4. s \ {AnyOf(s)} \in P => s \in P
      <4> HIDE DEF U
      <4> QED  BY <3>3
    <3> QED  BY <3>1, <3>4
  <2>5. part[U] = sum[U]
    <3> HIDE DEF P, U
    <3>1. \A s \in SUBSET U : s \in P
      BY <2>1, <2>3, <2>4, InductSet
    <3>2. U \in P
      BY <3>1
    <3> QED  BY <3>2 DEF P
  <2> QED  BY <1>1, <1>4, <2>2, <2>5
<1>5. SumFunctionOnSet(f, S) \in Int
  BY <1>1
<1>6. S # {} => AnyOf(S) \in S
  BY DEF AnyOf
<1> QED  BY <1>3, <1>4, <1>5, <1>6

\* It does not matter which element is taken first.
LEMMA SumTake ==
  ASSUME NEW f, NEW S, IsFiniteSet(S), \A x \in S : f[x] \in Int, NEW x \in S
  PROVE  SumFunctionOnSet(f, S) = f[x] + SumFunctionOnSet(f, S \ {x})
<1> DEFINE Sum(s) == SumFunctionOnSet(f, s)
           P == {n \in Nat : \A s \in SUBSET S :
                   Cardinality(s) = n => \A y \in s : Sum(s) = f[y] + Sum(s \ {y})}
<1>1. \A s \in SUBSET S : /\ IsFiniteSet(s) /\ Cardinality(s) \in Nat /\ Sum(s) \in Int
                          /\ \A y \in s : Cardinality(s \ {y}) = Cardinality(s) - 1
                          /\ s # {} => \E y \in s : Sum(s) = f[y] + Sum(s \ {y})
  <2> TAKE s \in SUBSET S
  <2>1. IsFiniteSet(s) /\ Cardinality(s) \in Nat
    BY FS_Subset, FS_CardinalityType
  <2> QED  BY <2>1, FS_RemoveElement, SumStep
<1>2. 0 \in P
  <2>1. \A s \in SUBSET S : Cardinality(s) = 0 => s = {}
    BY <1>1, FS_EmptySet
  <2> QED  BY <2>1
<1>3. ASSUME NEW n \in Nat, n \in P PROVE n + 1 \in P
  <2> SUFFICES ASSUME NEW s \in SUBSET S, Cardinality(s) = n + 1, NEW y \in s
               PROVE  Sum(s) = f[y] + Sum(s \ {y})
    OBVIOUS
  <2>1. PICK c \in s : Sum(s) = f[c] + Sum(s \ {c})
    BY <1>1
  <2>2. CASE c = y
    BY <2>1, <2>2
  <2>3. CASE c # y
    <3>1. /\ s \ {c} \in SUBSET S /\ s \ {y} \in SUBSET S
          /\ y \in s \ {c} /\ c \in s \ {y}
          /\ (s \ {c}) \ {y} = (s \ {y}) \ {c} /\ (s \ {c}) \ {y} \in SUBSET S
      BY <2>3
    <3>2. Cardinality(s \ {c}) = n /\ Cardinality(s \ {y}) = n
      BY <1>1
    <3>3. Sum(s \ {c}) = f[y] + Sum((s \ {c}) \ {y})
      BY <1>3, <3>1, <3>2
    <3>4. Sum(s \ {y}) = f[c] + Sum((s \ {y}) \ {c})
      BY <1>3, <3>1, <3>2
    <3>5. f[y] \in Int /\ f[c] \in Int /\ Sum((s \ {c}) \ {y}) \in Int
      BY <1>1, <3>1
    <3>6. Sum((s \ {c}) \ {y}) = Sum((s \ {y}) \ {c})
      BY <3>1
    <3> HIDE DEF Sum
    <3> QED  BY <2>1, <3>3, <3>4, <3>5, <3>6
  <2> QED  BY <2>2, <2>3
<1>4. Cardinality(S) \in P
  <2> HIDE DEF P
  <2> QED  BY <1>1, <1>2, <1>3, Induct
<1> QED  BY <1>4

\* Sums of what is less, over less.
LEMMA SumLeq ==
  ASSUME NEW f, NEW g, NEW T, IsFiniteSet(T), NEW S \in SUBSET T,
         \A x \in T : g[x] \in Nat,
         \A x \in S : f[x] \in Int /\ f[x] <= g[x]
  PROVE  SumFunctionOnSet(f, S) <= SumFunctionOnSet(g, T)
<1> DEFINE F(s) == SumFunctionOnSet(f, s)
           G(s) == SumFunctionOnSet(g, s)
           P == {u \in SUBSET T : F(u \intersect S) <= G(u)}
<1>1. \A u \in SUBSET T : IsFiniteSet(u) /\ IsFiniteSet(u \intersect S)
  BY FS_Subset
<1>0. \A x \in T : g[x] \in Int
  OBVIOUS
<1>2. \A u \in SUBSET T : /\ F(u \intersect S) \in Int /\ G(u) \in Int
                          /\ F({}) = 0 /\ G({}) = 0
                          /\ \A x \in u : G(u) = g[x] + G(u \ {x})
                          /\ \A x \in u \intersect S :
                               F(u \intersect S) = f[x] + F((u \intersect S) \ {x})
  <2> TAKE u \in SUBSET T
  <2>1. F(u \intersect S) \in Int /\ F({}) = 0
    BY <1>1, SumStep
  <2>2. G(u) \in Int /\ G({}) = 0
    BY <1>0, <1>1, SumStep
  <2>3. \A x \in u : G(u) = g[x] + G(u \ {x})
    <3> SUFFICES ASSUME NEW x \in u PROVE G(u) = g[x] + G(u \ {x})
      OBVIOUS
    <3>1. IsFiniteSet(u) /\ \A y \in u : g[y] \in Int
      BY <1>0, <1>1
    <3> QED  BY <3>1, SumTake
  <2>4. \A x \in u \intersect S : F(u \intersect S) = f[x] + F((u \intersect S) \ {x})
    BY <1>1, SumTake
  <2> QED  BY <2>1, <2>2, <2>3, <2>4
<1> HIDE DEF F, G
<1>3. {} \in P
  <2>1. {} \intersect S = {}
    OBVIOUS
  <2> QED  BY <1>2, <2>1
<1>4. ASSUME NEW u \in SUBSET T, NEW x \in u, u \ {x} \in P PROVE u \in P
  <2>1. F((u \ {x}) \intersect S) <= G(u \ {x})
    BY <1>4
  <2>2. G(u) = g[x] + G(u \ {x}) /\ g[x] \in Nat /\ G(u \ {x}) \in Int /\ G(u) \in Int
        /\ F((u \ {x}) \intersect S) \in Int
    BY <1>2
  <2>3. CASE x \in S
    <3>1. (u \intersect S) \ {x} = (u \ {x}) \intersect S
      OBVIOUS
    <3>2. F(u \intersect S) = f[x] + F((u \ {x}) \intersect S)
      BY <1>2, <2>3, <3>1
    <3> QED  BY <2>1, <2>2, <2>3, <3>2
  <2>4. CASE x \notin S
    <3>1. u \intersect S = (u \ {x}) \intersect S
      BY <2>4
    <3>2. F(u \intersect S) = F((u \ {x}) \intersect S)
      BY <3>1
    <3>3. F(u \intersect S) <= G(u)
      BY <2>1, <2>2, <3>2
    <3> QED  BY <3>3
  <2> QED  BY <2>3, <2>4
<1>5. T \in P
  <2> HIDE DEF P
  <2>1. \A u \in SUBSET T : u # {} => \E x \in u : u \ {x} \in P => u \in P
    BY <1>4
  <2>2. \A u \in SUBSET T : u \in P
    BY <1>3, <2>1, InductSet
  <2> QED  BY <2>2
<1>6. T \intersect S = S
  OBVIOUS
<1> QED  BY <1>5, <1>6 DEF F, G

Held(q, x) == Cardinality({i \in DOMAIN q : q[i] = x})

\* A list holds at most as many stamps of a set as it is long.
LEMMA SumHeld ==
  ASSUME NEW q, IsFiniteSet(DOMAIN q), NEW f, NEW S, IsFiniteSet(S),
         \A x \in S : f[x] \in Int /\ f[x] <= Held(q, x)
  PROVE  SumFunctionOnSet(f, S) <= Cardinality(DOMAIN q)
<1> DEFINE In(s) == {i \in DOMAIN q : q[i] \in s}
           F(s) == SumFunctionOnSet(f, s)
           P == {s \in SUBSET S : F(s) <= Cardinality(In(s))}
<1>1. \A s : IsFiniteSet(In(s)) /\ Cardinality(In(s)) \in Nat
             /\ Cardinality(In(s)) <= Cardinality(DOMAIN q)
  <2> TAKE s
  <2>1. In(s) \in SUBSET (DOMAIN q)
    OBVIOUS
  <2> HIDE DEF In
  <2> QED  BY <2>1, FS_Subset, FS_CardinalityType
<1>2. \A s \in SUBSET S : F(s) \in Int /\ F({}) = 0 /\ \A x \in s : F(s) = f[x] + F(s \ {x})
  <2> TAKE s \in SUBSET S
  <2>1. IsFiniteSet(s) /\ \A x \in s : f[x] \in Int
    BY FS_Subset
  <2>2. F(s) \in Int /\ F({}) = 0
    BY <2>1, SumStep
  <2>3. \A x \in s : F(s) = f[x] + F(s \ {x})
    BY <2>1, SumTake
  <2> QED  BY <2>2, <2>3
<1>3. {} \in P
  <2>1. F({}) = 0 /\ Cardinality(In({})) \in Nat
    <3> HIDE DEF F, In
    <3> QED  BY <1>1, <1>2
  <2> HIDE DEF F, In
  <2> QED  BY <2>1
<1>4. ASSUME NEW s \in SUBSET S, NEW x \in s, s \ {x} \in P PROVE s \in P
  <2>1. F(s) = f[x] + F(s \ {x}) /\ f[x] \in Int /\ F(s \ {x}) \in Int /\ F(s) \in Int
    <3> HIDE DEF F
    <3> QED  BY <1>2
  <2>2. In(s) = In(s \ {x}) \union {i \in DOMAIN q : q[i] = x}
    OBVIOUS
  <2>3. In(s \ {x}) \intersect {i \in DOMAIN q : q[i] = x} = {}
    OBVIOUS
  <2>4. IsFiniteSet({i \in DOMAIN q : q[i] = x}) /\ Held(q, x) \in Nat
    <3>1. {i \in DOMAIN q : q[i] = x} \in SUBSET (DOMAIN q)
      OBVIOUS
    <3> QED  BY <3>1, FS_Subset, FS_CardinalityType DEF Held
  <2>5. Cardinality(In(s)) = Cardinality(In(s \ {x})) + Held(q, x) - 0
    <3> HIDE DEF In
    <3>1. Cardinality(In(s)) = Cardinality(In(s \ {x})) + Held(q, x)
                               - Cardinality(In(s \ {x}) \intersect {i \in DOMAIN q : q[i] = x})
      BY <1>1, <2>2, <2>4, FS_Union DEF Held
    <3>2. Cardinality({}) = 0
      BY FS_EmptySet
    <3> QED  BY <2>3, <3>1, <3>2
  <2>6. F(s \ {x}) <= Cardinality(In(s \ {x})) /\ f[x] <= Held(q, x)
    BY <1>4
  <2>7. Cardinality(In(s \ {x})) \in Nat /\ Cardinality(In(s)) \in Nat
    BY <1>1
  <2> HIDE DEF F, In
  <2>8. F(s) <= Cardinality(In(s))
    BY <2>1, <2>4, <2>5, <2>6, <2>7
  <2> QED  BY <2>8
<1>5. S \in P
  <2> HIDE DEF P
  <2>1. \A s \in SUBSET S : s # {} => \E x \in s : s \ {x} \in P => s \in P
    BY <1>4
  <2>2. \A s \in SUBSET S : s \in P
    BY <1>3, <2>1, InductSet
  <2> QED  BY <2>2
<1>6. F(S) <= Cardinality(In(S)) /\ F(S) \in Int
  BY <1>2, <1>5
<1> HIDE DEF F, In
<1>7. F(S) <= Cardinality(DOMAIN q)
  <2>1. Cardinality(DOMAIN q) \in Nat
    BY FS_CardinalityType
  <2> QED  BY <1>1, <1>6, <2>1
<1> QED  BY <1>7 DEF F

\* What is appended is held once more.
LEMMA AppendHeld ==
  ASSUME NEW q \in Seq(Times), NEW y \in Times, NEW x
  PROVE  /\ Held(q, x) \in Nat
         /\ Held(Append(q, y), x) = Held(q, x) + IF x = y THEN 1 ELSE 0
<1> DEFINE r == Append(q, y)
           n == Len(q)
           I == {i \in DOMAIN q : q[i] = x}
<1>1. /\ r \in Seq(Times) /\ Len(r) = n + 1 /\ n \in Nat
      /\ DOMAIN q = 1..n /\ \A i \in 1..n : r[i] = q[i]
      /\ r[n + 1] = y
  BY AppendProperties, LenProperties
<1>2. DOMAIN r = 1..(n + 1)
  BY <1>1, LenProperties
<1>3. IsFiniteSet(I) /\ Cardinality(I) \in Nat /\ n + 1 \notin I
  <2>1. IsFiniteSet(DOMAIN q) /\ I \in SUBSET (DOMAIN q)
    <3>1. 1 \in Int /\ n \in Int
      BY <1>1
    <3>2. IsFiniteSet(1..n)
      BY <3>1, FS_Interval
    <3>3. I \in SUBSET (DOMAIN q)
      OBVIOUS
    <3> QED  BY <1>1, <3>2, <3>3
  <2>2. IsFiniteSet(I) /\ Cardinality(I) \in Nat
    BY <2>1, FS_Subset, FS_CardinalityType
  <2> QED  BY <1>1, <2>2
<1>4. {i \in DOMAIN r : r[i] = x} = IF x = y THEN I \union {n + 1} ELSE I
  <2>1. \A i : i \in DOMAIN r <=> i \in DOMAIN q \/ i = n + 1
    BY <1>1, <1>2
  <2> HIDE DEF r
  <2>2. \A i : (i \in DOMAIN r /\ r[i] = x) <=> (i \in I \/ (i = n + 1 /\ x = y))
    BY <1>1, <2>1
  <2> HIDE DEF I
  <2> QED  BY <2>2
<1> HIDE DEF I, r
<1>5. Cardinality(I \union {n + 1}) = Cardinality(I) + 1
  BY <1>3, FS_AddElement
<1>6. Held(q, x) = Cardinality(I) /\ Held(Append(q, y), x) = Cardinality({i \in DOMAIN r : r[i] = x})
  BY DEF Held, I, r
<1>7. CASE x = y
  <2>1. {i \in DOMAIN r : r[i] = x} = I \union {n + 1}
    BY <1>4, <1>7
  <2>2. Held(Append(q, y), x) = Cardinality(I) + 1
    BY <1>5, <1>6, <2>1
  <2> QED  BY <1>3, <1>6, <1>7, <2>2
<1>8. CASE x # y
  <2>1. {i \in DOMAIN r : r[i] = x} = I
    BY <1>4, <1>8
  <2>2. Held(Append(q, y), x) = Cardinality(I)
    BY <1>6, <2>1
  <2> QED  BY <1>3, <1>6, <1>8, <2>2
<1> QED  BY <1>7, <1>8

\* What is trimmed is older than the window.
LEMMA TrimHeld ==
  ASSUME NEW q \in Seq(Times), NEW start \in Int
  PROVE  /\ Trim(q, start) \in Seq(Times)
         /\ \A x \in Times : x >= start => Held(q, x) <= Held(Trim(q, start), x)
<1> DEFINE n == Len(q)
           keep == {i \in DOMAIN q : q[i] >= start}
           m == Min(keep)
           r == Trim(q, start)
<1>1. n \in Nat /\ DOMAIN q = 1..n /\ \A i \in 1..n : q[i] \in Times
  BY LenProperties, ElementOfSeq
<1>2. CASE keep = {}
  <2>1. r = <<>> /\ r \in Seq(Times) /\ DOMAIN <<>> = {}
    BY <1>2, EmptySeq DEF Trim
  <2>2. ASSUME NEW x \in Times, x >= start PROVE Held(q, x) <= Held(r, x)
    <3>1. {i \in DOMAIN q : q[i] = x} = {} /\ {i \in DOMAIN r : r[i] = x} = {}
      BY <1>2, <2>1, <2>2
    <3>2. Held(q, x) = 0 /\ Held(r, x) = 0
      BY <3>1, FS_EmptySet DEF Held
    <3> QED  BY <3>2
  <2> QED  BY <2>1, <2>2
<1>3. CASE keep # {}
  <2>1. m \in keep /\ \A i \in keep : m <= i
    <3>1. keep \subseteq Nat
      BY <1>1
    <3> HIDE DEF keep
    <3>2. PICK k \in keep : \A i \in keep : k <= i
      BY <1>3, <3>1, Least
    <3> QED  BY <3>2 DEF Min
  <2>2. r = SubSeq(q, m, n)
    BY <1>3 DEF Trim
  <2>3. m \in 1..n
    BY <1>1, <2>1
  <2> HIDE DEF m, r, n
  <2>4. /\ r \in Seq(Times) /\ Len(r) = n - m + 1
        /\ \A i \in 1..(n - m + 1) : r[i] = q[m + i - 1]
    <3>1. m \in Int /\ n \in Int /\ m <= n /\ \A i \in m..n : q[i] \in Times
      BY <1>1, <2>3
    <3> QED  BY <2>2, <3>1, SubSeqProperties
  <2>5. DOMAIN r = 1..(n - m + 1)
    BY <2>4, LenProperties
  <2>6. ASSUME NEW x \in Times, x >= start PROVE Held(q, x) <= Held(r, x)
    <3> DEFINE A == {i \in DOMAIN q : q[i] = x}
               B == {i \in DOMAIN r : r[i] = x}
               f == [i \in A |-> i - m + 1]
    <3>1. \A i \in A : i \in 1..n /\ m <= i
      BY <1>1, <2>1, <2>6
    <3>2. \A i \in A : i - m + 1 \in B
      <4> TAKE i \in A
      <4>1. i - m + 1 \in 1..(n - m + 1) /\ m + (i - m + 1) - 1 = i
        BY <1>1, <2>3, <3>1
      <4>2. r[i - m + 1] = q[i]
        BY <2>4, <4>1
      <4> QED  BY <2>5, <4>1, <4>2
    <3>3. f \in Injection(A, B)
      <4>1. f \in [A -> B]
        BY <3>2
      <4>2. \A i, j \in A : f[i] = f[j] => i = j
        BY <1>1, <2>3
      <4> HIDE DEF f, A, B
      <4> QED  BY <4>1, <4>2 DEF Injection, IsInjective
    <3>4. IsFiniteSet(B)
      <4>1. IsFiniteSet(DOMAIN r) /\ B \in SUBSET (DOMAIN r)
        BY <1>1, <2>3, <2>5, FS_Interval
      <4> HIDE DEF B
      <4> QED  BY <4>1, FS_Subset
    <3>5. Cardinality(A) <= Cardinality(B)
      <4> HIDE DEF f, A, B
      <4> QED  BY <3>3, <3>4, FS_Injection
    <3> QED  BY <3>5 DEF Held
  <2> QED  BY <2>4, <2>6 DEF r
<1> QED  BY <1>2, <1>3

\* The stamps of a key, none for a key without a bucket.
Stamps(k) == IF k \in DOMAIN buckets THEN buckets[k] ELSE <<>>

RlTypeOK ==
  /\ redis \in BOOLEAN /\ clock \in Times
  /\ pc \in [Threads -> {"idle", "decide"}]
  /\ key \in [Threads -> Keys \union {AnyKey}]
  /\ now \in [Threads -> 0..clock]
  /\ \A t \in Threads : pc[t] = "decide" => key[t] \in Keys
  /\ DOMAIN buckets \subseteq Keys /\ \A k \in DOMAIN buckets : buckets[k] \in Seq(Times)
  /\ zset \in [Keys -> [Times -> Nat]]
  /\ admitted \in [Keys -> [Times -> Nat]]

\* What was admitted and is still in the window is in the bucket, and in Redis
\* among the members; there may be more.
Covered ==
  \A k \in Keys \ excused : \A x \in Times :
    /\ ~redis /\ x >= clock - Window => admitted[k][x] <= Held(Stamps(k), x)
    /\ redis /\ x > clock - Window => admitted[k][x] <= zset[k][x]

RlInv == RlTypeOK /\ Covered

LEMMA InitRlInv == RlInit => RlInv
<1> SUFFICES ASSUME RlInit PROVE RlInv
  OBVIOUS
<1>1. 0 \in Times /\ 0 \in 0..0
  BY BoundsAssumption DEF Times
<1>2. RlTypeOK
  BY <1>1 DEF RlInit, RlTypeOK
<1>3. Covered
  <2> SUFFICES ASSUME NEW k \in Keys, NEW x \in Times
               PROVE  admitted[k][x] <= Held(Stamps(k), x) /\ admitted[k][x] <= zset[k][x]
    BY DEF Covered
  <2>1. admitted[k][x] = 0 /\ zset[k][x] = 0
    BY DEF RlInit
  <2>2. Stamps(k) = <<>> /\ <<>> \in Seq(Times)
    BY EmptySeq DEF RlInit, Stamps
  <2>3. Held(Stamps(k), x) \in Nat
    BY <1>1, <2>2, AppendHeld
  <2> QED  BY <2>1, <2>3
<1> QED  BY <1>2, <1>3 DEF RlInv

\* What an answer does: it counts what it lets through, unless the key is excused.
LEMMA DecidedCounts ==
  ASSUME RlInv, NEW t \in Threads, NEW yes \in BOOLEAN, Decided(t, yes)
  PROVE  /\ pc' = [pc EXCEPT ![t] = "idle"] /\ key' = [key EXCEPT ![t] = AnyKey]
         /\ now' = [now EXCEPT ![t] = 0] /\ redis' = redis /\ clock' = clock
         /\ admitted' \in [Keys -> [Times -> Nat]]
         /\ \A k \in Keys \ excused' : \A x \in Times :
              /\ ~(yes /\ k = key[t] /\ x = now[t]) => admitted'[k][x] = admitted[k][x]
              /\ admitted'[k][x] <= admitted[k][x] + 1
<1>1. /\ pc' = [pc EXCEPT ![t] = "idle"] /\ key' = [key EXCEPT ![t] = AnyKey]
      /\ now' = [now EXCEPT ![t] = 0] /\ redis' = redis /\ clock' = clock
  BY DEF Decided
<1>2. \A k \in Keys : \A x \in Times : admitted[k][x] \in Nat
  BY DEF RlInv, RlTypeOK
<1>3. admitted' = [k \in Keys |-> [x \in Times |->
        IF k \in excused' THEN 0
        ELSE IF yes /\ k = key[t] /\ x = now[t] /\ admitted[k][x] <= Limit
             THEN admitted[k][x] + 1
             ELSE admitted[k][x]]]
  BY DEF Decided
<1>4. \A k \in Keys : \A x \in Times : admitted'[k][x] =
        IF k \in excused' THEN 0
        ELSE IF yes /\ k = key[t] /\ x = now[t] /\ admitted[k][x] <= Limit
             THEN admitted[k][x] + 1
             ELSE admitted[k][x]
  BY <1>3
<1>5. admitted' \in [Keys -> [Times -> Nat]]
  BY <1>2, <1>3
<1>6. ASSUME NEW k \in Keys \ excused', NEW x \in Times
      PROVE  /\ ~(yes /\ k = key[t] /\ x = now[t]) => admitted'[k][x] = admitted[k][x]
             /\ admitted'[k][x] <= admitted[k][x] + 1
  BY <1>2, <1>4
<1> QED  BY <1>1, <1>5, <1>6

\* The types after an answer.
LEMMA DecidedTypes ==
  ASSUME RlInv, NEW t \in Threads, NEW yes \in BOOLEAN, Decided(t, yes),
         DOMAIN buckets' \subseteq Keys, \A k \in DOMAIN buckets' : buckets'[k] \in Seq(Times),
         zset' \in [Keys -> [Times -> Nat]]
  PROVE  RlTypeOK'
<1>1. /\ pc' = [pc EXCEPT ![t] = "idle"] /\ key' = [key EXCEPT ![t] = AnyKey]
      /\ now' = [now EXCEPT ![t] = 0] /\ redis' = redis /\ clock' = clock
      /\ admitted' \in [Keys -> [Times -> Nat]]
  BY DecidedCounts
<1>2. 0 \in 0..clock
  BY BoundsAssumption DEF RlInv, RlTypeOK, Times
<1>3. \A u \in Threads : pc'[u] = "decide" => u # t /\ pc[u] = "decide" /\ key'[u] = key[u]
  BY <1>1 DEF RlInv, RlTypeOK
<1> QED  BY <1>1, <1>2, <1>3 DEF RlInv, RlTypeOK

\* Time only narrows the window.
LEMMA TickRlInv == RlInv /\ RlTick => RlInv'
<1> SUFFICES ASSUME RlInv, RlTick PROVE RlInv'
  OBVIOUS
<1>1. /\ clock' = clock + 1 /\ clock' \in Times /\ clock \in Nat
      /\ redis' = redis /\ pc' = pc /\ key' = key /\ now' = now /\ buckets' = buckets
      /\ zset' = zset /\ admitted' = admitted /\ excused' = excused
  BY BoundsAssumption DEF RlInv, RlTypeOK, RlTick, Times
<1>2. RlTypeOK'
  <2>1. \A t \in Threads : now[t] \in 0..clock'
    BY <1>1 DEF RlInv, RlTypeOK
  <2>2. now' \in [Threads -> 0..clock']
    BY <1>1, <2>1 DEF RlInv, RlTypeOK
  <2> QED  BY <1>1, <2>2 DEF RlInv, RlTypeOK
<1>3. Covered'
  <2> SUFFICES ASSUME NEW k \in Keys \ excused, NEW x \in Times
               PROVE  /\ ~redis /\ x >= clock' - Window => admitted[k][x] <= Held(Stamps(k), x)
                      /\ redis /\ x > clock' - Window => admitted[k][x] <= zset[k][x]
    BY <1>1 DEF Covered, Stamps
  <2>1. x \in Nat /\ Window \in Nat
    BY BoundsAssumption DEF Times
  <2>2. /\ x >= clock' - Window => x >= clock - Window
        /\ x > clock' - Window => x > clock - Window
    BY <1>1, <2>1
  <2> QED  BY <2>2 DEF RlInv, Covered
<1> QED  BY <1>2, <1>3 DEF RlInv

LEMMA AllowRlInv == ASSUME RlInv, NEW t \in Threads, NEW k \in Keys, allow(t, k) PROVE RlInv'
<1>1. /\ pc' = [pc EXCEPT ![t] = "decide"] /\ key' = [key EXCEPT ![t] = k]
      /\ now' = [now EXCEPT ![t] = clock] /\ redis' = redis /\ clock' = clock
      /\ buckets' = buckets /\ zset' = zset /\ admitted' = admitted /\ excused' = excused
  BY DEF allow
<1>2. clock \in 0..clock
  BY BoundsAssumption DEF RlInv, RlTypeOK, Times
<1>3. \A u \in Threads : pc'[u] = "decide" => key'[u] \in Keys
  BY <1>1 DEF RlInv, RlTypeOK
<1>4. RlTypeOK'
  BY <1>1, <1>2, <1>3 DEF RlInv, RlTypeOK
<1>5. Covered'
  BY <1>1 DEF RlInv, Covered, Stamps
<1> QED  BY <1>4, <1>5 DEF RlInv

\* A decision covers what it admits if the store keeps what is in the window and
\* gains a member with the request's stamp when the request is let through.
LEMMA StoreCovers ==
  ASSUME RlInv, NEW t \in Threads, NEW yes \in BOOLEAN, Decided(t, yes), excused \subseteq excused',
         \A k \in Keys \ excused' : \A x \in Times :
           LET more == IF yes /\ k = key[t] /\ x = now[t] THEN 1 ELSE 0
           IN  /\ ~redis /\ x >= clock - Window =>
                    /\ Held(Stamps(k), x) \in Nat /\ Held(Stamps(k)', x) \in Nat
                    /\ Held(Stamps(k), x) + more <= Held(Stamps(k)', x)
               /\ redis /\ x > clock - Window =>
                    zset'[k][x] \in Nat /\ zset[k][x] + more <= zset'[k][x]
  PROVE  Covered'
<1>1. /\ redis' = redis /\ clock' = clock
      /\ \A k \in Keys \ excused' : \A x \in Times :
           /\ ~(yes /\ k = key[t] /\ x = now[t]) => admitted'[k][x] = admitted[k][x]
           /\ admitted'[k][x] <= admitted[k][x] + 1
           /\ admitted'[k][x] \in Nat
  BY DecidedCounts
<1> SUFFICES ASSUME NEW k \in Keys \ excused', NEW x \in Times
             PROVE  /\ ~redis /\ x >= clock - Window => admitted'[k][x] <= Held(Stamps(k)', x)
                    /\ redis /\ x > clock - Window => admitted'[k][x] <= zset'[k][x]
  BY <1>1 DEF Covered, Stamps
<1> DEFINE more == IF yes /\ k = key[t] /\ x = now[t] THEN 1 ELSE 0
<1>2. /\ admitted[k][x] \in Nat /\ zset[k][x] \in Nat /\ admitted'[k][x] \in Nat
      /\ admitted'[k][x] <= admitted[k][x] + more /\ more \in Nat
  BY <1>1 DEF RlInv, RlTypeOK
<1>3. /\ ~redis /\ x >= clock - Window => admitted[k][x] <= Held(Stamps(k), x)
      /\ redis /\ x > clock - Window => admitted[k][x] <= zset[k][x]
  BY DEF RlInv, Covered
<1>4. /\ ~redis /\ x >= clock - Window =>
           /\ Held(Stamps(k), x) \in Nat /\ Held(Stamps(k)', x) \in Nat
           /\ Held(Stamps(k), x) + more <= Held(Stamps(k)', x)
      /\ redis /\ x > clock - Window => zset'[k][x] \in Nat /\ zset[k][x] + more <= zset'[k][x]
  OBVIOUS
<1> HIDE DEF more
<1>5. ASSUME ~redis, x >= clock - Window PROVE admitted'[k][x] <= Held(Stamps(k)', x)
  BY <1>2, <1>3, <1>4, <1>5
<1>6. ASSUME redis, x > clock - Window PROVE admitted'[k][x] <= zset'[k][x]
  BY <1>2, <1>3, <1>4, <1>6
<1> QED  BY <1>5, <1>6

\* What a decision in memory does to the buckets.
LEMMA InMemory ==
  ASSUME RlInv, NEW t \in Threads, in_memory_check(t)
  PROVE  \E yes \in BOOLEAN, bucket \in Seq(Times) :
           /\ ~redis /\ Decided(t, yes) /\ zset' = zset /\ excused \subseteq excused'
           /\ yes <=> Len(bucket) < Limit
           /\ \A x \in Times : x >= clock - Window => Held(Stamps(key[t]), x) <= Held(bucket, x)
                                                      \/ key[t] \in excused'
           /\ DOMAIN buckets' \subseteq Keys
           /\ key[t] \in DOMAIN buckets'
           /\ buckets'[key[t]] = IF yes THEN Append(bucket, now[t]) ELSE bucket
           /\ \A j \in Keys \ {key[t]} : /\ j \in DOMAIN buckets' => buckets'[j] \in Seq(Times)
                                         /\ j \notin excused' => Stamps(j)' = Stamps(j)
<1> DEFINE k == key[t]
<1>1. /\ ~redis /\ pc[t] = "decide" /\ zset' = zset /\ k \in Keys
      /\ DOMAIN buckets \subseteq Keys /\ \A j \in DOMAIN buckets : buckets[j] \in Seq(Times)
      /\ now[t] \in 0..clock /\ clock \in Nat /\ Window \in Nat
  BY BoundsAssumption DEF in_memory_check, RlInv, RlTypeOK, Times
<1>2. PICK kept \in Kept(t) :
        LET bucket == Trim(IF k \in kept THEN buckets[k] ELSE <<>>, WindowStart(t))
            yes == Len(bucket) < Limit
        IN  /\ buckets' = [j \in kept \union {k} |->
                             IF j # k THEN buckets[j]
                             ELSE IF yes THEN Append(bucket, now[t]) ELSE bucket]
            /\ excused' = excused \union (DOMAIN buckets \ kept)
            /\ Decided(t, yes)
  BY DEF in_memory_check
<1> DEFINE old == IF k \in kept THEN buckets[k] ELSE <<>>
           bucket == Trim(old, WindowStart(t))
           yes == Len(bucket) < Limit
<1>3. kept \subseteq DOMAIN buckets
  BY DEF Kept
<1>4. old \in Seq(Times)
  BY <1>1, <1>3, EmptySeq
<1>5. WindowStart(t) \in Int /\ WindowStart(t) <= clock - Window
  BY <1>1 DEF WindowStart
<1>6. k \notin excused' => old = Stamps(k)
  BY <1>2, <1>3 DEF Stamps
<1>7. /\ bucket \in Seq(Times)
      /\ \A x \in Times : x >= WindowStart(t) => Held(old, x) <= Held(bucket, x)
  <2> HIDE DEF old
  <2> QED  BY <1>4, <1>5, TrimHeld
<1>8. \A x \in Times : x >= clock - Window => Held(Stamps(k), x) <= Held(bucket, x) \/ k \in excused'
  <2> HIDE DEF old, bucket
  <2> TAKE x \in Times
  <2>1. x \in Int
    BY DEF Times
  <2>2. x >= clock - Window => x >= WindowStart(t)
    BY <1>1, <1>5, <2>1
  <2> QED  BY <1>6, <1>7, <2>2
<1> HIDE DEF old, bucket
<1>9. /\ DOMAIN buckets' = kept \union {k}
      /\ buckets'[k] = IF yes THEN Append(bucket, now[t]) ELSE bucket
      /\ \A j \in kept \ {k} : buckets'[j] = buckets[j]
      /\ excused' = excused \union (DOMAIN buckets \ kept)
      /\ Decided(t, yes)
  BY <1>2 DEF old, bucket
<1>10. ASSUME NEW j \in Keys \ {k}
       PROVE  /\ j \in DOMAIN buckets' => buckets'[j] \in Seq(Times)
              /\ j \notin excused' => Stamps(j)' = Stamps(j)
  <2> HIDE DEF yes
  <2> QED  BY <1>1, <1>3, <1>9 DEF Stamps
<1>11. yes \in BOOLEAN
  OBVIOUS
<1>12. DOMAIN buckets' \subseteq Keys /\ excused \subseteq excused' /\ k \in DOMAIN buckets'
  BY <1>1, <1>3, <1>9
<1>13. PICK y \in BOOLEAN : y = yes
  BY <1>11
<1>14. /\ Decided(t, y) /\ (y <=> Len(bucket) < Limit)
       /\ buckets'[k] = IF y THEN Append(bucket, now[t]) ELSE bucket
  BY <1>9, <1>13
<1> HIDE DEF yes
<1> QED  BY <1>1, <1>7, <1>8, <1>10, <1>12, <1>14

LEMMA InMemoryRlInv == ASSUME RlInv, NEW t \in Threads, in_memory_check(t) PROVE RlInv'
<1>1. PICK yes \in BOOLEAN, bucket \in Seq(Times) :
           /\ ~redis /\ Decided(t, yes) /\ zset' = zset /\ excused \subseteq excused'
           /\ yes <=> Len(bucket) < Limit
           /\ \A x \in Times : x >= clock - Window => Held(Stamps(key[t]), x) <= Held(bucket, x)
                                                      \/ key[t] \in excused'
           /\ DOMAIN buckets' \subseteq Keys
           /\ key[t] \in DOMAIN buckets'
           /\ buckets'[key[t]] = IF yes THEN Append(bucket, now[t]) ELSE bucket
           /\ \A j \in Keys \ {key[t]} : /\ j \in DOMAIN buckets' => buckets'[j] \in Seq(Times)
                                         /\ j \notin excused' => Stamps(j)' = Stamps(j)
  BY InMemory
<1>2. now[t] \in Times /\ key[t] \in Keys /\ zset' \in [Keys -> [Times -> Nat]]
  <2>1. pc[t] = "decide" /\ zset' = zset
    BY DEF in_memory_check
  <2>2. now[t] \in 0..clock /\ clock \in 0..MaxNow
    BY DEF RlInv, RlTypeOK, Times
  <2>3. now[t] \in Times
    BY <2>2, BoundsAssumption DEF Times
  <2> QED  BY <2>1, <2>3 DEF RlInv, RlTypeOK
<1>3. Append(bucket, now[t]) \in Seq(Times)
  BY <1>2, AppendProperties
<1>4. \A k \in DOMAIN buckets' : buckets'[k] \in Seq(Times)
  BY <1>1, <1>3
<1>5. RlTypeOK'
  BY <1>1, <1>2, <1>4, DecidedTypes
<1>6. \A k \in Keys : Stamps(k) \in Seq(Times) /\ Stamps(k)' \in Seq(Times)
  BY <1>4, EmptySeq DEF Stamps, RlInv, RlTypeOK
<1>7. ASSUME NEW k \in Keys \ excused', NEW x \in Times, x >= clock - Window
      PROVE  /\ Held(Stamps(k), x) \in Nat /\ Held(Stamps(k)', x) \in Nat
             /\ Held(Stamps(k), x) + (IF yes /\ k = key[t] /\ x = now[t] THEN 1 ELSE 0)
                  <= Held(Stamps(k)', x)
  <2>1. Held(Stamps(k), x) \in Nat /\ Held(Stamps(k)', x) \in Nat
    BY <1>2, <1>6, AppendHeld
  <2>2. CASE k # key[t]
    <3>1. Stamps(k)' = Stamps(k)
      BY <1>1, <2>2
    <3> QED  BY <2>1, <2>2, <3>1
  <2>3. CASE k = key[t]
    <3>1. Stamps(k)' = IF yes THEN Append(bucket, now[t]) ELSE bucket
      BY <1>1, <2>3 DEF Stamps
    <3>2. Held(Stamps(k), x) <= Held(bucket, x)
      BY <1>1, <1>7, <2>3
    <3>3. /\ Held(bucket, x) \in Nat
          /\ Held(Append(bucket, now[t]), x) = Held(bucket, x) + IF x = now[t] THEN 1 ELSE 0
      BY <1>2, AppendHeld
    <3>4. CASE yes
      <4>1. Held(Stamps(k)', x) = Held(bucket, x) + IF x = now[t] THEN 1 ELSE 0
        BY <3>1, <3>3, <3>4
      <4> QED  BY <2>1, <2>3, <3>2, <3>3, <3>4, <4>1
    <3>5. CASE ~yes
      <4>1. Held(Stamps(k)', x) = Held(bucket, x)
        BY <3>1, <3>5
      <4> QED  BY <2>1, <3>2, <3>3, <3>5, <4>1
    <3> QED  BY <3>4, <3>5
  <2> QED  BY <2>2, <2>3
<1>8. Covered'
  BY <1>1, <1>7, StoreCovers
<1> QED  BY <1>5, <1>8 DEF RlInv

\* The script keeps what is in the window and adds one member, stamped now.
LEMMA ScriptKeeps ==
  ASSUME RlInv, NEW t \in Threads, pc[t] = "decide"
  PROVE  /\ key[t] \in Keys /\ now[t] \in Times
         /\ Script(t) \in [Times -> Nat]
         /\ \A x \in Times : x > clock - Window =>
              Script(t)[x] = zset[key[t]][x] + IF x = now[t] THEN 1 ELSE 0
<1>1. /\ now[t] \in 0..clock /\ clock \in 0..MaxNow /\ key[t] \in Keys
      /\ zset[key[t]] \in [Times -> Nat]
  BY DEF RlInv, RlTypeOK, Times
<1>2. now[t] \in Times /\ WindowStart(t) \in Int /\ WindowStart(t) <= clock - Window
  BY <1>1, BoundsAssumption DEF Times, WindowStart
<1>3. \A x \in Times : zset[key[t]][x] \in Nat
  BY <1>1
<1>4. Script(t) \in [Times -> Nat]
  BY <1>3 DEF Script
<1>5. ASSUME NEW x \in Times, x > clock - Window
      PROVE  Script(t)[x] = zset[key[t]][x] + IF x = now[t] THEN 1 ELSE 0
  <2>1. x \in Int /\ clock \in Int /\ Window \in Int
    BY <1>1, BoundsAssumption DEF Times
  <2>2. x > WindowStart(t)
    BY <1>2, <1>5, <2>1
  <2> QED  BY <2>2 DEF Script
<1> QED  BY <1>1, <1>2, <1>4, <1>5

\* A decision on Redis, whatever the answer, if a request is let through only
\* when the script has run or the key is excused.
LEMMA OnRedis ==
  ASSUME RlInv, NEW t \in Threads, pc[t] = "decide", redis, NEW yes \in BOOLEAN, Decided(t, yes),
         zset' \in {zset, [zset EXCEPT ![key[t]] = Script(t)]},
         yes => zset' = [zset EXCEPT ![key[t]] = Script(t)] \/ key[t] \in excused',
         excused \subseteq excused', buckets' = buckets
  PROVE  RlInv'
<1>1. /\ key[t] \in Keys /\ now[t] \in Times /\ Script(t) \in [Times -> Nat]
      /\ \A x \in Times : x > clock - Window =>
           Script(t)[x] = zset[key[t]][x] + IF x = now[t] THEN 1 ELSE 0
  BY ScriptKeeps
<1>2. zset \in [Keys -> [Times -> Nat]]
  BY DEF RlInv, RlTypeOK
<1>3. zset' \in [Keys -> [Times -> Nat]]
  BY <1>1, <1>2
<1>4. RlTypeOK'
  <2>1. DOMAIN buckets' \subseteq Keys /\ \A k \in DOMAIN buckets' : buckets'[k] \in Seq(Times)
    BY DEF RlInv, RlTypeOK
  <2> QED  BY <1>3, <2>1, DecidedTypes
<1>5. ASSUME NEW k \in Keys \ excused', NEW x \in Times, x > clock - Window
      PROVE  /\ zset'[k][x] \in Nat
             /\ zset[k][x] + (IF yes /\ k = key[t] /\ x = now[t] THEN 1 ELSE 0) <= zset'[k][x]
  <2>1. zset[k][x] \in Nat /\ zset'[k][x] \in Nat
    BY <1>2, <1>3
  <2>2. CASE k # key[t]
    <3>1. zset'[k] = zset[k]
      BY <1>2, <2>2
    <3> QED  BY <2>1, <2>2, <3>1
  <2>3. CASE k = key[t] /\ zset' = [zset EXCEPT ![key[t]] = Script(t)]
    <3>1. zset'[k][x] = zset[k][x] + IF x = now[t] THEN 1 ELSE 0
      BY <1>1, <1>2, <1>5, <2>3
    <3> QED  BY <2>1, <2>3, <3>1
  <2>4. CASE k = key[t] /\ zset' # [zset EXCEPT ![key[t]] = Script(t)]
    <3>1. zset' = zset /\ ~yes
      BY <2>4
    <3> QED  BY <2>1, <3>1
  <2> QED  BY <2>2, <2>3, <2>4
<1>6. Covered'
  BY <1>5, StoreCovers
<1> QED  BY <1>4, <1>6 DEF RlInv

LEMMA NextRlInv == RlInv /\ [RlNext]_rlVars => RlInv'
<1> SUFFICES ASSUME RlInv, [RlNext]_rlVars PROVE RlInv'
  OBVIOUS
<1>1. CASE UNCHANGED rlVars
  BY <1>1 DEF rlVars, RlInv, RlTypeOK, Covered, Stamps
<1>2. CASE RlTick
  BY <1>2, TickRlInv
<1>3. ASSUME NEW t \in Threads, NEW k \in Keys, allow(t, k) PROVE RlInv'
  BY <1>3, AllowRlInv
<1>4. ASSUME NEW t \in Threads, in_memory_check(t) PROVE RlInv'
  BY <1>4, InMemoryRlInv
<1>5. ASSUME NEW t \in Threads, redis_decide(t) PROVE RlInv'
  <2> DEFINE yes == ZCard(Script(t)) <= Limit
  <2>1. yes \in BOOLEAN
    OBVIOUS
  <2>2. /\ pc[t] = "decide" /\ redis /\ zset' = [zset EXCEPT ![key[t]] = Script(t)]
        /\ buckets' = buckets /\ excused' = excused /\ Decided(t, yes)
    BY <1>5 DEF redis_decide
  <2> HIDE DEF yes
  <2> QED  BY <2>1, <2>2, OnRedis
<1>6. ASSUME NEW t \in Threads, RedisOutage(t) PROVE RlInv'
  <2>1. /\ pc[t] = "decide" /\ redis /\ zset' \in {zset, [zset EXCEPT ![key[t]] = Script(t)]}
        /\ buckets' = buckets /\ excused' = excused \union {key[t]} /\ Decided(t, TRUE)
    BY <1>6 DEF RedisOutage
  <2>2. excused \subseteq excused' /\ key[t] \in excused' /\ TRUE \in BOOLEAN
    BY <2>1
  <2> QED  BY <2>1, <2>2, OnRedis
<1>7. ASSUME NEW t \in Threads, RedisError(t) PROVE RlInv'
  <2>1. /\ pc[t] = "decide" /\ redis /\ zset' \in {zset, [zset EXCEPT ![key[t]] = Script(t)]}
        /\ buckets' = buckets /\ excused' = excused /\ Decided(t, FALSE)
    BY <1>7 DEF RedisError
  <2>2. FALSE \in BOOLEAN
    OBVIOUS
  <2> QED  BY <2>1, <2>2, OnRedis
<1> QED  BY <1>1, <1>2, <1>3, <1>4, <1>5, <1>6, <1>7 DEF RlNext

\* Who is counted now has been let through now, by an answer to a request
\* stamped now.
LEMMA CountedNow ==
  ASSUME RlInv, NEW t \in Threads, NEW yes \in BOOLEAN, Decided(t, yes),
         NEW k \in Keys \ excused', admitted'[k][clock] > admitted[k][clock]
  PROVE  yes /\ k = key[t] /\ now[t] = clock
<1>1. clock \in Times /\ admitted[k][clock] \in Nat
  BY DEF RlInv, RlTypeOK
<1>2. ~(yes /\ k = key[t] /\ clock = now[t]) => admitted'[k][clock] = admitted[k][clock]
  BY <1>1, DecidedCounts
<1> QED  BY <1>1, <1>2

LEMMA WindowFinite ==
  /\ IsFiniteSet(Times)
  /\ \A first \in Int : {x \in Times : first <= x} \in SUBSET Times /\ IsFiniteSet({x \in Times : first <= x})
<1>1. IsFiniteSet(Times)
  <2>1. 0 \in Int /\ MaxNow \in Int
    BY BoundsAssumption
  <2> QED  BY <2>1, FS_Interval DEF Times
<1> QED  BY <1>1, FS_Subset

LEMMA PromptInMemory ==
  ASSUME RlInv, RlInv', NEW t \in Threads, in_memory_check(t),
         NEW k \in Keys \ excused', admitted'[k][clock] > admitted[k][clock]
  PROVE  SumFunctionOnSet(admitted'[k], {x \in Times : clock - Window <= x}) <= Limit
<1>1. PICK yes \in BOOLEAN, bucket \in Seq(Times) :
           /\ ~redis /\ Decided(t, yes)
           /\ yes <=> Len(bucket) < Limit
           /\ key[t] \in DOMAIN buckets'
           /\ buckets'[key[t]] = IF yes THEN Append(bucket, now[t]) ELSE bucket
  BY InMemory
<1>2. yes /\ k = key[t] /\ now[t] = clock
  BY <1>1, CountedNow
<1>3. clock \in Times /\ clock \in Int /\ Window \in Int /\ Limit \in Nat
  BY BoundsAssumption DEF RlInv, RlTypeOK, Times
<1> DEFINE stamps == Append(bucket, clock)
           inside == {x \in Times : clock - Window <= x}
<1>4. Stamps(k)' = stamps
  BY <1>1, <1>2 DEF Stamps
<1>5. stamps \in Seq(Times) /\ Len(stamps) = Len(bucket) + 1 /\ Len(bucket) \in Nat
  BY <1>3, AppendProperties, LenProperties
<1>6. DOMAIN stamps = 1..Len(stamps) /\ Len(stamps) \in Nat /\ Len(stamps) <= Limit
  BY <1>1, <1>2, <1>3, <1>5, LenProperties
<1>7. IsFiniteSet(DOMAIN stamps) /\ Cardinality(DOMAIN stamps) = Len(stamps)
  <2> HIDE DEF stamps
  <2>1. 1 \in Int /\ Len(stamps) \in Int
    BY <1>6
  <2>2. IsFiniteSet(1..Len(stamps))
        /\ Cardinality(1..Len(stamps)) = IF 1 > Len(stamps) THEN 0 ELSE Len(stamps) - 1 + 1
    BY <2>1, FS_Interval
  <2> QED  BY <1>6, <2>2
<1>8. ASSUME NEW x \in inside PROVE admitted'[k][x] \in Int /\ admitted'[k][x] <= Held(stamps, x)
  <2>1. redis' = redis /\ clock' = clock
    BY <1>1, DecidedCounts
  <2>2. x \in Times /\ x \in Int /\ x >= clock - Window
    BY <1>3 DEF Times
  <2>3. admitted'[k][x] <= Held(Stamps(k)', x)
    BY <1>1, <2>1, <2>2 DEF RlInv, Covered
  <2> HIDE DEF stamps
  <2> QED  BY <1>4, <2>2, <2>3 DEF RlInv, RlTypeOK
<1>9. IsFiniteSet(inside)
  <2>1. clock - Window \in Int
    BY <1>3
  <2> QED  BY <2>1, WindowFinite
<1>10. SumFunctionOnSet(admitted'[k], inside) <= Cardinality(DOMAIN stamps)
  <2> HIDE DEF stamps, inside
  <2> QED  BY <1>7, <1>8, <1>9, SumHeld
<1>11. SumFunctionOnSet(admitted'[k], inside) \in Int
  <2> HIDE DEF stamps, inside
  <2> QED  BY <1>8, <1>9, SumStep
<1> HIDE DEF stamps, inside
<1>12. SumFunctionOnSet(admitted'[k], inside) <= Limit
  BY <1>3, <1>6, <1>7, <1>10, <1>11
<1> QED  BY <1>12 DEF inside

LEMMA PromptOnRedis ==
  ASSUME RlInv, RlInv', NEW t \in Threads, redis_decide(t),
         NEW k \in Keys \ excused', admitted'[k][clock] > admitted[k][clock]
  PROVE  SumFunctionOnSet(admitted'[k], {x \in Times : clock - Window + 1 <= x}) <= Limit
<1> DEFINE yes == ZCard(Script(t)) <= Limit
           inside == {x \in Times : clock - Window + 1 <= x}
<1>1. /\ yes \in BOOLEAN /\ Decided(t, yes) /\ redis /\ pc[t] = "decide"
      /\ zset' = [zset EXCEPT ![key[t]] = Script(t)]
  BY DEF redis_decide
<1>2. yes /\ k = key[t]
  <2> HIDE DEF yes
  <2> QED  BY <1>1, CountedNow
<1>3. clock \in Int /\ Window \in Int /\ Limit \in Nat
  BY BoundsAssumption DEF RlInv, RlTypeOK, Times
<1>4. zset'[k] = Script(t) /\ Script(t) \in [Times -> Nat]
  <2>1. zset \in [Keys -> [Times -> Nat]]
    BY DEF RlInv, RlTypeOK
  <2>2. Script(t) \in [Times -> Nat]
    BY <1>1, ScriptKeeps
  <2> QED  BY <1>1, <1>2, <2>1, <2>2
<1>5. redis' = redis /\ clock' = clock
  <2> HIDE DEF yes
  <2> QED  BY <1>1, DecidedCounts
<1>6. ASSUME NEW x \in inside PROVE admitted'[k][x] \in Int /\ admitted'[k][x] <= Script(t)[x]
  <2>1. x \in Times /\ x \in Int /\ x > clock - Window
    BY <1>3 DEF Times
  <2>2. admitted'[k][x] <= zset'[k][x]
    BY <1>1, <1>5, <2>1 DEF RlInv, Covered
  <2> QED  BY <1>4, <2>1, <2>2 DEF RlInv, RlTypeOK
<1>7. IsFiniteSet(Times) /\ inside \in SUBSET Times /\ IsFiniteSet(inside)
  <2>1. clock - Window + 1 \in Int
    BY <1>3
  <2> QED  BY <2>1, WindowFinite
<1>8. \A x \in Times : Script(t)[x] \in Nat /\ Script(t)[x] \in Int
  BY <1>4
<1> HIDE DEF inside
<1>9. SumFunctionOnSet(admitted'[k], inside) <= SumFunctionOnSet(Script(t), Times)
  BY <1>6, <1>7, <1>8, SumLeq
<1>10. SumFunctionOnSet(admitted'[k], inside) \in Int /\ SumFunctionOnSet(Script(t), Times) \in Int
  <2>1. SumFunctionOnSet(admitted'[k], inside) \in Int
    BY <1>6, <1>7, SumStep
  <2>2. SumFunctionOnSet(Script(t), Times) \in Int
    BY <1>7, <1>8, SumStep
  <2> QED  BY <2>1, <2>2
<1>11. SumFunctionOnSet(Script(t), Times) <= Limit
  BY <1>2 DEF ZCard
<1>12. SumFunctionOnSet(admitted'[k], inside) <= Limit
  BY <1>3, <1>9, <1>10, <1>11
<1> QED  BY <1>12 DEF inside

\* PromptWithinLimit: for any keys, requests and limit, and whatever evictions,
\* outages and errors come between, a request that `_in_memory_check` or the Lua
\* script lets through at the time of its stamp is one of at most Limit in its
\* window.
THEOREM Prompt == RlSpec => PromptWithinLimit
<1>1. RlInit => RlInv
  BY InitRlInv
<1>2. RlInv /\ [RlNext]_rlVars => RlInv'
  BY NextRlInv
<1> DEFINE Step ==
      \A k \in Keys \ excused' :
        admitted'[k][clock] > admitted[k][clock] =>
          LET first == IF redis THEN clock - Window + 1 ELSE clock - Window
          IN  SumFunctionOnSet(admitted'[k], {x \in Times : first <= x}) <= Limit
<1>3. RlInv /\ RlInv' /\ [RlNext]_rlVars => [Step]_rlVars
  <2> SUFFICES ASSUME RlInv, RlInv', [RlNext]_rlVars, ~UNCHANGED rlVars,
                      NEW k \in Keys \ excused', admitted'[k][clock] > admitted[k][clock]
               PROVE  LET first == IF redis THEN clock - Window + 1 ELSE clock - Window
                      IN  SumFunctionOnSet(admitted'[k], {x \in Times : first <= x}) <= Limit
    OBVIOUS
  <2>0. clock \in Times /\ admitted[k][clock] \in Nat /\ admitted' # admitted
    BY DEF RlInv, RlTypeOK
  <2>1. CASE RlTick
    BY <2>0, <2>1 DEF RlTick
  <2>2. ASSUME NEW t \in Threads, NEW j \in Keys, allow(t, j) PROVE FALSE
    BY <2>0, <2>2 DEF allow
  <2>3. ASSUME NEW t \in Threads, in_memory_check(t)
        PROVE  SumFunctionOnSet(admitted'[k], {x \in Times : clock - Window <= x}) <= Limit /\ ~redis
    <3>1. ~redis
      BY <2>3 DEF in_memory_check
    <3> QED  BY <2>3, <3>1, PromptInMemory
  <2>4. ASSUME NEW t \in Threads, redis_decide(t)
        PROVE  SumFunctionOnSet(admitted'[k], {x \in Times : clock - Window + 1 <= x}) <= Limit /\ redis
    <3>1. redis
      BY <2>4 DEF redis_decide
    <3> QED  BY <2>4, <3>1, PromptOnRedis
  <2>5. ASSUME NEW t \in Threads, RedisOutage(t) PROVE FALSE
    <3>1. Decided(t, TRUE) /\ TRUE \in BOOLEAN /\ k # key[t]
      BY <2>5 DEF RedisOutage
    <3> QED  BY <3>1, CountedNow
  <2>6. ASSUME NEW t \in Threads, RedisError(t) PROVE FALSE
    <3>1. Decided(t, FALSE) /\ FALSE \in BOOLEAN
      BY <2>6 DEF RedisError
    <3> QED  BY <3>1, CountedNow
  <2> QED  BY <2>1, <2>2, <2>3, <2>4, <2>5, <2>6 DEF RlNext
<1> HIDE DEF Step
<1>4. RlSpec => [][Step]_rlVars
  BY <1>1, <1>2, <1>3, PTL DEF RlSpec
<1> QED  BY <1>4 DEF Step, PromptWithinLimit
================================================================================
