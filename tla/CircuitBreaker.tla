----------------------------- MODULE CircuitBreaker -----------------------------
(****************************************************************************)
(* The degradation levels of CircuitBreaker (infra/circuit_breaker.py).     *)
(* Every method runs under the breaker's lock, so each call is one step;    *)
(* any thread may make any of them at any time.  Levels 4 and 5 and the     *)
(* judge level are names nothing ever assigns.                              *)
(****************************************************************************)
EXTENDS Integers

\* The thresholds of the class.  A count that is only compared with a threshold
\* stops there: the threshold stands for "that many or more".
FAILURES == 5
RECOVERY == 3
LATERAL == 3

Sides == {"embedding", "classifier"}

VARIABLES level,      \* _level, as a number
          failures,   \* _llm_failure_count
          successes,  \* _llm_success_count
          sideFails,  \* _embedding_failure_count, _classifier_failure_count
          sideDown,   \* _embedding_down, _classifier_down
          sinceFall,  \* history: successes in a row since the level last fell
          sideBad     \* history: failures of a side since its last success

llmVars == <<level, failures, successes, sinceFall>>
sideVars == <<sideFails, sideDown, sideBad>>
cbVars == <<llmVars, sideVars>>

UpTo(n, max) == IF n < max THEN n ELSE max

CbInit ==
  /\ level = 0 /\ failures = 0 /\ successes = 0
  /\ sideFails = [s \in Sides |-> 0]
  /\ sideDown = [s \in Sides |-> FALSE]
  /\ sinceFall = 0
  /\ sideBad = [s \in Sides |-> 0]

\* A p95 of 800 ms or more: from level 0 to 1, from 1 to 2, and no further.
record_llm_latency(slow) ==
  /\ level' = IF slow /\ level < 2 THEN level + 1 ELSE level
  /\ UNCHANGED <<failures, successes, sinceFall, sideVars>>

record_llm_failure ==
  /\ failures' = UpTo(failures + 1, FAILURES)
  /\ successes' = 0
  /\ level' = IF failures' = FAILURES THEN 3 ELSE level
  /\ sinceFall' = 0
  /\ UNCHANGED sideVars

\* Wrong on purpose: the streak is not reset by a step down ...
SuccessKeepsStreak ==
  /\ failures' = 0
  /\ LET streak == UpTo(successes + 1, RECOVERY)
         fall == level # 0 /\ streak = RECOVERY
     IN  /\ level' = IF fall THEN level - 1 ELSE level
         /\ successes' = streak
         /\ sinceFall' = IF fall THEN 0 ELSE UpTo(sinceFall + 1, RECOVERY)
  /\ UNCHANGED sideVars

\* record_llm_success with _step_down_level: a streak of three takes the breaker
\* one level down.  At level 0 the streak goes on counting.
record_llm_success ==
  /\ failures' = 0
  /\ LET streak == UpTo(successes + 1, RECOVERY)
         fall == level # 0 /\ streak = RECOVERY
     IN  /\ level' = IF fall THEN level - 1 ELSE level
         /\ successes' = IF fall THEN 0 ELSE streak
         /\ sinceFall' = IF fall THEN 0 ELSE UpTo(sinceFall + 1, RECOVERY)
  /\ UNCHANGED sideVars

\* record_embedding_failure, record_classifier_failure
record_side_failure(s) ==
  /\ sideFails' = [sideFails EXCEPT ![s] = UpTo(@ + 1, LATERAL)]
  /\ sideDown' = [sideDown EXCEPT ![s] = @ \/ sideFails'[s] = LATERAL]
  /\ sideBad' = [sideBad EXCEPT ![s] = UpTo(@ + 1, LATERAL)]
  /\ UNCHANGED llmVars

\* record_embedding_success, record_classifier_success
record_side_success(s) ==
  /\ sideFails' = [sideFails EXCEPT ![s] = 0]
  /\ sideDown' = [sideDown EXCEPT ![s] = FALSE]
  /\ sideBad' = [sideBad EXCEPT ![s] = 0]
  /\ UNCHANGED llmVars

CbNext ==
  \/ \E slow \in BOOLEAN : record_llm_latency(slow)
  \/ record_llm_failure
  \/ record_llm_success
  \/ \E s \in Sides : record_side_failure(s) \/ record_side_success(s)

CbSpec == CbInit /\ [][CbNext]_cbVars

--------------------------------------------------------------------------------
(****************************************************************************)
(* Properties.                                                              *)
(****************************************************************************)

\* A tripped breaker stays tripped: after five failures in a row the level is 3,
\* and no latency report and no streak that began earlier takes it away before a
\* call has succeeded; level 3 is as far as it goes.
TrippedIsLevel3 == (failures = FAILURES => level = 3) /\ level <= 3

\* Recovery is progressive: from one step down to the next there are three
\* successes in a row, whatever degradations come in between.
OneStepPerStreak ==
  [][level' < level => level' = level - 1 /\ sinceFall >= RECOVERY - 1]_cbVars

\* A side is down exactly when it has failed three times or more since it last
\* succeeded: a flapping side is not taken down by failures it recovered from.
DownMeansFailing == \A s \in Sides : sideDown[s] <=> sideBad[s] = LATERAL
================================================================================
