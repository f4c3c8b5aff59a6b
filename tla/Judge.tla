--------------------------------- MODULE Judge ---------------------------------
(****************************************************************************)
(* LLMJudge and its CalibrationPipeline (services/llm_judge.py): two judges *)
(* asked at once under a time limit each, and the cycle that watches them.  *)
(* Scores and kappa are in hundredths.                                      *)
(****************************************************************************)
EXTENDS Integers, FiniteSetsExt

CONSTANTS Scores,  \* what a judge may give
          Pairs    \* bound on the pairs of a golden set, of each kind

\* The scale starts at 1.
ASSUME JudgeScale == Scores \subseteq Nat \ {0} /\ Pairs \in Nat

VARIABLES calls,     \* the two calls: running, or how they ended
          judgement, \* the JudgeResult, [name |-> "none"] before both calls have
          golden,    \* pairs of the golden set: both labels good, both bad, differing either way
          cycle      \* the CalibrationResult

juVars == <<calls, judgement, golden, cycle>>

Judges == {"primary", "secondary"}
Running == [outcome |-> "running", politeness |-> 0, accuracy |-> 0]

JuInit ==
  /\ calls = [j \in Judges |-> Running]
  /\ judgement = [name |-> "none", politeness |-> 0, accuracy |-> 0]
  /\ golden = <<>> /\ cycle = [action |-> "none", kappa |-> -1, fallback |-> FALSE]

--------------------------------------------------------------------------------
(****************************************************************************)
(* One answer judged.                                                       *)
(****************************************************************************)

\* A judge that raises or is late counts as None, and the other one goes on.
_invoke_safely(j) ==
  /\ calls[j] = Running
  /\ \/ \E p, a \in Scores :
          calls' = [calls EXCEPT ![j] = [outcome |-> "scored", politeness |-> p, accuracy |-> a]]
     \/ calls' = [calls EXCEPT ![j].outcome = "none"]
  /\ UNCHANGED <<judgement, golden, cycle>>

Scored == {j \in Judges : calls[j].outcome = "scored"}

\* Wrong on purpose: the better accuracy of the two is taken.
EnsembleBest ==
  [name |-> "ensemble", politeness |-> Max({calls[j].politeness : j \in Scored}),
   accuracy |-> Max({calls[j].accuracy : j \in Scored})]

_ensemble ==
  [name |-> "ensemble", politeness |-> Max({calls[j].politeness : j \in Scored}),
   accuracy |-> Min({calls[j].accuracy : j \in Scored})]

\* Both None: the lowest score there is.  One None: the other's scores.
_aggregate ==
  IF Scored = {} THEN [name |-> "degraded", politeness |-> 1, accuracy |-> 1]
  ELSE IF Cardinality(Scored) = 2 THEN _ensemble
  ELSE LET j == CHOOSE x \in Scored : TRUE
       IN  [name |-> j, politeness |-> calls[j].politeness, accuracy |-> calls[j].accuracy]

evaluate ==
  /\ judgement.name = "none" /\ \A j \in Judges : calls[j] # Running
  /\ judgement' = _aggregate
  /\ UNCHANGED <<calls, golden, cycle>>

\* aggregate_csat, in hundredths.
aggregate_csat(speed, personal, v) == 40 * speed + 20 * (personal + v.politeness + v.accuracy)

--------------------------------------------------------------------------------
(****************************************************************************)
(* Calibration.                                                             *)
(****************************************************************************)
KAPPA_THRESHOLD == 70

Size(g) == g.good + g.bad + g.strict + g.lax

\* Wrong on purpose: plain agreement, chance left in.
AgreementObserved(g) == (100 * (g.good + g.bad)) \div Size(g)

\* Cohen's kappa, from counts: "strict" pairs are good to people only, "lax" ones
\* good to the judge only.  All pairs with one and the same label: perfect.
_agreement_rate(g) ==
  LET n == Size(g)
      chance == (g.good + g.strict) * (g.good + g.lax) + (g.bad + g.lax) * (g.bad + g.strict)
  IN  IF chance = n * n THEN 100
      ELSE (100 * (n * (g.good + g.bad) - chance)) \div (n * n - chance)

Passes(kappa) == IF kappa >= KAPPA_THRESHOLD THEN "pass" ELSE "recalibration"

Result(action, kappa, fallback) ==
  cycle' = [action |-> action, kappa |-> kappa, fallback |-> fallback]

\* -1 stands for None, also for the kappa an unreadable cache gives.
run_cycle ==
  /\ cycle.action = "none"
  /\ \/ Result("recalibration", -1, FALSE) /\ UNCHANGED golden  \* deviation above its threshold
     \/ \E g \in [good : 0..Pairs, bad : 0..Pairs, strict : 0..Pairs, lax : 0..Pairs] :
          /\ Size(g) > 0
          /\ golden' = <<g>>
          /\ Result(Passes(_agreement_rate(g)), _agreement_rate(g), FALSE)
     \/ Result("pass", -1, FALSE) /\ UNCHANGED golden           \* no judge, or one that answered
     \/ Result("skip_cycle", -1, FALSE) /\ UNCHANGED golden     \* the judge was late
     \/ \E cached \in {-1, 60, 80} :
          Result(Passes(cached), cached, TRUE) /\ UNCHANGED golden
  /\ UNCHANGED <<calls, judgement>>

JuNext == run_cycle \/ evaluate \/ \E j \in Judges : _invoke_safely(j)

JuSpec == JuInit /\ [][JuNext]_juVars

--------------------------------------------------------------------------------
(****************************************************************************)
(* Properties.                                                              *)
(****************************************************************************)

\* An answer never counts as more accurate than a judge who scored it said, in
\* whatever order the judges ended; and one that nobody judged counts for nothing:
\* its satisfaction is below that of any judged answer.
NeverFlattered ==
  judgement.name # "none" =>
    /\ \A j \in Scored : judgement.accuracy <= calls[j].accuracy
    /\ Scored = {} =>
         \A p, a \in Scores :
           aggregate_csat(3, 3, judgement) <= aggregate_csat(3, 3, [politeness |-> p, accuracy |-> a])

\* A judge that says "good" to everything does not pass because most answers are
\* good: when its labels tell nothing of people's, the cycle asks for recalibration.
\* Only a set with one and the same label throughout is taken for agreement.
ChanceNeverPasses ==
  \A i \in DOMAIN golden :
    LET g == golden[i]
    IN  Size(g) \notin {g.good, g.bad} /\ g.good * g.bad <= g.strict * g.lax
          => cycle.action = "recalibration"
================================================================================
