------------------------------ MODULE Experiments ------------------------------
(****************************************************************************)
(* A/B experiments: ABTestManager (services/ab_testing.py), the checked way *)
(* to it that the route takes (create_experiment_via_manager), and the      *)
(* roll-forward of RollbackStrategy (infra/deployment.py).  Weights and     *)
(* scores are in hundredths; the hash of user and experiment is an input.   *)
(****************************************************************************)
EXTENDS Integers, Sequences, SequencesExt

CONSTANTS BUCKET_MODULUS,    \* _BUCKET_MODULUS
          MIN_SAMPLE_SIZE,   \* _MIN_SAMPLE_SIZE
          Splits,            \* the splits experiments are made with, malformed weights below 0
          Results            \* the results auto_promote is asked about

ASSUME ExperimentInputs ==
  /\ {BUCKET_MODULUS, MIN_SAMPLE_SIZE} \subseteq Nat \ {0}
  /\ Splits \subseteq Seq(Int) /\ Results \subseteq Seq([count : Nat, mean : Int])

VARIABLES split,      \* traffic_split: the weights of the variants, in their order
          status,     \* of the experiment
          variant,    \* what get_variant gave for each bucket, 0 for the fallback "control"
          results,    \* the results last put to auto_promote: count and mean of each variant
          promoted,   \* what auto_promote returned, 0 for None
          test_stage  \* _current_stage_index

exVars == <<split, status, variant, results, promoted, test_stage>>

ExInit ==
  /\ split = <<>> /\ status = "none"
  /\ variant = [b \in 0..(BUCKET_MODULUS - 1) |-> 0]
  /\ results = <<>> /\ promoted = 0 /\ test_stage = 0

--------------------------------------------------------------------------------
(****************************************************************************)
(* Routing.                                                                 *)
(****************************************************************************)
Total(weights, n) == FoldLeft(LAMBDA sum, w : sum + IF w < 0 THEN 0 ELSE w, 0, SubSeq(weights, 1, n))

\* Wrong on purpose: the bucket at a boundary goes to the variant before it.
RouteBucketClosed(bucket, weights) ==
  LET reached == {i \in DOMAIN weights : weights[i] >= 0 /\ bucket <= Total(weights, i)}
  IN  IF reached = {} THEN 0 ELSE CHOOSE i \in reached : \A j \in reached : i <= j

\* The first variant whose cumulated weight is above the bucket; negative weights
\* are passed over.
_route_bucket(bucket, weights) ==
  LET reached == {i \in DOMAIN weights : weights[i] >= 0 /\ bucket < Total(weights, i)}
  IN  IF reached = {} THEN 0 ELSE CHOOSE i \in reached : \A j \in reached : i <= j

create_experiment(weights) ==
  /\ status = "none"
  /\ split' = weights /\ status' = "active"
  /\ UNCHANGED <<variant, results, promoted, test_stage>>

\* The same user falls into the same bucket in every process.
get_variant ==
  /\ status # "none"
  /\ variant' = [b \in DOMAIN variant |-> _route_bucket(b, split)]
  /\ UNCHANGED <<split, status, results, promoted, test_stage>>

--------------------------------------------------------------------------------
(****************************************************************************)
(* Promotion.                                                               *)
(****************************************************************************)
PROMOTION_DIFF_THRESHOLD == 5

\* Variants without a score have no mean.
Measured(res) == {i \in DOMAIN res : res[i].count > 0}

Best(res) ==
  CHOOSE i \in Measured(res) :
    \A j \in Measured(res) :
      res[j].mean < res[i].mean \/ (res[j].mean = res[i].mean /\ i <= j)

\* Wrong on purpose: the lead is over the last variant, not the second.
LeadsLast(res) ==
  \E j \in Measured(res) : res[Best(res)].mean - res[j].mean >= PROMOTION_DIFF_THRESHOLD

\* Against no other variant the lead is infinite.
Leads(res) ==
  \A j \in Measured(res) \ {Best(res)} :
    res[Best(res)].mean - res[j].mean >= PROMOTION_DIFF_THRESHOLD

\* A caller may put the question again, with any results.
auto_promote(res) ==
  /\ status # "none"
  /\ results' = res
  /\ IF FoldLeft(LAMBDA sum, r : sum + r.count, 0, res) >= MIN_SAMPLE_SIZE /\ Leads(res)
     THEN promoted' = Best(res) /\ status' = "completed"
     ELSE promoted' = 0 /\ UNCHANGED status
  /\ UNCHANGED <<split, variant, test_stage>>

AB_TEST_STAGES == <<10, 50, 100>>
AB_ROLLBACK_THRESHOLD_PCT == 5

\* Nothing advances the stage: a roll-back finds it at the first already.
ab_test_progress(metric_drop_pct) ==
  /\ test_stage' = IF metric_drop_pct > AB_ROLLBACK_THRESHOLD_PCT THEN 0 ELSE test_stage
  /\ UNCHANGED <<split, status, variant, results, promoted>>

ExNext ==
  \/ \E weights \in Splits : create_experiment(weights)
  \/ get_variant
  \/ \E res \in Results : auto_promote(res)
  \/ \E d \in {0, 6} : ab_test_progress(d)

ExSpec == ExInit /\ [][ExNext]_exVars

--------------------------------------------------------------------------------
(****************************************************************************)
(* Properties.                                                              *)
(****************************************************************************)

\* Each variant gets as many of the buckets as its weight says, whatever malformed
\* weights stand between the good ones, as long as the good ones fit.
SharesAsWeighted ==
  Total(split, Len(split)) <= BUCKET_MODULUS /\ variant # [b \in DOMAIN variant |-> 0] =>
    \A i \in DOMAIN split :
      Cardinality({b \in DOMAIN variant : variant[b] = i})
        = IF split[i] < 0 THEN 0 ELSE split[i]

\* An experiment ends with a winner that leads every other variant anyone measured;
\* a variant nobody measured never wins.
WinnerLeads ==
  promoted # 0 =>
    /\ status = "completed" /\ results[promoted].count > 0
    /\ \A j \in DOMAIN results \ {promoted} :
         results[j].count > 0 =>
           results[promoted].mean >= results[j].mean + PROMOTION_DIFF_THRESHOLD
================================================================================
