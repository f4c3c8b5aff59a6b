-------------------------------- MODULE Paladin --------------------------------
(****************************************************************************)
(* PALADINPipeline.process (core/paladin.py): the classifier (layer 4) and  *)
(* the model call (layer 3) of one request, in the order its risk demands.  *)
(* The classifier runs on a worker thread and the model call on the loop;   *)
(* at medium risk they run at once and end in any order.                    *)
(****************************************************************************)

VARIABLES risk,    \* risk_level of the request in process, or "none"
          layer4,  \* the classifier: "idle", "running" or what _call_llm came to
          layer3,  \* the model call: "idle", "running", "answered", "raised"
          result   \* what process returned or raised: kind and flags

paVars == <<risk, layer4, layer3, result>>

Pending == [kind |-> "pending", tier3_called |-> FALSE, l4_called |-> FALSE]

PaInit ==
  /\ risk = "none" /\ layer4 = "idle" /\ layer3 = "idle"
  /\ result = Pending

Result(kind, tier3, l4) == [kind |-> kind, tier3_called |-> tier3, l4_called |-> l4]

\* Critical requests are blocked outright, unknown levels refused; low ones go
\* to the model, high ones to the classifier, medium ones to both.
process(r) ==
  /\ risk = "none"
  /\ risk' = r
  /\ layer4' = IF r \in {"medium", "high"} THEN "running" ELSE "idle"
  /\ layer3' = IF r \in {"low", "medium"} THEN "running" ELSE "idle"
  /\ result' = IF r = "critical" THEN Result("blocked", FALSE, FALSE)
               ELSE IF r = "unknown" THEN Result("raised", FALSE, FALSE)
               ELSE Pending

\* What _call_llm may come to.
CallOutcomes == {"harmless", "injection", "odd type", "odd injection",
                 "timed out", "no connection", "ValueError", "other error"}

classify ==
  /\ layer4 = "running"
  /\ layer4' \in CallOutcomes
  /\ UNCHANGED <<risk, layer3, result>>

\* Wrong on purpose: a verdict of a type that is not known is thrown away.
VerdictByType ==
  CASE layer4 = "harmless" -> "clean"
    [] layer4 = "injection" -> "injection"
    [] layer4 = "other error" -> "raised"
    [] OTHER -> "unverified"

\* What classify makes of it: an unknown type is unverified and keeps its
\* verdict; when the model cannot be asked, the text passes unverified; any
\* other error is the caller's.
Verdict ==
  CASE layer4 = "harmless" -> "clean"
    [] layer4 \in {"injection", "odd injection"} -> "injection"
    [] layer4 = "other error" -> "raised"
    [] OTHER -> "unverified"

Tier3Ends ==
  /\ layer3 = "running"
  /\ layer3' \in {"answered", "raised"}
  /\ UNCHANGED <<risk, layer4, result>>

Ended(layer) == layer \notin {"idle", "running"}

\* High risk: the model is called once the verdict is in, unless it is injection.
ReadVerdict ==
  /\ risk = "high" /\ result = Pending
  /\ Ended(layer4) /\ layer3 = "idle"
  /\ \/ /\ Verdict = "raised"
        /\ result' = Result("raised", FALSE, TRUE)
        /\ UNCHANGED layer3
     \/ /\ Verdict = "injection"
        /\ result' = Result("blocked", FALSE, TRUE)
        /\ UNCHANGED layer3
     \/ /\ Verdict \in {"clean", "unverified"}
        /\ layer3' = "running"
        /\ UNCHANGED result
  /\ UNCHANGED <<risk, layer4>>

\* Low and high risk: the model's answer, or its error, is the result.
ReadAnswer ==
  /\ risk \in {"low", "high"} /\ result = Pending
  /\ Ended(layer3)
  /\ result' = Result(layer3, TRUE, risk = "high")
  /\ UNCHANGED <<risk, layer4, layer3>>

\* Medium risk: gather waits for both, errors included; the classifier's error
\* comes first, and injection blocks an answer that is already there
\* (_handle_retrospective_block; a failing security log is ignored).
Gather ==
  /\ risk = "medium" /\ result = Pending
  /\ Ended(layer3) /\ Ended(layer4)
  /\ result' = Result(IF "raised" \in {Verdict, layer3} THEN "raised"
                      ELSE IF Verdict = "injection" THEN "blocked"
                      ELSE "answered", TRUE, TRUE)
  /\ UNCHANGED <<risk, layer4, layer3>>

\* The caller has its result and makes the next request.
TakeResult ==
  /\ result # Pending
  /\ risk' = "none" /\ layer4' = "idle" /\ layer3' = "idle"
  /\ result' = Pending

PaNext ==
  \/ \E r \in {"low", "medium", "high", "critical", "unknown"} : process(r)
  \/ classify
  \/ Tier3Ends
  \/ ReadVerdict
  \/ ReadAnswer
  \/ Gather
  \/ TakeResult

PaSpec == PaInit /\ [][PaNext]_paVars

--------------------------------------------------------------------------------
(****************************************************************************)
(* Properties.                                                              *)
(****************************************************************************)

\* Text that was called an injection is never answered, whichever of the two
\* calls ended first; at high risk the model does not even see it.
InjectionNeverAnswered ==
  LET suspect == {"injection", "odd injection"}
  IN  /\ result.kind = "answered" => layer4 \notin suspect \union {"other error"}
      /\ risk = "high" /\ layer3 # "idle" => layer4 \in CallOutcomes \ suspect
      /\ risk = "critical" => layer3 = "idle"

================================================================================
