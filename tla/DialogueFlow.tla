------------------------------ MODULE DialogueFlow ------------------------------
(****************************************************************************)
(* What a dialogue promises, whatever calls move it (FR-34 to FR-37 as      *)
(* core/dst.py documents them): one stage after the other, back from the    *)
(* confirmation to the slots, out to an agent from anywhere, never out of   *)
(* the two ends; and every move counts one turn.                            *)
(****************************************************************************)
EXTENDS Integers

Stages == <<"IDLE", "INTENT_DETECTED", "SLOT_FILLING", "AWAITING_CONFIRMATION",
            "PROCESSING", "TOOL_CALLING", "RESOLVED">>

Ends == {"RESOLVED", "ESCALATED"}

VARIABLES state, turn_count

FlowInit == state = "IDLE" /\ turn_count = 0

Onward == \E i \in 1..6 : state = Stages[i] /\ state' = Stages[i + 1]

Denied == state = "AWAITING_CONFIRMATION" /\ state' = "SLOT_FILLING"

HandedOver == state \notin Ends /\ state' = "ESCALATED"

FlowNext == (Onward \/ Denied \/ HandedOver) /\ turn_count' = turn_count + 1

FlowSpec == FlowInit /\ [][FlowNext]_<<state, turn_count>>
================================================================================
