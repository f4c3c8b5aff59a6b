------------------------------ MODULE DialogueState ------------------------------
(****************************************************************************)
(* DialogueState (core/dst.py): the state machine of one conversation, its  *)
(* slots, and the side channels that move it without ALLOWED_TRANSITIONS.   *)
(* Every method holds the lock, so each call is one step; concurrent        *)
(* sessions may make any call with any arguments at any time, the counts of *)
(* rounds they pass included: the caller keeps those, and they may be old.  *)
(****************************************************************************)
EXTENDS Integers

CONSTANTS Intents,   \* the intents a message may have, "none" for the empty one
          MaxTurns   \* bound on turn_count

VARIABLES state,       \* state
          turn_count,  \* turn_count
          intent,      \* intent
          filled       \* slots whose value is not blank

dsVars == <<state, turn_count, intent, filled>>

ALLOWED_TRANSITIONS ==
  [s \in {"IDLE", "INTENT_DETECTED", "SLOT_FILLING", "AWAITING_CONFIRMATION",
          "PROCESSING", "TOOL_CALLING", "RESOLVED", "ESCALATED"} |->
     CASE s = "IDLE" -> {"INTENT_DETECTED"}
       [] s = "INTENT_DETECTED" -> {"SLOT_FILLING"}
       [] s = "SLOT_FILLING" -> {"AWAITING_CONFIRMATION"}
       [] s = "AWAITING_CONFIRMATION" -> {"PROCESSING"}
       [] s = "PROCESSING" -> {"TOOL_CALLING"}
       [] s = "TOOL_CALLING" -> {"RESOLVED", "ESCALATED"}
       [] OTHER -> {}]

DsStates == DOMAIN ALLOWED_TRANSITIONS

\* DialogueSlot and INTENT_TO_SLOTS.
DialogueSlot == {"order_id", "reason"}
Required(i) ==
  CASE i = "order_status" -> {"order_id"}
    [] i = "return_request" -> {"order_id", "reason"}
    [] OTHER -> {}

MAX_SLOT_FILLING_ROUNDS == 3
MAX_AWAITING_CONFIRMATION_ROUNDS == 2

DsInit ==
  /\ state = "IDLE" /\ turn_count = 0
  /\ intent = "none" /\ filled = {}

Moves(s) ==
  /\ turn_count < MaxTurns
  /\ state' = s
  /\ turn_count' = turn_count + 1
  /\ UNCHANGED <<intent, filled>>

\* An empty intent keeps the old one; slots are overwritten, with blanks too.
update_intent_and_slots(i, given, blank) ==
  /\ intent' = IF i = "none" THEN intent ELSE i
  /\ filled' = (filled \ blank) \union given
  /\ UNCHANGED <<state, turn_count>>

\* An illegal target raises ValueError and changes nothing.  missing_slots is
\* not consulted.
transition(s) == s \in ALLOWED_TRANSITIONS[state] /\ Moves(s)

\* Wrong on purpose: a low confidence moves a finished dialogue, too.
EscalateAnyway(rounds, confident) ==
  /\ ~confident \/ (state = "SLOT_FILLING" /\ rounds >= MAX_SLOT_FILLING_ROUNDS)
  /\ Moves("ESCALATED")

auto_escalate(rounds, confident) ==
  /\ state \notin {"RESOLVED", "ESCALATED"}
  /\ ~confident \/ (state = "SLOT_FILLING" /\ rounds >= MAX_SLOT_FILLING_ROUNDS)
  /\ Moves("ESCALATED")

\* Too many rounds come first; then confirm and deny; anything else does nothing.
handle_confirmation(response, rounds) ==
  /\ state = "AWAITING_CONFIRMATION"
  /\ \/ rounds >= MAX_AWAITING_CONFIRMATION_ROUNDS /\ Moves("ESCALATED")
     \/ /\ rounds < MAX_AWAITING_CONFIRMATION_ROUNDS
        /\ \/ response = "confirm" /\ Moves("PROCESSING")
           \/ response = "deny" /\ Moves("SLOT_FILLING")

\* What missing_slots answers: a query of its own, so what it said may be old by the
\* time the caller moves on to the confirmation.
missing_slots == Required(intent) \ filled

DsNext ==
  \/ \E i \in Intents : \E given, blank \in SUBSET DialogueSlot :
       update_intent_and_slots(i, given, blank)
  \/ \E s \in DsStates : transition(s)
  \/ \E rounds \in 0..4 :
       \/ \E confident \in BOOLEAN : auto_escalate(rounds, confident)
       \/ \E response \in {"confirm", "deny", "other"} : handle_confirmation(response, rounds)

DsSpec == DsInit /\ [][DsNext]_dsVars

--------------------------------------------------------------------------------
(****************************************************************************)
(* Properties.                                                              *)
(****************************************************************************)

Flow == INSTANCE DialogueFlow

\* Whatever mixture of transitions, escalations and confirmations concurrent
\* sessions make, the dialogue keeps to the documented flow: nothing is skipped,
\* the ends are final, and every move counts one turn.
ImplementsFlow == Flow!FlowSpec
================================================================================
