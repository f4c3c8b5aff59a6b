------------------------------ MODULE RequestProofs ------------------------------
(****************************************************************************)
(* For any requests, dialogues and attachments: a dialogue keeps to the     *)
(* documented flow, a request is masked before anything is looked up and    *)
(* answered with what was pushed, and a retraction that calls itself a      *)
(* success is one.                                                          *)
(****************************************************************************)
EXTENDS DialogueState, RequestPath, Retraction, SequenceTheorems, TLAPS

--------------------------------------------------------------------------------
(****************************************************************************)
(* The dialogue: DialogueState implements DialogueFlow.                     *)
(****************************************************************************)

\* The shape of a dialogue.  transition reads ALLOWED_TRANSITIONS at its state, so
\* the flow needs to know that the state is one of the eight.
DsTypeOK ==
  /\ state \in {"IDLE", "INTENT_DETECTED", "SLOT_FILLING", "AWAITING_CONFIRMATION",
                "PROCESSING", "TOOL_CALLING", "RESOLVED", "ESCALATED"}
  /\ turn_count \in Nat
  /\ intent \in Intents \union {"none"}
  /\ filled \subseteq DialogueSlot

--------------------------------------------------------------------------------
(****************************************************************************)
(* The moves, one lemma for each method.                                    *)
(****************************************************************************)

\* A legal transition is a step onwards or the hand-over of a failed tool call.
LEMMA TransitionFlows ==
  ASSUME DsTypeOK, NEW s \in DsStates, transition(s)
  PROVE  Flow!FlowNext
<1>1. /\ s \in ALLOWED_TRANSITIONS[state]
      /\ state' = s /\ turn_count' = turn_count + 1
  BY DEF transition, Moves
<1>2. Flow!Onward \/ Flow!HandedOver
  <2>1. CASE state = "IDLE"
    <3>1. s = "INTENT_DETECTED"
      BY <1>1, <2>1 DEF ALLOWED_TRANSITIONS
    <3> QED BY <1>1, <2>1, <3>1 DEF Flow!Onward, Flow!Stages
  <2>2. CASE state = "INTENT_DETECTED"
    <3>1. s = "SLOT_FILLING"
      BY <1>1, <2>2 DEF ALLOWED_TRANSITIONS
    <3> QED BY <1>1, <2>2, <3>1 DEF Flow!Onward, Flow!Stages
  <2>3. CASE state = "SLOT_FILLING"
    <3>1. s = "AWAITING_CONFIRMATION"
      BY <1>1, <2>3 DEF ALLOWED_TRANSITIONS
    <3> QED BY <1>1, <2>3, <3>1 DEF Flow!Onward, Flow!Stages
  <2>4. CASE state = "AWAITING_CONFIRMATION"
    <3>1. s = "PROCESSING"
      BY <1>1, <2>4 DEF ALLOWED_TRANSITIONS
    <3> QED BY <1>1, <2>4, <3>1 DEF Flow!Onward, Flow!Stages
  <2>5. CASE state = "PROCESSING"
    <3>1. s = "TOOL_CALLING"
      BY <1>1, <2>5 DEF ALLOWED_TRANSITIONS
    <3> QED BY <1>1, <2>5, <3>1 DEF Flow!Onward, Flow!Stages
  <2>6. CASE state = "TOOL_CALLING"
    <3>1. s \in {"RESOLVED", "ESCALATED"}
      BY <1>1, <2>6 DEF ALLOWED_TRANSITIONS
    <3> QED BY <1>1, <2>6, <3>1 DEF Flow!Onward, Flow!Stages, Flow!HandedOver, Flow!Ends
  <2>7. CASE state \in {"RESOLVED", "ESCALATED"}
    BY <1>1, <2>7 DEF ALLOWED_TRANSITIONS
  <2> QED BY <2>1, <2>2, <2>3, <2>4, <2>5, <2>6, <2>7 DEF DsTypeOK
<1> QED BY <1>1, <1>2 DEF Flow!FlowNext

\* The escalation is a hand-over, from any stage that is not an end.
LEMMA EscalationFlows ==
  ASSUME NEW rounds, NEW confident, auto_escalate(rounds, confident)
  PROVE  Flow!FlowNext
BY DEF auto_escalate, Moves, Flow!FlowNext, Flow!HandedOver, Flow!Ends

\* The confirmation hands over, goes on, or goes back to the slots.
LEMMA ConfirmationFlows ==
  ASSUME NEW response, NEW rounds, handle_confirmation(response, rounds)
  PROVE  Flow!FlowNext
<1>1. /\ state = "AWAITING_CONFIRMATION" /\ turn_count' = turn_count + 1
      /\ state' \in {"ESCALATED", "PROCESSING", "SLOT_FILLING"}
  BY DEF handle_confirmation, Moves
<1>2. CASE state' = "ESCALATED"
  BY <1>1, <1>2 DEF Flow!FlowNext, Flow!HandedOver, Flow!Ends
<1>3. CASE state' = "PROCESSING"
  <2>1. Flow!Onward
    BY <1>1, <1>3 DEF Flow!Onward, Flow!Stages
  <2> QED BY <1>1, <2>1 DEF Flow!FlowNext
<1>4. CASE state' = "SLOT_FILLING"
  BY <1>1, <1>4 DEF Flow!FlowNext, Flow!Denied
<1> QED BY <1>1, <1>2, <1>3, <1>4

\* One step of any method is a step of the flow or leaves state and turns alone.
LEMMA NextFlows ==
  ASSUME DsTypeOK, [DsNext]_dsVars
  PROVE  [Flow!FlowNext]_<<state, turn_count>>
<1>1. CASE UNCHANGED dsVars
  BY <1>1 DEF dsVars
<1>2. ASSUME NEW i \in Intents, NEW given \in SUBSET DialogueSlot,
             NEW blank \in SUBSET DialogueSlot, update_intent_and_slots(i, given, blank)
      PROVE  UNCHANGED <<state, turn_count>>
  BY <1>2 DEF update_intent_and_slots
<1> QED BY <1>1, <1>2, TransitionFlows, EscalationFlows, ConfirmationFlows DEF DsNext

--------------------------------------------------------------------------------

\* The dialogue keeps its shape (DialogueState.__init__ and every method).
THEOREM DsTyped == DsSpec => []DsTypeOK
<1>1. DsInit => DsTypeOK
  BY DEF DsInit, DsTypeOK, DialogueSlot
<1>2. DsTypeOK /\ [DsNext]_dsVars => DsTypeOK'
  <2> SUFFICES ASSUME DsTypeOK, [DsNext]_dsVars PROVE DsTypeOK'
    OBVIOUS
  <2>1. CASE UNCHANGED dsVars
    BY <2>1 DEF dsVars, DsTypeOK, DialogueSlot
  <2>2. ASSUME NEW i \in Intents, NEW given \in SUBSET DialogueSlot,
               NEW blank \in SUBSET DialogueSlot, update_intent_and_slots(i, given, blank)
        PROVE  DsTypeOK'
    BY <2>2 DEF update_intent_and_slots, DsTypeOK, DialogueSlot
  <2>3. ASSUME NEW s \in DsStates, transition(s)
        PROVE  DsTypeOK'
    <3>1. s \in {"IDLE", "INTENT_DETECTED", "SLOT_FILLING", "AWAITING_CONFIRMATION",
                 "PROCESSING", "TOOL_CALLING", "RESOLVED", "ESCALATED"}
      BY DEF DsStates, ALLOWED_TRANSITIONS
    <3> QED BY <2>3, <3>1 DEF transition, Moves, DsTypeOK, DialogueSlot
  <2>4. ASSUME NEW rounds \in 0..4, NEW confident \in BOOLEAN,
               auto_escalate(rounds, confident)
        PROVE  DsTypeOK'
    BY <2>4 DEF auto_escalate, Moves, DsTypeOK, DialogueSlot
  <2>5. ASSUME NEW rounds \in 0..4, NEW response \in {"confirm", "deny", "other"},
               handle_confirmation(response, rounds)
        PROVE  DsTypeOK'
    <3>1. /\ state' \in {"ESCALATED", "PROCESSING", "SLOT_FILLING"}
          /\ turn_count' = turn_count + 1
          /\ UNCHANGED <<intent, filled>>
      BY <2>5 DEF handle_confirmation, Moves
    <3> QED BY <3>1 DEF DsTypeOK, DialogueSlot
  <2> QED BY <2>1, <2>2, <2>3, <2>4, <2>5 DEF DsNext
<1> QED BY <1>1, <1>2, PTL DEF DsSpec

\* ImplementsFlow: no mixture of transitions, escalations and confirmations leaves
\* the documented flow.
THEOREM DialogueFlows == DsSpec => ImplementsFlow
<1>1. DsInit => Flow!FlowInit
  BY DEF DsInit, Flow!FlowInit
<1>2. DsTypeOK /\ [DsNext]_dsVars => [Flow!FlowNext]_<<state, turn_count>>
  BY NextFlows
<1> QED BY <1>1, <1>2, DsTyped, PTL DEF DsSpec, ImplementsFlow, Flow!FlowSpec

--------------------------------------------------------------------------------
(****************************************************************************)
(* The way of a request.                                                    *)
(****************************************************************************)

\* What is kept, is kept for each request.
RpTypeOK ==
  /\ stage \in [Requests -> {"new", "handler", "attachments", "publish", "done"}]
  /\ reply \in [Requests -> {"", "RATE_LIMIT_EXCEEDED", "INTERNAL_ERROR", "ok"}]
  /\ sent = [q \in Requests |-> sent[q]]
  /\ log = [q \in Requests |-> log[q]] /\ read = [q \in Requests |-> read[q]]
  /\ attached = [q \in Requests |-> attached[q]] /\ pushes = [q \in Requests |-> pushes[q]]

\* A request has run no stage before its handler and all of them after it, and is
\* answered last of all.
Underway(q) ==
  /\ stage[q] \in {"new", "handler"} => log[q] = <<>>
  /\ stage[q] \in {"attachments", "publish"} =>
       log[q] = Stages(sent[q].platform) /\ sent[q].messages # 0
  /\ stage[q] # "done" => reply[q] = "" /\ pushes[q] = {}

\* The parts of MaskedOnward and PushedIsAnswered for one request.
Masks(q) ==
  /\ \A s \in {"dst", "knowledge", "emotion", "response"} : <<s, "raw">> \notin read[q]
  /\ reply[q] = "ok" =>
       log[q] = IF sent[q].messages = 0 THEN <<>> ELSE Stages(sent[q].platform)

Pushed(q) == pushes[q] # {} => reply[q] = "ok" /\ pushes[q] = {attached[q]}

RpInv == RpTypeOK /\ \A q \in Requests : Underway(q) /\ Masks(q) /\ Pushed(q)

LEMMA InitRpInv == RpInit => RpInv
<1> SUFFICES ASSUME RpInit PROVE RpInv
  OBVIOUS
<1>1. RpTypeOK
  BY DEF RpInit, RpTypeOK
<1>2. ASSUME NEW q \in Requests PROVE Underway(q) /\ Masks(q) /\ Pushed(q)
  BY DEF RpInit, Underway, Masks, Pushed
<1> QED  BY <1>1, <1>2 DEF RpInv

\* Where a step leaves the other requests.
Others(q) ==
  \A n \in Requests \ {q} :
    /\ stage'[n] = stage[n] /\ reply'[n] = reply[n] /\ sent'[n] = sent[n]
    /\ log'[n] = log[n] /\ read'[n] = read[n]
    /\ attached'[n] = attached[n] /\ pushes'[n] = pushes[n]

LEMMA OneRequest ==
  ASSUME RpInv, NEW q \in Requests, RpTypeOK', Others(q),
         Underway(q)', Masks(q)', Pushed(q)'
  PROVE  RpInv'
<1>1. ASSUME NEW n \in Requests PROVE (Underway(n) /\ Masks(n) /\ Pushed(n))'
  <2>1. CASE n = q
    BY <2>1
  <2>2. CASE n # q
    <3>1. Underway(n) /\ Masks(n) /\ Pushed(n)
      BY DEF RpInv
    <3> QED  BY <2>2, <3>1 DEF Others, Underway, Masks, Pushed
  <2> QED  BY <2>1, <2>2
<1> QED  BY <1>1 DEF RpInv

\* The chain lets a request through or answers it; nothing has run.
LEMMA ProcessRpInv ==
  ASSUME RpInv, NEW q \in Requests, NEW allowed \in BOOLEAN, process(q, allowed)
  PROVE  RpInv'
<1>1. /\ stage[q] = "new" /\ UNCHANGED <<sent, log, read, attached, pushes>>
      /\ stage' = [stage EXCEPT ![q] = IF allowed THEN "handler" ELSE "done"]
      /\ reply' = [reply EXCEPT ![q] = IF allowed THEN "" ELSE "RATE_LIMIT_EXCEEDED"]
  BY DEF process
<1>2. RpTypeOK' /\ Others(q)
  BY <1>1 DEF RpInv, RpTypeOK, Others
<1>3. /\ stage'[q] \in {"handler", "done"} /\ reply'[q] # "ok"
      /\ stage'[q] = "handler" => reply'[q] = ""
  BY <1>1 DEF RpInv, RpTypeOK
<1>4. Underway(q) /\ Masks(q)
  BY DEF RpInv
<1>5. Underway(q)' /\ Masks(q)' /\ Pushed(q)'
  BY <1>1, <1>3, <1>4 DEF Underway, Masks, Pushed
<1> QED  BY <1>2, <1>5, OneRequest

\* What the stages of one request leave behind.
LEMMA StagesMasked ==
  ASSUME RpInv, NEW q \in Requests, NEW p \in Platforms, NEW raises, handle_message(q, p, raises)
  PROVE  /\ log' = [log EXCEPT ![q] = log'[q]] /\ read' = [read EXCEPT ![q] = read'[q]]
         /\ \A s \in {"dst", "knowledge", "emotion", "response"} : <<s, "raw">> \notin read'[q]
         /\ raises = "none" => log'[q] = Stages(p)
<1>1. PICK ran : /\ log' = [log EXCEPT ![q] = ran]
                 /\ read' = [read EXCEPT ![q] = {<<s, TextFor(s)>> : s \in ToSet(ran)}]
                 /\ raises \notin ToSet(Stages(p)) => ran = Stages(p)
  BY DEF handle_message
<1>2. log'[q] = ran /\ read'[q] = {<<s, TextFor(s)>> : s \in ToSet(ran)}
  BY <1>1 DEF RpInv, RpTypeOK
<1>3. "none" \notin ToSet(Stages(p))
  BY DEF Stages, ToSet
<1>4. \A s \in {"dst", "knowledge", "emotion", "response"} : TextFor(s) = "masked"
  BY DEF TextFor
<1>5. \A s \in {"dst", "knowledge", "emotion", "response"} : <<s, "raw">> \notin read'[q]
  BY <1>2, <1>4
<1> QED  BY <1>1, <1>2, <1>3, <1>5

\* The handler answers an error, answers, or goes on to the attachments.
LEMMA HandleRpInv ==
  ASSUME RpInv, NEW q \in Requests, NEW p \in Platforms, NEW body \in Body, NEW raises,
         handle(q, p, body, raises)
  PROVE  RpInv'
<1> DEFINE held == Held(p, body)
           letter == [platform |-> p, messages |-> held, malformed |-> body.malformed]
<1>1. /\ stage[q] = "handler" /\ UNCHANGED <<attached, pushes>>
      /\ sent' = [sent EXCEPT ![q] = letter]
  BY DEF handle
<1>2. sent'[q].platform = p /\ sent'[q].messages = held
  BY <1>1 DEF RpInv, RpTypeOK
<1> HIDE DEF letter, held
<1>3. log[q] = <<>> /\ reply[q] = "" /\ pushes[q] = {} /\ Masks(q)
  BY <1>1 DEF RpInv, Underway
<1>4. /\ log' = [log EXCEPT ![q] = log'[q]] /\ read' = [read EXCEPT ![q] = read'[q]]
      /\ \A s \in {"dst", "knowledge", "emotion", "response"} : <<s, "raw">> \notin read'[q]
  <2>1. UNCHANGED <<log, read>> \/ handle_message(q, p, raises)
    BY DEF handle
  <2>2. CASE UNCHANGED <<log, read>>
    BY <1>3, <2>2 DEF RpInv, RpTypeOK, Masks
  <2> QED  BY <2>1, <2>2, StagesMasked
<1>5. PICK s \in {"attachments", "done"}, a \in {"", "INTERNAL_ERROR", "ok"} :
        /\ stage' = [stage EXCEPT ![q] = s] /\ reply' = [reply EXCEPT ![q] = a]
        /\ s = "attachments" => a = "" /\ held # 0 /\ log'[q] = Stages(p)
        /\ a = "ok" => log'[q] = IF held = 0 THEN <<>> ELSE Stages(p)
  <2>1. reply = [reply EXCEPT ![q] = ""]
    BY <1>3 DEF RpInv, RpTypeOK
  <2>2. CASE held = 0 /\ UNCHANGED <<log, read>>
    BY <1>3, <2>2 DEF handle, held
  <2>3. CASE held # 0 /\ raises = "none" /\ handle_message(q, p, raises)
    <3>1. log'[q] = Stages(p)
      BY <2>3, StagesMasked
    <3> QED  BY <2>1, <2>3, <3>1 DEF handle, held
  <2>4. CASE AdapterRaises(p, body) \/ (raises # "none" /\ held # 0)
    BY <2>4 DEF handle, held
  <2> QED  BY <2>2, <2>3, <2>4 DEF handle, held
<1>6. RpTypeOK' /\ Others(q)
  BY <1>1, <1>4, <1>5 DEF RpInv, RpTypeOK, Others
<1>7. stage'[q] = s /\ reply'[q] = a
  BY <1>5 DEF RpInv, RpTypeOK
<1>8. Underway(q)' /\ Masks(q)' /\ Pushed(q)'
  BY <1>1, <1>2, <1>3, <1>4, <1>5, <1>7 DEF Underway, Masks, Pushed
<1> QED  BY <1>6, <1>8, OneRequest

\* The web route goes on: nothing it does to the attachments undoes its stages.
LEMMA ResolveRpInv ==
  ASSUME RpInv, NEW q \in Requests, NEW ids \in SUBSET Media,
         _resolve_attachments(q, ids) \/ AttachmentsUnlisted(q)
  PROVE  RpInv'
<1>1. PICK s \in {"publish", "done"}, a \in {"", "INTERNAL_ERROR"} :
        /\ stage[q] = "attachments" /\ UNCHANGED <<sent, log, read, pushes>>
        /\ stage' = [stage EXCEPT ![q] = s] /\ reply' = [reply EXCEPT ![q] = a]
        /\ s = "publish" => a = ""
        /\ attached' = [attached EXCEPT ![q] = attached'[q]]
  <2>1. CASE AttachmentsUnlisted(q)
    BY <2>1 DEF AttachmentsUnlisted, RpInv, RpTypeOK
  <2>2. CASE _resolve_attachments(q, ids)
    <3>1. stage[q] = "attachments" /\ reply[q] = ""
      BY <2>2 DEF _resolve_attachments, RpInv, Underway
    <3>2. reply = [reply EXCEPT ![q] = ""]
      BY <3>1 DEF RpInv, RpTypeOK
    <3>3. PICK found \in SUBSET ids : attached' = [attached EXCEPT ![q] = found]
      BY <2>2 DEF _resolve_attachments
    <3>4. attached' = [attached EXCEPT ![q] = attached'[q]]
      BY <3>3 DEF RpInv, RpTypeOK
    <3> QED  BY <2>2, <3>1, <3>2, <3>4 DEF _resolve_attachments
  <2> QED  BY <2>1, <2>2
<1>2. RpTypeOK' /\ Others(q)
  BY <1>1 DEF RpInv, RpTypeOK, Others
<1>3. stage'[q] = s /\ reply'[q] = a
  BY <1>1 DEF RpInv, RpTypeOK
<1>4. Underway(q) /\ Masks(q)
  BY DEF RpInv
<1>5. Underway(q)' /\ Masks(q)' /\ Pushed(q)'
  BY <1>1, <1>3, <1>4 DEF Underway, Masks, Pushed
<1> QED  BY <1>2, <1>5, OneRequest

\* Whatever becomes of the push, the answer is the one that was pushed.
LEMMA PublishRpInv ==
  ASSUME RpInv, NEW q \in Requests, NEW pushed, publish(q, pushed)
  PROVE  RpInv'
<1>1. /\ stage[q] = "publish" /\ UNCHANGED <<sent, log, read, attached>>
      /\ stage' = [stage EXCEPT ![q] = "done"] /\ reply' = [reply EXCEPT ![q] = "ok"]
      /\ pushes' = [pushes EXCEPT ![q] = IF pushed = "nothing" THEN {} ELSE {attached[q]}]
  BY DEF publish, AnswerAfterPush
<1>2. RpTypeOK' /\ Others(q)
  BY <1>1 DEF RpInv, RpTypeOK, Others
<1>3. /\ stage'[q] = "done" /\ reply'[q] = "ok"
      /\ pushes'[q] = {} \/ pushes'[q] = {attached[q]}
  BY <1>1 DEF RpInv, RpTypeOK
<1>4. Underway(q) /\ Masks(q)
  BY DEF RpInv
<1>5. Underway(q)' /\ Masks(q)' /\ Pushed(q)'
  BY <1>1, <1>3, <1>4 DEF Underway, Masks, Pushed
<1> QED  BY <1>2, <1>5, OneRequest

LEMMA NextRpInv == RpInv /\ [RpNext]_rpVars => RpInv'
<1> SUFFICES ASSUME RpInv, [RpNext]_rpVars PROVE RpInv'
  OBVIOUS
<1>1. CASE UNCHANGED rpVars
  BY <1>1 DEF rpVars, RpInv, RpTypeOK, Underway, Masks, Pushed
<1> QED
  BY <1>1, ProcessRpInv, HandleRpInv, ResolveRpInv, PublishRpInv DEF RpNext

\* For any number of requests and messages in a body, whichever stage raises: no
\* stage behind the mask reads the raw text, and "ok" means that the first message
\* has been through all stages, or that there was none.
THEOREM Masked == RpSpec => []MaskedOnward
<1>1. RpInv => MaskedOnward
  BY DEF RpInv, Masks, MaskedOnward
<1> QED  BY InitRpInv, NextRpInv, <1>1, PTL DEF RpSpec

\* PushedIsAnswered: for any attachments, whether the push fails before the frame
\* is out, after it, or not at all.
THEOREM SameAnswer == RpSpec => []PushedIsAnswered
<1>1. RpInv => PushedIsAnswered
  BY DEF RpInv, Pushed, PushedIsAnswered
<1> QED  BY InitRpInv, NextRpInv, <1>1, PTL DEF RpSpec

--------------------------------------------------------------------------------
(****************************************************************************)
(* Taking an answer back.                                                   *)
(****************************************************************************)

\* What a retraction may come to, and what is known before there is one.
ReTypeOK ==
  /\ age \in Nat
  /\ writer \in BOOLEAN /\ visible \in BOOLEAN
  /\ platform = "" => verdict = NoResult
  /\ verdict = NoResult => logged = {}

ReInv == ReTypeOK /\ FailSecure

LEMMA InitReInv == ReInit => ReInv
<1> SUFFICES ASSUME ReInit PROVE ReInv
  OBVIOUS
<1>1. ReTypeOK
  BY DEF ReInit, ReTypeOK
<1>2. FailSecure
  BY DEF ReInit, FailSecure
<1> QED  BY <1>1, <1>2 DEF ReInv

LEMMA WindowIsNat == DeletionWindow \in Nat
BY RetractionWindows DEF DeletionWindow

\* Failing is an apology, logged where it can be.
LEMMA LoggedFailure ==
  ASSUME NEW reason, _log_retraction_failed(reason)
  PROVE  writer => logged' # {}
BY DEF _log_retraction_failed

LEMMA NotAbove == \A a \in Nat, w \in Nat : ~(a > w) => a <= w
OBVIOUS

LEMMA WindowedReInv ==
  ASSUME ReInv, NEW client \in Client, verdict = NoResult, platform # "",
         UNCHANGED <<platform, age, writer>>, _attempt_windowed_delete(client)
  PROVE  ReInv'
<1>1. platform \in {"telegram", "messenger"} /\ logged = {} /\ visible' \in BOOLEAN
  BY DEF _attempt_windowed_delete, ReInv, ReTypeOK
<1>2. CASE verdict' = Apology /\ (writer => logged' # {})
  BY <1>1, <1>2 DEF ReInv, ReTypeOK, FailSecure, Apology, NoResult
<1>3. CASE /\ verdict' = [method |-> "delete", success |-> TRUE]
           /\ logged' = logged /\ ~visible' /\ age <= DeletionWindow
  BY <1>1, <1>3 DEF ReInv, ReTypeOK, FailSecure, NoResult, DeletionWindow
<1>4. age \in Nat /\ DeletionWindow \in Nat
  BY WindowIsNat DEF ReInv, ReTypeOK
<1>5. ~(age > DeletionWindow) => age <= DeletionWindow
  BY <1>4, NotAbove, Zenon
<1> QED
  BY <1>2, <1>3, <1>5, LoggedFailure DEF _attempt_windowed_delete, Deleted

\* The platforms that cannot delete promise a follow-up instead.
LEMMA FollowUpReInv ==
  ASSUME ReInv, verdict = NoResult, platform # "", UNCHANGED <<platform, age, writer>>,
         _retract_line \/ _retract_whatsapp
  PROVE  ReInv'
<1>1. logged = {} /\ logged' = {} /\ visible' \in BOOLEAN
  BY DEF _retract_line, _retract_whatsapp, ReInv, ReTypeOK
<1>2. CASE platform = "line" /\ verdict' = Apology
  BY <1>1, <1>2 DEF ReInv, ReTypeOK, FailSecure, Apology, NoResult
<1>3. CASE verdict' = [method |-> "correction", success |-> FALSE]
  BY <1>1, <1>3 DEF ReInv, ReTypeOK, FailSecure, NoResult
<1> QED  BY <1>2, <1>3 DEF _retract_line, _retract_whatsapp

\* The clients that can only fail by raising, and the platform nobody wired.
LEMMA RaisingReInv ==
  ASSUME ReInv, NEW client \in Client, verdict = NoResult, platform # "",
         UNCHANGED <<platform, age, writer>>,
         _retract_web(client) \/ _retract_a2a(client) \/ UnknownPlatform
  PROVE  ReInv'
<1>1. logged = {} /\ visible' \in BOOLEAN
  BY DEF _retract_web, _retract_a2a, UnknownPlatform, ReInv, ReTypeOK
<1>2. CASE verdict' = Apology /\ (writer => logged' # {})
  BY <1>1, <1>2 DEF ReInv, ReTypeOK, FailSecure, Apology, NoResult
<1>3. ASSUME NEW method \in {"ws_replace", "revoked"},
             verdict' = [method |-> method, success |-> TRUE], logged' = logged, ~visible'
      PROVE  ReInv'
  BY <1>1, <1>3 DEF ReInv, ReTypeOK, FailSecure, NoResult
<1>4. CASE verdict' = [method |-> "ValueError", success |-> FALSE]
  BY <1>1, <1>4 DEF ReInv, ReTypeOK, FailSecure, NoResult
<1> QED
  BY <1>2, <1>3, <1>4, LoggedFailure DEF _retract_web, _retract_a2a, UnknownPlatform

LEMMA NextReInv == ReInv /\ [ReNext]_reVars => ReInv'
<1> SUFFICES ASSUME ReInv, [ReNext]_reVars PROVE ReInv'
  OBVIOUS
<1>1. ASSUME NEW p \in {"telegram", "messenger", "line", "whatsapp", "web", "a2a", "sms"},
             NEW w \in BOOLEAN, Send(p, w)
      PROVE  ReInv'
  <2>1. verdict' = NoResult /\ platform' = p /\ UNCHANGED <<age, logged>>
    BY <1>1 DEF Send, ReInv, ReTypeOK
  <2>2. writer' \in BOOLEAN /\ visible' \in BOOLEAN
    BY <1>1 DEF Send
  <2>3. ReTypeOK'
    BY <1>1, <2>1, <2>2 DEF Send, ReInv, ReTypeOK
  <2> QED  BY <2>1, <2>3 DEF ReInv, FailSecure
<1>2. CASE Age
  <2>1. age \in Nat /\ age' = age + 1
    BY <1>2 DEF Age, ReInv, ReTypeOK
  <2>2. age' \in Nat
    BY <2>1
  <2> QED  BY <1>2, <2>2 DEF Age, ReInv, ReTypeOK, FailSecure
<1>3. ASSUME NEW client \in Client, retract(client) PROVE ReInv'
  BY <1>3, WindowedReInv, FollowUpReInv, RaisingReInv DEF retract
<1>4. CASE UNCHANGED reVars
  BY <1>4 DEF reVars, ReInv, ReTypeOK, FailSecure, DeletionWindow
<1> QED  BY <1>1, <1>2, <1>3, <1>4 DEF ReNext

\* FailSecure: for any windows and any age, whatever the client of a platform does.
THEOREM Secure == ReSpec => []FailSecure
<1>1. ReInv => FailSecure
  BY DEF ReInv
<1> QED  BY InitReInv, NextReInv, <1>1, PTL DEF ReSpec
================================================================================
