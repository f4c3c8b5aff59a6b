------------------------------ MODULE RequestPath ------------------------------
(****************************************************************************)
(* The way of one request through the service: MiddlewareChain.process      *)
(* (middleware/chain.py) with what build_app (api/main.py) gives it, the    *)
(* webhook routes and adapters of api/webhooks.py, and                      *)
(* Pipeline.handle_message (core/pipeline.py).  The routes are coroutines   *)
(* on one loop: a request gives way only at the awaits of web_message.      *)
(****************************************************************************)
EXTENDS Naturals, Sequences, FiniteSets, SequencesExt

CONSTANTS Requests,  \* each made once
          MaxBatch,  \* bound on the messages of one body
          Media      \* ids of attachments

ASSUME BatchBound == MaxBatch \in Nat

VARIABLES stage,   \* where each request is
          sent,    \* its platform, how many messages its body holds, and whether it is malformed
          log,     \* _stage_call_log of each request
          read,    \* which text each stage of a request was given
          reply,   \* the answer of each request, "" while there is none
          attached, \* attachments in the answer
          pushes    \* attachments in the message.reply frames pushed

rpVars == <<stage, sent, log, read, reply, attached, pushes>>

Platforms == {"telegram", "line", "messenger", "whatsapp", "web", "a2a"}

RpInit ==
  /\ stage = [q \in Requests |-> "new"]
  /\ sent = [q \in Requests |-> [platform |-> "none", messages |-> 0, malformed |-> FALSE]]
  /\ log = [q \in Requests |-> <<>>]
  /\ read = [q \in Requests |-> {}]
  /\ reply = [q \in Requests |-> ""]
  /\ attached = [q \in Requests |-> {}]
  /\ pushes = [q \in Requests |-> {}]

\* The chain as it is installed: signature, address and permission are let pass,
\* the user is "anonymous" whoever asks, and the limiter (RateLimiter) decides.
process(q, allowed) ==
  /\ stage[q] = "new"
  /\ stage' = [stage EXCEPT ![q] = IF allowed THEN "handler" ELSE "done"]
  /\ reply' = [reply EXCEPT ![q] = IF allowed THEN "" ELSE "RATE_LIMIT_EXCEEDED"]
  /\ UNCHANGED <<sent, log, read, attached, pushes>>

--------------------------------------------------------------------------------
(****************************************************************************)
(* Adapters.  A body holds some messages: the events, entries or messages   *)
(* of an array, or the one message of the other platforms ("bare" is one    *)
(* LINE event outside of any array).  What is malformed raises: a missing   *)
(* field or, on the web and for agents, a token that is not valid.          *)
(****************************************************************************)
Body == [messages : 0..MaxBatch, bare : BOOLEAN, malformed : BOOLEAN]

Held(platform, body) ==
  IF platform \in {"messenger", "whatsapp"} \/ (platform = "line" /\ ~body.bare)
  THEN body.messages ELSE 1

\* The LINE route hands the body over as if it were the event.
AdapterRaises(platform, body) == body.malformed \/ (platform = "line" /\ ~body.bare)

--------------------------------------------------------------------------------
(****************************************************************************)
(* The pipeline and the routes.                                             *)
(****************************************************************************)

\* Agents have no emotion stage.
Stages(platform) ==
  IF platform = "a2a" THEN <<"paladin", "pii", "dst", "knowledge", "response">>
  ELSE <<"paladin", "pii", "dst", "knowledge", "emotion", "response">>

\* Wrong on purpose: the text is masked after the knowledge was asked.
TextForLate(s) == IF s \in {"paladin", "pii", "dst", "knowledge"} THEN "raw" ELSE "masked"

\* mask replaces the text for every stage after it.
TextFor(s) == IF s \in {"paladin", "pii"} THEN "raw" ELSE "masked"

\* handle_message runs the stages in order until one raises (emotion's errors
\* are swallowed).
handle_message(q, platform, raises) ==
  LET all == Stages(platform)
      ran == IF raises \in ToSet(all) THEN SubSeq(all, 1, SelectInSeq(all, LAMBDA s : s = raises))
             ELSE all
  IN  /\ log' = [log EXCEPT ![q] = ran]
      /\ read' = [read EXCEPT ![q] = {<<s, TextFor(s)>> : s \in ToSet(ran)}]

\* The route: parse, run a pipeline of its own on the first message, if there is
\* one, and answer; whatever raises is an INTERNAL_ERROR.  Only the web route has
\* more to do.
handle(q, platform, body, raises) ==
  /\ stage[q] = "handler"
  /\ sent' = [sent EXCEPT ![q] = [platform |-> platform, messages |-> Held(platform, body),
                                    malformed |-> body.malformed]]
  /\ LET Answers(a) == /\ stage' = [stage EXCEPT ![q] = "done"]
                       /\ reply' = [reply EXCEPT ![q] = a]
     IN  \/ /\ AdapterRaises(platform, body)
            /\ Answers("INTERNAL_ERROR") /\ UNCHANGED <<log, read>>
         \/ /\ ~AdapterRaises(platform, body) /\ Held(platform, body) = 0
            /\ Answers("ok") /\ UNCHANGED <<log, read>>
         \/ /\ ~AdapterRaises(platform, body) /\ Held(platform, body) # 0
            /\ handle_message(q, platform, raises)
            /\ \/ raises # "none" /\ Answers("INTERNAL_ERROR")
               \/ raises = "none" /\ platform # "web" /\ Answers("ok")
               \/ /\ raises = "none" /\ platform = "web"
                  /\ stage' = [stage EXCEPT ![q] = "attachments"] /\ UNCHANGED reply
  /\ UNCHANGED <<attached, pushes>>

\* The query of an await gives the rows of the conversation the client named; a
\* session that cannot be had or a query that fails gives none.
_resolve_attachments(q, ids) ==
  /\ stage[q] = "attachments"
  /\ \E found \in SUBSET ids : attached' = [attached EXCEPT ![q] = found]
  /\ stage' = [stage EXCEPT ![q] = "publish"]
  /\ UNCHANGED <<sent, log, read, reply, pushes>>

\* "attachments" is no list: that raises before the query, with all stages run.
AttachmentsUnlisted(q) ==
  /\ stage[q] = "attachments"
  /\ stage' = [stage EXCEPT ![q] = "done"]
  /\ reply' = [reply EXCEPT ![q] = "INTERNAL_ERROR"]
  /\ UNCHANGED <<sent, log, read, attached, pushes>>

\* Wrong on purpose: a push that fails fails the answer.
AnswerUnguarded(pushed) == IF pushed = "whole" THEN "ok" ELSE "INTERNAL_ERROR"

\* Best effort: a push that fails, before or after the frame is out, is logged.
AnswerAfterPush(pushed) == "ok"

publish(q, pushed) ==
  /\ stage[q] = "publish"
  /\ pushes' = [pushes EXCEPT ![q] = IF pushed = "nothing" THEN {} ELSE {attached[q]}]
  /\ stage' = [stage EXCEPT ![q] = "done"]
  /\ reply' = [reply EXCEPT ![q] = AnswerAfterPush(pushed)]
  /\ UNCHANGED <<sent, log, read, attached>>

RpNext ==
  \E q \in Requests :
    \/ \E allowed \in BOOLEAN : process(q, allowed)
    \/ \E p \in Platforms, body \in Body :
         \E raises \in {"none"} \union (ToSet(Stages(p)) \ {"emotion"}) : handle(q, p, body, raises)
    \/ \E ids \in SUBSET Media : _resolve_attachments(q, ids)
    \/ AttachmentsUnlisted(q)
    \/ \E pushed \in {"nothing", "part", "whole"} : publish(q, pushed)

RpSpec == RpInit /\ [][RpNext]_rpVars

--------------------------------------------------------------------------------
(****************************************************************************)
(* Properties.                                                              *)
(****************************************************************************)

\* Behind the mask nothing reads the raw text, whatever raises on the way, and an
\* answer "ok" means that the first message went through all stages of its platform
\* or that the body had none (handle_message and the try blocks of the routes).
MaskedOnward ==
  \A q \in Requests :
    /\ \A s \in {"dst", "knowledge", "emotion", "response"} : <<s, "raw">> \notin read[q]
    /\ reply[q] = "ok" =>
         log[q] = IF sent[q].messages = 0 THEN <<>> ELSE Stages(sent[q].platform)

\* What was pushed to /ws/user is what the caller is answered: a push that fails
\* leaves the answer as it is, and an error is never preceded by a frame (the push
\* comes last in web_message, in a try of its own).
PushedIsAnswered ==
  \A q \in Requests : pushes[q] # {} => reply[q] = "ok" /\ pushes[q] = {attached[q]}
================================================================================
