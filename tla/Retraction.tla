------------------------------ MODULE Retraction ------------------------------
(****************************************************************************)
(* retract (core/response.py): taking back an answer the audit objects to,  *)
(* platform by platform, while the window in which the platform deletes is  *)
(* running out and its API may refuse.                                      *)
(****************************************************************************)
EXTENDS Naturals

CONSTANTS TELEGRAM_RETRACTION_WINDOW, MESSENGER_RETRACTION_WINDOW,
          MaxAge  \* bound on the age of an answer

ASSUME RetractionWindows ==
  {TELEGRAM_RETRACTION_WINDOW, MESSENGER_RETRACTION_WINDOW, MaxAge} \subseteq Nat

VARIABLES platform,  \* where the answer was sent, "" before that
          age,       \* its age in ticks
          visible,   \* the user still sees it as it was
          verdict,   \* the RetractionResult, or what stands for none
          writer,    \* there is a security_log_writer
          logged     \* retraction_failed events written

reVars == <<platform, age, visible, verdict, writer, logged>>

NoResult == [method |-> "none", success |-> FALSE]
Apology == [method |-> "apology", success |-> FALSE]

ReInit ==
  /\ platform = "" /\ age = 0 /\ visible = FALSE
  /\ verdict = NoResult /\ writer = FALSE /\ logged = {}

\* An answer goes out (the callers', as far as this module sees them).
Send(p, w) ==
  /\ platform = ""
  /\ platform' = p /\ visible' = TRUE /\ writer' = w
  /\ UNCHANGED <<age, verdict, logged>>

\* Time passes until somebody takes the answer back.
Age ==
  /\ visible /\ verdict = NoResult /\ age < MaxAge
  /\ age' = age + 1
  /\ UNCHANGED <<platform, visible, verdict, writer, logged>>

\* What a client may come to: it is not there, deletes, answers False, or
\* raises; and one that raises may have done its work (external).
Client == {"none", "done", "refused", "raised", "done and raised"}

DeletionWindow == IF platform = "telegram" THEN TELEGRAM_RETRACTION_WINDOW
          ELSE MESSENGER_RETRACTION_WINDOW

_log_retraction_failed(reason) ==
  logged' = IF writer THEN logged \union {reason} ELSE logged

\* Wrong on purpose: an answer False of the client is taken for a deletion.
Deletes(client) == client \in {"done", "refused"}

Deleted(client) == client = "done"

_attempt_windowed_delete(client) ==
  /\ platform \in {"telegram", "messenger"}
  /\ IF client = "none" \/ age > DeletionWindow
     THEN /\ verdict' = Apology
          /\ _log_retraction_failed(IF client = "none" THEN "no_client" ELSE "window_expired")
          /\ UNCHANGED visible
     ELSE /\ visible' = (client \notin {"done", "done and raised"})
          /\ IF Deleted(client)
             THEN /\ verdict' = [method |-> "delete", success |-> TRUE]
                  /\ UNCHANGED logged
             ELSE verdict' = Apology /\ _log_retraction_failed("api_error")

\* LINE and WhatsApp have nothing to delete with: no failure is logged.
_retract_line ==
  /\ platform = "line"
  /\ verdict' = Apology
  /\ UNCHANGED <<visible, logged>>

_retract_whatsapp ==
  /\ platform = "whatsapp"
  /\ verdict' = [method |-> "correction", success |-> FALSE]
  /\ UNCHANGED <<visible, logged>>

\* The pusher and the agent client only fail by raising; one that is not there
\* raises, too (None has no method).
_retract_web(client) ==
  /\ platform = "web"
  /\ visible' = (client \notin {"done", "refused", "done and raised"})
  /\ IF client \in {"done", "refused"}
     THEN verdict' = [method |-> "ws_replace", success |-> TRUE] /\ UNCHANGED logged
     ELSE verdict' = Apology /\ _log_retraction_failed("api_error")

_retract_a2a(client) ==
  /\ platform = "a2a"
  /\ visible' = (client \notin {"done", "refused", "done and raised"})
  /\ IF client \in {"done", "refused"}
     THEN verdict' = [method |-> "revoked", success |-> TRUE] /\ UNCHANGED logged
     ELSE verdict' = Apology /\ _log_retraction_failed("api_error")

\* A platform nobody wired raises ValueError, and is logged first.
UnknownPlatform ==
  /\ platform = "sms"
  /\ verdict' = [method |-> "ValueError", success |-> FALSE]
  /\ _log_retraction_failed("unknown_platform")
  /\ UNCHANGED visible

\* Nothing is retried: a second call would find the same answer taken back.
retract(client) ==
  /\ platform # "" /\ verdict = NoResult
  /\ \/ _attempt_windowed_delete(client)
     \/ _retract_line
     \/ _retract_whatsapp
     \/ _retract_web(client)
     \/ _retract_a2a(client)
     \/ UnknownPlatform
  /\ UNCHANGED <<platform, age, writer>>

ReNext ==
  \/ \E p \in {"telegram", "messenger", "line", "whatsapp", "web", "a2a", "sms"}, w \in BOOLEAN : Send(p, w)
  \/ Age
  \/ \E client \in Client : retract(client)

ReSpec == ReInit /\ [][ReNext]_reVars

--------------------------------------------------------------------------------
(****************************************************************************)
(* Properties.                                                              *)
(****************************************************************************)

\* Fail-secure (FR-17): whatever the clients do and however old the answer is,
\* a retraction that calls itself a success has left nothing to see, any other
\* that returns asks for an apology or a correction, and a failure that is not
\* the platform's rule is logged where there is a log.
FailSecure ==
  verdict # NoResult =>
    /\ verdict.success => ~visible
    /\ ~verdict.success => verdict.method \in {"apology", "correction", "ValueError"}
    /\ verdict.success => logged = {}
    /\ verdict.method = "apology" /\ platform # "line" /\ writer => logged # {}
    /\ verdict.method = "delete" => age <= DeletionWindow
================================================================================
