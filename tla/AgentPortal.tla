------------------------------ MODULE AgentPortal ------------------------------
(****************************************************************************)
(* The agent inbox: AgentPortal (admin/portal.py) and the claim and resolve *)
(* routes that work on it (api/portal_router.py).                           *)
(*                                                                          *)
(* The routes are plain `def` handlers, so the server runs each call on a   *)
(* thread of its pool, and they move a case between the three section lists *)
(* with no lock: look for it, take it out, stamp it, append it.  Each of    *)
(* those list operations is atomic under the interpreter lock; a call may   *)
(* be preempted between any two.  `on_escalation_new` runs on the event     *)
(* loop, concurrently with the threads.                                     *)
(*                                                                          *)
(* Left out: the 403 of a role without escalate:write (no state changes),   *)
(* the payload fields nobody tests (priority, reason, preview).             *)
(****************************************************************************)
EXTENDS SequencesExt

CONSTANTS Escalations,  \* escalation ids, fresh for every case
          Threads,      \* worker threads of the pool
          Agents,       \* values of agent_id in a claim
          NoAgent       \* a payload without assigned_agent

ASSUME NoAgentAssumption == NoAgent \notin Agents

VARIABLES inbox,  \* _inbox: section -> list of cases
          item,   \* the payload dict of each case
          pc,     \* what each thread does next
          call,   \* the locals of the handler each thread runs
          reply   \* how the last call of each thread was answered

portalVars == <<inbox, item, pc, call, reply>>

Sections == {"Unassigned", "My Chats", "Resolved"}

Items == [assigned_agent : Agents \union {NoAgent}, resolved_at : BOOLEAN]

\* op and esc and by: the request; at and idx: the section being read and the
\* position of the list iterator; wasOpen: whether the case stood in an open
\* section when the call began (read by properties only).
Calls == [op : {"claim", "resolve"}, esc : Escalations,
          by : Agents \union {NoAgent},
          at : {"Unassigned", "My Chats"}, idx : Nat \ {0},
          wasOpen : BOOLEAN]

In(e, s) == \E i \in DOMAIN inbox[s] : inbox[s][i] = e

Holds(t, e) == pc[t] = "file" /\ call[t].esc = e

Open(e) == In(e, "Unassigned") \/ In(e, "My Chats")

Known(e) == (\E s \in Sections : In(e, s)) \/ (\E t \in Threads : Holds(t, e))

NewCall(op, e, a) ==
  [op |-> op, esc |-> e, by |-> a, at |-> "Unassigned", idx |-> 1,
   wasOpen |-> Open(e)]

PortalInit ==
  /\ inbox = [s \in Sections |-> <<>>]
  /\ item = [e \in Escalations |->
               [assigned_agent |-> NoAgent, resolved_at |-> FALSE]]
  /\ pc = [t \in Threads |-> "idle"]
  /\ \E e \in Escalations :   \* no call yet: any value will do
       call = [t \in Threads |-> NewCall("claim", e, NoAgent)]
  /\ reply = [t \in Threads |-> "none"]

--------------------------------------------------------------------------------
\* The event loop files a new case.  Escalation ids are fresh and every create
\* pushes its event once, so a case arrives once.
on_escalation_new(e) ==
  /\ ~Known(e)
  /\ inbox' = [inbox EXCEPT !["Unassigned"] = Append(@, e)]
  /\ UNCHANGED <<item, pc, call, reply>>

\* A request reaches a free thread of the pool.
Begin(t, op, e, a, firstStep) ==
  /\ pc[t] = "idle"
  /\ pc' = [pc EXCEPT ![t] = firstStep]
  /\ call' = [call EXCEPT ![t] = NewCall(op, e, a)]
  /\ reply' = [reply EXCEPT ![t] = "none"]
  /\ UNCHANGED <<inbox, item>>

BeginClaim(t, e, a) == Begin(t, "claim", e, a, "find")

BeginResolve(t, e) == Begin(t, "resolve", e, NoAgent, "scan")

Finish(t, answer) ==
  /\ pc' = [pc EXCEPT ![t] = "idle"]
  /\ reply' = [reply EXCEPT ![t] = answer]

\* _claim looks for the case in a copy of the section (get_inbox).
FindUnassigned(t) ==
  /\ pc[t] = "find"
  /\ \/ /\ In(call[t].esc, "Unassigned")
        /\ pc' = [pc EXCEPT ![t] = "take"]
        /\ UNCHANGED reply
     \/ /\ ~In(call[t].esc, "Unassigned")
        /\ Finish(t, "404")
  /\ UNCHANGED <<inbox, item, call>>

\* Wrong on purpose: the iterator does not advance past another case.
ScanHereStuck(t) ==
  /\ pc[t] = "scan"
  /\ call[t].idx <= Len(inbox[call[t].at])
  /\ pc' = [pc EXCEPT ![t] = IF inbox[call[t].at][call[t].idx] = call[t].esc
                              THEN "take" ELSE "scan"]
  /\ UNCHANGED <<inbox, item, call, reply>>

\* _resolve iterates over the live list, one position per step.
ScanHere(t) ==
  LET list == inbox[call[t].at]  i == call[t].idx
  IN  /\ pc[t] = "scan"
      /\ i <= Len(list)
      /\ \/ /\ list[i] = call[t].esc
            /\ pc' = [pc EXCEPT ![t] = "take"]
            /\ UNCHANGED call
         \/ /\ list[i] # call[t].esc
            /\ call' = [call EXCEPT ![t].idx = i + 1]
            /\ UNCHANGED pc
      /\ UNCHANGED <<inbox, item, reply>>

\* The iterator ran past the end: on to My Chats, and after that 404.
ScanEnd(t) ==
  /\ pc[t] = "scan"
  /\ call[t].idx > Len(inbox[call[t].at])
  /\ \/ /\ call[t].at = "Unassigned"
        /\ call' = [call EXCEPT ![t].at = "My Chats", ![t].idx = 1]
        /\ UNCHANGED <<pc, reply>>
     \/ /\ call[t].at = "My Chats"
        /\ Finish(t, "404")
        /\ UNCHANGED call
  /\ UNCHANGED <<inbox, item>>

\* Wrong on purpose: a removal that does not mind that the case is gone.
TakeAnyway(t) ==
  /\ pc[t] = "take"
  /\ inbox' = [inbox EXCEPT ![call[t].at] = Remove(@, call[t].esc)]
  /\ pc' = [pc EXCEPT ![t] = "file"]
  /\ UNCHANGED <<item, call, reply>>

\* list.remove: the case leaves the section it was found in, or, when another
\* call took it out in the meantime, ValueError ends the request as a 500.
Take(t) ==
  /\ pc[t] = "take"
  /\ \E i \in DOMAIN inbox[call[t].at] :
       /\ inbox[call[t].at][i] = call[t].esc
       /\ inbox' = [inbox EXCEPT ![call[t].at] = RemoveAt(@, i)]
  /\ pc' = [pc EXCEPT ![t] = "file"]
  /\ UNCHANGED <<item, call, reply>>

TakeFails(t) ==
  /\ pc[t] = "take"
  /\ ~In(call[t].esc, call[t].at)
  /\ Finish(t, "500")
  /\ UNCHANGED <<inbox, item, call>>

\* The case is in no list, so stamping it and appending it look like one step.
FileClaimed(t) ==
  /\ pc[t] = "file" /\ call[t].op = "claim"
  /\ item' = [item EXCEPT ![call[t].esc].assigned_agent = call[t].by]
  /\ inbox' = [inbox EXCEPT !["My Chats"] = Append(@, call[t].esc)]
  /\ Finish(t, "200")
  /\ UNCHANGED call

\* Wrong on purpose: the resolved case goes back to the section it came from.
FileResolvedBack(t) ==
  /\ pc[t] = "file" /\ call[t].op = "resolve"
  /\ item' = [item EXCEPT ![call[t].esc].resolved_at = TRUE]
  /\ inbox' = [inbox EXCEPT ![call[t].at] = Append(@, call[t].esc)]
  /\ Finish(t, "200")
  /\ UNCHANGED call

FileResolved(t) ==
  /\ pc[t] = "file" /\ call[t].op = "resolve"
  /\ item' = [item EXCEPT ![call[t].esc].resolved_at = TRUE]
  /\ inbox' = [inbox EXCEPT !["Resolved"] = Append(@, call[t].esc)]
  /\ Finish(t, "200")
  /\ UNCHANGED call

Handler(t) ==
  \/ FindUnassigned(t)
  \/ ScanHere(t)
  \/ ScanEnd(t)
  \/ Take(t)
  \/ TakeFails(t)
  \/ FileClaimed(t)
  \/ FileResolved(t)

Request(t) ==
  \E e \in Escalations :
    \/ BeginResolve(t, e)
    \/ \E a \in Agents : BeginClaim(t, e, a)

PortalNext ==
  \/ \E e \in Escalations : on_escalation_new(e)
  \/ \E t \in Threads : Request(t) \/ Handler(t)

PortalSpec == PortalInit /\ [][PortalNext]_portalVars

\* The operating system runs every thread that has work; nothing obliges
\* clients to send requests or cases to arrive.
FairPortalSpec == PortalSpec /\ \A t \in Threads : WF_portalVars(Handler(t))

--------------------------------------------------------------------------------
(****************************************************************************)
(* Properties.                                                              *)
(****************************************************************************)

\* The shape of the inbox, the payloads and the handlers' locals.
TypeOK ==
  /\ inbox \in [Sections -> Seq(Escalations)]
  /\ item \in [Escalations -> Items]
  /\ pc \in [Threads -> {"idle", "find", "scan", "take", "file"}]
  /\ call \in [Threads -> Calls]
  /\ reply \in [Threads -> {"none", "200", "404", "500"}]

\* A case is never in two places at once: not twice in a list, not in two
\* lists, not in a list while a handler is moving it, not in two handlers'
\* hands, however claim and resolve calls interleave without a lock.
AtOnePlace ==
  \A e \in Escalations :
    /\ \A s, r \in Sections : \A i \in DOMAIN inbox[s], j \in DOMAIN inbox[r] :
         inbox[s][i] = e /\ inbox[r][j] = e => s = r /\ i = j
    /\ \A t \in Threads : Holds(t, e) =>
         /\ \A s \in Sections : ~In(e, s)
         /\ \A u \in Threads : Holds(u, e) => u = t

\* A case that has arrived is never lost: it stays in some section or in the
\* hands of a handler that is about to file it.
NeverLost == [][\A e \in Escalations : Known(e) => Known(e)']_portalVars

\* Whatever claims race, the first one filed keeps the case: assigned_agent is
\* written once, so no other agent is told "claimed" for the same case.
FirstClaimWins ==
  [][\A e \in Escalations :
       item[e].assigned_agent # NoAgent =>
         item'[e].assigned_agent = item[e].assigned_agent]_portalVars

\* A 200 is true and a 500 harmless: the agent told "claimed" owns the case and
\* it is not offered again, a resolved case is in Resolved, and a call that lost
\* the race (ValueError) lost it to a call that did move the case.
AnswersAreTrue ==
  \A t \in Threads :
    LET c == call[t]
    IN  /\ reply[t] = "200" /\ c.op = "claim" =>
             item[c.esc].assigned_agent = c.by /\ ~In(c.esc, "Unassigned")
        /\ reply[t] = "200" /\ c.op = "resolve" => In(c.esc, "Resolved")
        /\ reply[t] = "500" => Known(c.esc) /\ ~In(c.esc, c.at)

\* The inbox implements the life cycle of a case.  A case in a handler's hands
\* still stands where it was taken from.
StageOf(e) ==
  IF \E s \in Sections : In(e, s)
  THEN CHOOSE s \in Sections : In(e, s)
  ELSE IF \E t \in Threads : Holds(t, e)
       THEN call[CHOOSE t \in Threads : Holds(t, e)].at
       ELSE "absent"

Lifecycle == INSTANCE CaseLifecycle
  WITH Cases <- Escalations, Owners <- Agents, NoOwner <- NoAgent,
       stage <- [e \in Escalations |-> StageOf(e)],
       owner <- [e \in Escalations |-> item[e].assigned_agent]

\* Claim and resolve look atomic to whoever watches the cases (CaseLifecycle),
\* although each is four list operations of a preemptible handler.
ImplementsLifecycle == Lifecycle!LifecycleSpec

\* Every request is answered: the scan of a list that grows and shrinks under
\* the iterator still ends.
CallsReturn ==
  \A t \in Threads : pc[t] # "idle" ~> pc[t] = "idle"

\* The route answers "escalation not found" (portal_router.py:80).  A resolve
\* that says so about a case that was open when the call began, and that nobody
\* has resolved or is resolving, contradicts it: the case was in the inbox all
\* along, behind the iterator or in the hands of a claim.
NotFoundMeansNotOpen ==
  \A t \in Threads :
    reply[t] = "404" /\ call[t].op = "resolve" /\ call[t].wasOpen =>
      \/ In(call[t].esc, "Resolved")
      \/ \E u \in Threads : Holds(u, call[t].esc) /\ call[u].op = "resolve"
================================================================================
