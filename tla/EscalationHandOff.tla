--------------------------- MODULE EscalationHandOff ---------------------------
(****************************************************************************)
(* The escalation queue and its hand-off to the inbox.  EscalationManager   *)
(* (services/escalation.py) keeps the rows of the queue, runs on the event  *)
(* loop and pushes every new case; _AgentPusher (api/ws_router.py) turns    *)
(* the push into a task, and the task files the case in the inbox that the  *)
(* handler threads of AgentPortal work on.  A create on a thread without a  *)
(* running loop pushes nothing.                                             *)
(*                                                                          *)
(* Time passes in ticks of five minutes.  Left out: the ValueError of an    *)
(* unknown priority (no state changes); WsDelivery has the fan-out to the   *)
(* connected workbenches.                                                   *)
(****************************************************************************)
EXTENDS AgentPortal, Integers

CONSTANTS Priorities,  \* the priorities cases are created with
          MaxNow       \* bound on the clock

ASSUME PrioritiesAssumption == Priorities \subseteq {0, 1, 2}
ASSUME MaxNowAssumption == MaxNow \in Nat

VARIABLES rows,    \* EscalationManager.rows
          pushes,  \* _publish tasks that have not run yet
          now      \* the clock

queueVars == <<rows, pushes, now>>
handOffVars == <<portalVars, queueVars>>

NoTime == -1
NoRow == [assigned_agent |-> NoAgent, resolved_at |-> NoTime,
          sla_deadline |-> NoTime, priority |-> 0]

\* Minutes until breach, in ticks: normal 30, high 15, urgent 5.
SLA_BY_PRIORITY == [p \in {0, 1, 2} |-> CASE p = 0 -> 6 [] p = 1 -> 3 [] p = 2 -> 1]

\* _make_row
MakeRow(p) == [assigned_agent |-> NoAgent, resolved_at |-> NoTime,
               sla_deadline |-> now + SLA_BY_PRIORITY[p], priority |-> p]

\* Wrong on purpose: the upsert does not look whether the row is there.
EnsureFreshRow(e) == MakeRow(0)

HasRow(e) == rows[e] # NoRow

\* _ensure_row: the row, or a stub of normal priority where there is none.
EnsureRow(e) == IF HasRow(e) THEN rows[e] ELSE MakeRow(0)

\* _is_breached
Breached(e) ==
  HasRow(e) /\ rows[e].resolved_at = NoTime /\ rows[e].sla_deadline < now

HandOffInit ==
  /\ PortalInit
  /\ rows = [e \in Escalations |-> NoRow]
  /\ pushes = {}
  /\ now = 0

\* create: the row first, then the push, which only a running loop carries out.
create(e, p, onLoop) ==
  /\ ~HasRow(e)
  /\ rows' = [rows EXCEPT ![e] = MakeRow(p)]
  /\ pushes' = IF onLoop THEN pushes \union {e} ELSE pushes
  /\ UNCHANGED <<portalVars, now>>

\* Wrong on purpose: the event is handled and the inbox not told.
PublishToSocketsOnly(e) ==
  /\ e \in pushes
  /\ pushes' = pushes \ {e}
  /\ UNCHANGED <<portalVars, rows, now>>

\* The _publish task of a push runs.
publish(e) ==
  /\ e \in pushes
  /\ pushes' = pushes \ {e}
  /\ on_escalation_new(e)
  /\ UNCHANGED <<rows, now>>

\* assign: refused (ValueError) while another agent has the case.  picked_at is
\* stamped too; nothing reads it.
assign(e, a) ==
  /\ EnsureRow(e).assigned_agent \in {NoAgent, a}
  /\ rows' = [rows EXCEPT ![e] = [EnsureRow(e) EXCEPT !.assigned_agent = a]]
  /\ UNCHANGED <<portalVars, pushes, now>>

\* resolve: stamps the time of the call, whether or not the case was resolved.
resolve(e) ==
  /\ rows' = [rows EXCEPT ![e] = [EnsureRow(e) EXCEPT !.resolved_at = now]]
  /\ UNCHANGED <<portalVars, pushes, now>>

Tick ==
  /\ now < MaxNow
  /\ now' = now + 1
  /\ UNCHANGED <<portalVars, rows, pushes>>

PortalThread ==
  /\ \E t \in Threads : Request(t) \/ Handler(t)
  /\ UNCHANGED queueVars

HandOffNext ==
  \/ \E e \in Escalations :
       \/ \E p \in Priorities, onLoop \in BOOLEAN : create(e, p, onLoop)
       \/ publish(e)
       \/ \E a \in Agents : assign(e, a)
       \/ resolve(e)
  \/ PortalThread
  \/ Tick

\* The loop runs every task it has scheduled; the pool runs every handler.
HandOffFairness ==
  /\ \A e \in Escalations : WF_handOffVars(publish(e))
  /\ \A t \in Threads : WF_handOffVars(Handler(t) /\ UNCHANGED queueVars)

HandOffSpec == HandOffInit /\ [][HandOffNext]_handOffVars /\ HandOffFairness

--------------------------------------------------------------------------------
(****************************************************************************)
(* Properties.                                                              *)
(****************************************************************************)

\* A breach is reported until the case is resolved in the queue: neither a late
\* assign nor the upsert of _ensure_row can push the deadline out.
BreachStands ==
  [][\A e \in Escalations :
       Breached(e) => Breached(e)' \/ rows'[e].resolved_at # NoTime]_handOffVars

\* A case created on the event loop reaches the inbox, however busy the threads.
PushedIsFiled ==
  \A e \in Escalations : e \in pushes ~> Known(e)

================================================================================
