------------------------------- MODULE MCWorkers -------------------------------
(* The parts of the service that hand work on: to the inbox, to the clients   *)
(* of websockets, to threads, to child processes.  But for the escalation     *)
(* queue and the inbox, which are one part here, they share no state, so they *)
(* are checked one at a time: the first step settles which part runs.         *)
EXTENDS EscalationHandOff, WsDelivery, Paladin, CoroHandOver, MediaUpload, ToolExecutor,
        AgentCards, ChildProcess

CONSTANTS c1, c2, e1, t1, a1, a2, agentCh, userCh

VARIABLE part

workersVars ==
  <<part, handOffVars, wsVars, paVars, coVars, muVars, teVars, acVars, cpVars>>

WorkersInit ==
  /\ part \in {"queue", "sockets", "defence", "hand-over", "media", "tools", "cards", "children"}
  /\ HandOffInit /\ WsInit /\ PaInit /\ CoInit /\ MuInit /\ TeInit /\ AcInit /\ CpInit

WorkersNext ==
  \/ /\ part = "queue" /\ HandOffNext
     /\ UNCHANGED <<part, wsVars, paVars, coVars, muVars, teVars, acVars, cpVars>>
  \/ /\ part = "sockets" /\ WsNext
     /\ UNCHANGED <<part, handOffVars, paVars, coVars, muVars, teVars, acVars, cpVars>>
  \/ /\ part = "defence" /\ PaNext
     /\ UNCHANGED <<part, handOffVars, wsVars, coVars, muVars, teVars, acVars, cpVars>>
  \/ /\ part = "hand-over" /\ CoNext
     /\ UNCHANGED <<part, handOffVars, wsVars, paVars, muVars, teVars, acVars, cpVars>>
  \/ /\ part = "media" /\ MuNext
     /\ UNCHANGED <<part, handOffVars, wsVars, paVars, coVars, teVars, acVars, cpVars>>
  \/ /\ part = "tools" /\ TeNext
     /\ UNCHANGED <<part, handOffVars, wsVars, paVars, coVars, muVars, acVars, cpVars>>
  \/ /\ part = "cards" /\ AcNext
     /\ UNCHANGED <<part, handOffVars, wsVars, paVars, coVars, muVars, teVars, cpVars>>
  \/ /\ part = "children" /\ CpNext
     /\ UNCHANGED <<part, handOffVars, wsVars, paVars, coVars, muVars, teVars, acVars>>

(* The fairness of the parts that promise something in the end.               *)
WorkersSpec ==
  /\ WorkersInit /\ [][WorkersNext]_workersVars
  /\ HandOffFairness /\ WsFairness /\ CoFairness /\ TeFairness
================================================================================
