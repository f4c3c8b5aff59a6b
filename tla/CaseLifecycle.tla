----------------------------- MODULE CaseLifecycle -----------------------------
(****************************************************************************)
(* What the agent workbench promises of every escalated case, whatever the  *)
(* number of requests served at once: it arrives unassigned, at most one    *)
(* agent claims it, and it is closed at most once and for good.  The inbox  *)
(* of AgentPortal is shown to implement this module.                        *)
(****************************************************************************)
CONSTANTS Cases, Owners, NoOwner

VARIABLES stage,   \* where each case stands
          owner    \* the agent who claimed it

cvars == <<stage, owner>>

Stages == {"absent", "Unassigned", "My Chats", "Resolved"}

LifecycleInit ==
  /\ stage = [c \in Cases |-> "absent"]
  /\ owner = [c \in Cases |-> NoOwner]

Arrive(c) ==
  /\ stage[c] = "absent"
  /\ stage' = [stage EXCEPT ![c] = "Unassigned"]
  /\ UNCHANGED owner

ClaimCase(c, a) ==
  /\ stage[c] = "Unassigned"
  /\ stage' = [stage EXCEPT ![c] = "My Chats"]
  /\ owner' = [owner EXCEPT ![c] = a]

ResolveCase(c) ==
  /\ stage[c] \in {"Unassigned", "My Chats"}
  /\ stage' = [stage EXCEPT ![c] = "Resolved"]
  /\ UNCHANGED owner

LifecycleNext ==
  \E c \in Cases :
    \/ Arrive(c)
    \/ \E a \in Owners : ClaimCase(c, a)
    \/ ResolveCase(c)

LifecycleSpec == LifecycleInit /\ [][LifecycleNext]_cvars
================================================================================
