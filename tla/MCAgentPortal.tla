----------------------------- MODULE MCAgentPortal -----------------------------
(* AgentPortal on two cases, two handler threads and two agents: enough for   *)
(* two calls to race for one case while another case shifts the list.         *)
EXTENDS AgentPortal

CONSTANTS e1, e2, t1, t2, a1, a2

Symmetry == Permutations({e1, e2}) \union Permutations({t1, t2})
              \union Permutations({a1, a2})
================================================================================
