------------------------------- MODULE MCService --------------------------------
(* The parts of the service whose steps are whole calls, under one event loop *)
(* or one lock each.  They share no state, so they are checked one at a time: *)
(* the first step settles which part runs, and the others stay in one of      *)
(* their initial states.                                                      *)
EXTENDS DialogueState, RequestPath, Retraction, Retrieval, KnowledgeJobs, M2MTokens,
        KnowledgeAdmin, Tracing, Erasure, Experiments, Judge, AccessControl,
        WsHeartbeat, CircuitBreaker, RateLimiter

\* Splits with a malformed weight first, last and in the middle, and results in
\* which variants tie, lead by little or by enough, or were not measured.
MCSplits == {<<-1, 3, 5>>, <<3, -1, 5>>, <<7, 3, -2>>, <<5, 5>>, <<7, 7>>}
MCResults ==
  [1..3 -> {[count |-> 0, mean |-> 0], [count |-> 1, mean |-> 50],
            [count |-> 1, mean |-> 55], [count |-> 1, mean |-> 57]}]

\* In Redis no key has to do with another, and one is enough.
OneKeyOnRedis == redis => \A t \in Threads : key'[t] = AnyKey

VARIABLE part

serviceVars ==
  <<part, dsVars, rpVars, reVars, rtVars, kjVars, m2Vars, kaVars, trVars, erVars,
    exVars, juVars, auVars, hbVars, cbVars, rlVars>>

ServiceInit ==
  /\ part \in {"dialogue", "request", "retraction", "retrieval", "jobs", "tokens",
               "knowledge admin", "tracing", "erasure", "experiments", "judge", "access",
               "heartbeat", "breaker", "limiter"}
  /\ DsInit /\ RpInit /\ ReInit /\ RtInit /\ KjInit /\ M2Init /\ KaInit /\ TrInit /\ ErInit
  /\ ExInit /\ JuInit /\ AuInit /\ HbInit /\ CbInit /\ RlInit
  /\ part # "jobs" => client = "redis" /\ session = "generator"
  /\ part # "access" => admin_user = ""
  /\ part # "limiter" => ~redis

ServiceNext ==
  \/ /\ part = "dialogue" /\ DsNext
     /\ UNCHANGED <<part, rpVars, reVars, rtVars, kjVars, m2Vars, kaVars, trVars, erVars,
                    exVars, juVars, auVars, hbVars, cbVars, rlVars>>
  \/ /\ part = "request" /\ RpNext
     /\ UNCHANGED <<part, dsVars, reVars, rtVars, kjVars, m2Vars, kaVars, trVars, erVars,
                    exVars, juVars, auVars, hbVars, cbVars, rlVars>>
  \/ /\ part = "retraction" /\ ReNext
     /\ UNCHANGED <<part, dsVars, rpVars, rtVars, kjVars, m2Vars, kaVars, trVars, erVars,
                    exVars, juVars, auVars, hbVars, cbVars, rlVars>>
  \/ /\ part = "retrieval" /\ RtNext
     /\ UNCHANGED <<part, dsVars, rpVars, reVars, kjVars, m2Vars, kaVars, trVars, erVars,
                    exVars, juVars, auVars, hbVars, cbVars, rlVars>>
  \/ /\ part = "jobs" /\ KjNext
     /\ UNCHANGED <<part, dsVars, rpVars, reVars, rtVars, m2Vars, kaVars, trVars, erVars,
                    exVars, juVars, auVars, hbVars, cbVars, rlVars>>
  \/ /\ part = "tokens" /\ M2Next
     /\ UNCHANGED <<part, dsVars, rpVars, reVars, rtVars, kjVars, kaVars, trVars, erVars,
                    exVars, juVars, auVars, hbVars, cbVars, rlVars>>
  \/ /\ part = "knowledge admin" /\ KaNext
     /\ UNCHANGED <<part, dsVars, rpVars, reVars, rtVars, kjVars, m2Vars, trVars, erVars,
                    exVars, juVars, auVars, hbVars, cbVars, rlVars>>
  \/ /\ part = "tracing" /\ TrNext
     /\ UNCHANGED <<part, dsVars, rpVars, reVars, rtVars, kjVars, m2Vars, kaVars, erVars,
                    exVars, juVars, auVars, hbVars, cbVars, rlVars>>
  \/ /\ part = "erasure" /\ ErNext
     /\ UNCHANGED <<part, dsVars, rpVars, reVars, rtVars, kjVars, m2Vars, kaVars, trVars,
                    exVars, juVars, auVars, hbVars, cbVars, rlVars>>
  \/ /\ part = "experiments" /\ ExNext
     /\ UNCHANGED <<part, dsVars, rpVars, reVars, rtVars, kjVars, m2Vars, kaVars, trVars,
                    erVars, juVars, auVars, hbVars, cbVars, rlVars>>
  \/ /\ part = "judge" /\ JuNext
     /\ UNCHANGED <<part, dsVars, rpVars, reVars, rtVars, kjVars, m2Vars, kaVars, trVars,
                    erVars, exVars, auVars, hbVars, cbVars, rlVars>>
  \/ /\ part = "access" /\ AuNext
     /\ UNCHANGED <<part, dsVars, rpVars, reVars, rtVars, kjVars, m2Vars, kaVars, trVars,
                    erVars, exVars, juVars, hbVars, cbVars, rlVars>>
  \/ /\ part = "heartbeat" /\ HbNext
     /\ UNCHANGED <<part, dsVars, rpVars, reVars, rtVars, kjVars, m2Vars, kaVars, trVars,
                    erVars, exVars, juVars, auVars, cbVars, rlVars>>
  \/ /\ part = "breaker" /\ CbNext
     /\ UNCHANGED <<part, dsVars, rpVars, reVars, rtVars, kjVars, m2Vars, kaVars, trVars,
                    erVars, exVars, juVars, auVars, hbVars, rlVars>>
  \/ /\ part = "limiter" /\ RlNext /\ OneKeyOnRedis
     /\ UNCHANGED <<part, dsVars, rpVars, reVars, rtVars, kjVars, m2Vars, kaVars, trVars,
                    erVars, exVars, juVars, auVars, hbVars, cbVars>>

ServiceSpec == ServiceInit /\ [][ServiceNext]_serviceVars
================================================================================
