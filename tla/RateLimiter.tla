------------------------------ MODULE RateLimiter -------------------------------
(****************************************************************************)
(* The sliding-window limiter of one platform (infra/rate_limit.py), with   *)
(* its two paths: in memory, and the Lua script on a Redis sorted set.      *)
(*                                                                          *)
(* A request reads the clock first; only then does it wait for the lock, or *)
(* for Redis.  Either decision is atomic, but other requests and time come  *)
(* between the reading and the decision.  NoScriptError is left out: the    *)
(* script has not run then, and the retries end in one of the outcomes of   *)
(* the actions on Redis.                                                    *)
(****************************************************************************)
EXTENDS SequencesExt, FiniteSetsExt, Integers

CONSTANTS Threads,     \* concurrent requests
          Keys,        \* sub-buckets (users)
          Limit,       \* LIMITS[platform]
          Window,      \* _WINDOW_SECONDS, in ticks
          MaxBuckets,  \* 10,000
          MaxEvict,    \* 1,000
          MaxScores,   \* bound on a sorted set, which denied requests grow too
          MaxNow       \* bound on the clock

ASSUME BoundsAssumption ==
  /\ Limit \in Nat \ {0} /\ Window \in Nat \ {0}
  /\ MaxBuckets \in Nat /\ MaxEvict \in Nat /\ MaxScores \in Nat /\ MaxNow \in Nat

VARIABLES redis,         \* whether a redis_client was injected
          clock,
          pc, key, now,  \* of each request: its step and its locals
          buckets,       \* _buckets: key -> stamps, for the keys it has
          zset,          \* the sorted set of each key: members by score
          admitted,      \* history: requests admitted, by key and stamp
          excused        \* history: keys that lost entries to an eviction, or
                         \* were let through while Redis was out of reach

rlVars == <<redis, clock, pc, key, now, buckets, zset, admitted, excused>>

Times == 0..MaxNow
WindowStart(t) == now[t] - Window

AnyKey == CHOOSE k \in Keys : TRUE

RlInit ==
  /\ redis \in BOOLEAN
  /\ clock = 0
  /\ pc = [t \in Threads |-> "idle"]
  /\ key = [t \in Threads |-> AnyKey]
  /\ now = [t \in Threads |-> 0]
  /\ buckets = [k \in {} |-> <<>>]
  /\ zset = [k \in Keys |-> [x \in Times |-> 0]]
  /\ admitted = [k \in Keys |-> [x \in Times |-> 0]]
  /\ excused = {}

RlTick ==
  /\ clock < MaxNow
  /\ clock' = clock + 1
  /\ UNCHANGED <<redis, pc, key, now, buckets, zset, admitted, excused>>

\* A request arrives and reads the clock.
allow(t, k) ==
  /\ pc[t] = "idle"
  /\ pc' = [pc EXCEPT ![t] = "decide"]
  /\ key' = [key EXCEPT ![t] = k]
  /\ now' = [now EXCEPT ![t] = clock]
  /\ UNCHANGED <<redis, clock, buckets, zset, admitted, excused>>

\* The answer; a request that is let through is counted, up to Limit + 1, unless
\* its key is excused.
Decided(t, yes) ==
  /\ pc' = [pc EXCEPT ![t] = "idle"]
  /\ key' = [key EXCEPT ![t] = AnyKey]
  /\ now' = [now EXCEPT ![t] = 0]
  /\ admitted' = [k \in Keys |-> [x \in Times |->
       IF k \in excused' THEN 0
       ELSE IF yes /\ k = key[t] /\ x = now[t] /\ admitted[k][x] <= Limit
            THEN admitted[k][x] + 1
            ELSE admitted[k][x]]]
  /\ UNCHANGED <<redis, clock>>

\* The keys that stay when there are too many buckets: empty and stale ones go
\* first, then up to MaxEvict others, picked at random.
Kept(t) ==
  LET all == DOMAIN buckets
      live == {k \in all : buckets[k] # <<>> /\ Last(buckets[k]) >= WindowStart(t)}
      excess == Cardinality(live) - MaxBuckets
      victims == IF excess > MaxEvict THEN MaxEvict ELSE excess
  IN  IF Cardinality(all) <= MaxBuckets THEN {all}
      ELSE IF excess <= 0 THEN {live}
      ELSE {live \ V : V \in kSubset(victims, live)}

\* Wrong on purpose: a stamp at the start of the window leaves it, too.
TrimEarly(stamps, start) ==
  LET keep == {i \in DOMAIN stamps : stamps[i] > start}
  IN  IF keep = {} THEN <<>> ELSE SubSeq(stamps, Min(keep), Len(stamps))

\* Stamps leave from the front while they are older than the window.
Trim(stamps, start) ==
  LET keep == {i \in DOMAIN stamps : stamps[i] >= start}
  IN  IF keep = {} THEN <<>> ELSE SubSeq(stamps, Min(keep), Len(stamps))

\* _in_memory_check, under the lock.
in_memory_check(t) ==
  /\ pc[t] = "decide" /\ ~redis
  /\ \E kept \in Kept(t) :
       LET k == key[t]
           bucket == Trim(IF k \in kept THEN buckets[k] ELSE <<>>, WindowStart(t))
           yes == Len(bucket) < Limit
       IN  /\ buckets' = [j \in kept \union {k} |->
                            IF j # k THEN buckets[j]
                            ELSE IF yes THEN Append(bucket, now[t]) ELSE bucket]
           /\ excused' = excused \union (DOMAIN buckets \ kept)
           /\ Decided(t, yes)
  /\ UNCHANGED zset

\* The script: drop the scores up to the window's start and add a member of its own.
Script(t) ==
  [x \in Times |-> (IF x > WindowStart(t) THEN zset[key[t]][x] ELSE 0)
                   + IF x = now[t] THEN 1 ELSE 0]

ZCard(members) == SumFunctionOnSet(members, Times)

\* _redis_decide when Redis answers.
redis_decide(t) ==
  /\ pc[t] = "decide" /\ redis /\ ZCard(Script(t)) <= MaxScores
  /\ zset' = [zset EXCEPT ![key[t]] = Script(t)]
  /\ UNCHANGED <<buckets, excused>>
  /\ Decided(t, ZCard(Script(t)) <= Limit)

\* Redis is out of reach, before or after it ran the script: fail open.
RedisOutage(t) ==
  /\ pc[t] = "decide" /\ redis
  /\ zset' \in {zset, [zset EXCEPT ![key[t]] = Script(t)]}
  /\ ZCard(zset'[key[t]]) <= MaxScores
  /\ excused' = excused \union {key[t]}
  /\ UNCHANGED buckets
  /\ Decided(t, TRUE)

\* Redis answers with an error, or a last attempt after NoScriptError fails in
\* any way: fail closed.
RedisError(t) ==
  /\ pc[t] = "decide" /\ redis
  /\ zset' \in {zset, [zset EXCEPT ![key[t]] = Script(t)]}
  /\ ZCard(zset'[key[t]]) <= MaxScores
  /\ UNCHANGED <<buckets, excused>>
  /\ Decided(t, FALSE)

RlNext ==
  \/ RlTick
  \/ \E t \in Threads :
       \/ \E k \in Keys : allow(t, k)
       \/ in_memory_check(t)
       \/ redis_decide(t) \/ RedisOutage(t) \/ RedisError(t)

RlSpec == RlInit /\ [][RlNext]_rlVars

--------------------------------------------------------------------------------
(****************************************************************************)
(* Properties.                                                              *)
(****************************************************************************)

\* A request that is decided at the time it was stamped is let through only as
\* one of at most Limit in its window, however late the others were decided,
\* unless an eviction or an outage excuses it.  (In Redis the window is open at
\* its start.)
PromptWithinLimit ==
  [][\A k \in Keys \ excused' :
       admitted'[k][clock] > admitted[k][clock] =>
         LET first == IF redis THEN clock - Window + 1 ELSE clock - Window
         IN  SumFunctionOnSet(admitted'[k], {x \in Times : first <= x}) <= Limit]_rlVars

================================================================================
