------------------------------- MODULE AgentCards -------------------------------
(****************************************************************************)
(* A2AAdapter (services/aee/a2a_adapter.py) under concurrent calls: the     *)
(* agent-card cache with its two lifetimes, the pinned addresses of the     *)
(* agent's host, and the process-wide patch of socket.getaddrinfo around    *)
(* each request.  list_tools goes through the cache; execute does not, and  *)
(* makes its own request the same way.  The host always has an address.     *)
(****************************************************************************)
EXTENDS Integers

CONSTANTS Clients,      \* threads that share the adapter
          CardTtl,      \* agent_card_ttl_seconds, in ticks
          NegativeTtl,  \* agent_card_negative_ttl_seconds
          PinTtl,       \* _ip_pinning_ttl_seconds
          MaxTime       \* bound on the clock

ASSUME NoFreeClient == "free" \notin Clients

VARIABLES time,
          dns,       \* the addresses the host has
          resolver,  \* getaddrinfo: {} the real one, {x} patched to x
          dnsLock,   \* _DNS_PATCH_LOCK: who holds it, or "free"
          pin,       \* _validated_ips of the host
          card,      \* _card_cache of the agent, and when it was asked for
          at,        \* of each caller: the next step
          op,        \* list_tools or execute
          began,     \* now, read first
          got,       \* current_ips, then the pinned_ips read back
          original   \* the getaddrinfo to put back

acVars == <<time, dns, resolver, dnsLock, pin, card, at, op, began, got, original>>

OldDns == {"a", "b"}
NewDns == {"c"}
NoPin == [ips |-> {}, at |-> 0]
NoCard == [kind |-> "absent", at |-> 0, asked |-> 0]

AcInit ==
  /\ time = 0 /\ dns = OldDns /\ resolver = {} /\ dnsLock = "free"
  /\ pin = NoPin /\ card = NoCard
  /\ at = [c \in Clients |-> "idle"]
  /\ op = [c \in Clients |-> "list"]
  /\ began = [c \in Clients |-> 0]
  /\ got = [c \in Clients |-> {}]
  /\ original = [c \in Clients |-> {}]

Go(c, step) == at' = [at EXCEPT ![c] = step]

AcTick ==
  /\ time < MaxTime
  /\ time' = time + 1
  /\ UNCHANGED <<dns, resolver, dnsLock, pin, card, at, op, began, got, original>>

DnsChanges ==
  /\ dns' = NewDns
  /\ UNCHANGED <<time, resolver, dnsLock, pin, card, at, op, began, got, original>>

list_tools(c) ==
  /\ at[c] = "idle"
  /\ op' = [op EXCEPT ![c] = "list"]
  /\ began' = [began EXCEPT ![c] = time]
  /\ Go(c, "look")
  /\ UNCHANGED <<time, dns, resolver, dnsLock, pin, card, got, original>>

execute(c) ==
  /\ at[c] = "idle"
  /\ op' = [op EXCEPT ![c] = "execute"]
  /\ Go(c, "resolve")
  /\ UNCHANGED <<time, dns, resolver, dnsLock, pin, card, began, got, original>>

Ttl == IF card.kind = "card" THEN CardTtl ELSE NegativeTtl

\* _discover_agent_card: a cached card, or a cached failure, while it is fresh.
Look(c) ==
  /\ at[c] = "look"
  /\ Go(c, IF card.kind # "absent" /\ began[c] - card.at < Ttl
           THEN "cached" ELSE "resolve")
  /\ UNCHANGED <<time, dns, resolver, dnsLock, pin, card, op, began, got, original>>

\* _check_ip_pinning: the host is resolved, by whatever getaddrinfo is now ...
Resolve(c) ==
  /\ at[c] = "resolve"
  /\ got' = [got EXCEPT ![c] = IF resolver = {} THEN dns ELSE resolver]
  /\ Go(c, "compare")
  /\ UNCHANGED <<time, dns, resolver, dnsLock, pin, card, op, began, original>>

\* ... and compared with the pin, or pinned.
Pinned == pin.ips # {} /\ time - pin.at < PinTtl

Compare(c) ==
  /\ at[c] = "compare"
  /\ \/ /\ Pinned
        /\ Go(c, IF got[c] = pin.ips THEN "pin" ELSE "alarm")
        /\ UNCHANGED pin
     \/ /\ ~Pinned
        /\ pin' = [ips |-> got[c], at |-> time]
        /\ Go(c, "pin")
  /\ got' = [got EXCEPT ![c] = {}]
  /\ UNCHANGED <<time, dns, resolver, dnsLock, card, op, began, original>>

\* Wrong on purpose: the resolver to put back is read before the lock is taken.
PatchLate(c) ==
  \/ /\ at[c] = "pin"
     /\ Go(c, IF Pinned THEN "lock" ELSE "request")
     /\ got' = [got EXCEPT ![c] = IF Pinned THEN pin.ips ELSE {}]
     /\ original' = [original EXCEPT ![c] = resolver]
     /\ UNCHANGED <<time, dns, resolver, dnsLock, pin, card, op, began>>
  \/ /\ at[c] = "lock" /\ dnsLock = "free"
     /\ dnsLock' = c
     /\ resolver' = {CHOOSE x \in got[c] : TRUE}
     /\ Go(c, "request")
     /\ UNCHANGED <<time, dns, pin, card, op, began, got, original>>

\* _pinned_dns_lock: without a pin, or with one that has expired, the request is
\* made as it is; otherwise under the lock, with the resolver patched.
Patch(c) ==
  \/ /\ at[c] = "pin"
     /\ Go(c, IF Pinned THEN "lock" ELSE "request")
     /\ got' = [got EXCEPT ![c] = IF Pinned THEN pin.ips ELSE {}]
     /\ UNCHANGED <<time, dns, resolver, dnsLock, pin, card, op, began, original>>
  \/ /\ at[c] = "lock" /\ dnsLock = "free"
     /\ dnsLock' = c
     /\ original' = [original EXCEPT ![c] = resolver]
     /\ resolver' = {CHOOSE x \in got[c] : TRUE}
     /\ Go(c, "request")
     /\ UNCHANGED <<time, dns, pin, card, op, began, got>>

\* The answer arrives, or the request fails; either way the resolver is put back.
Answered(c) ==
  /\ at[c] = "request"
  /\ IF dnsLock = c
     THEN dnsLock' = "free" /\ resolver' = original[c]
     ELSE UNCHANGED <<dnsLock, resolver>>
  /\ Go(c, "done")
  /\ UNCHANGED <<time, dns, pin, op, began, got, original>>

\* Wrong on purpose: stamped with the time of the answer.
StoreLate(c) ==
  /\ Answered(c)
  /\ card' \in {card} \union
       IF op[c] = "execute" THEN {}
       ELSE {[kind |-> k, at |-> time, asked |-> began[c]] : k \in {"card", "failure"}}

\* list_tools keeps the card, or the failure, with the time it began; a broken
\* answer (ValueError) is raised and not kept.  execute keeps nothing.
Store(c) ==
  /\ Answered(c)
  /\ card' \in {card} \union
       IF op[c] = "execute" THEN {}
       ELSE {[kind |-> k, at |-> began[c], asked |-> began[c]] : k \in {"card", "failure"}}

\* list_tools returns or raises, execute returns; the alarm is a ValueError.
Return(c) ==
  /\ at[c] \in {"cached", "done", "alarm"}
  /\ Go(c, "idle")
  /\ op' = [op EXCEPT ![c] = "list"]
  /\ began' = [began EXCEPT ![c] = 0]
  /\ got' = [got EXCEPT ![c] = {}]
  /\ original' = [original EXCEPT ![c] = {}]
  /\ UNCHANGED <<time, dns, resolver, dnsLock, pin, card>>

AcNext ==
  \/ AcTick \/ DnsChanges
  \/ \E c \in Clients :
       \/ list_tools(c) \/ execute(c)
       \/ Look(c) \/ Resolve(c) \/ Compare(c) \/ Patch(c) \/ Store(c) \/ Return(c)

AcSpec == AcInit /\ [][AcNext]_acVars

--------------------------------------------------------------------------------
(****************************************************************************)
(* Properties.                                                              *)
(****************************************************************************)

\* Whoever patches the process's resolver, it is the real one again whenever
\* nobody is inside a request.
ResolverRestored == dnsLock = "free" => resolver = {}

\* A card is served for 300 s and a failure for 5 s after the call that asked for
\* it began, however long the agent took and whichever thread stored it last.
CardFresh ==
  [][\A c \in Clients :
       at[c] = "look" /\ at'[c] = "cached" => began[c] - card.asked < Ttl]_acVars

================================================================================
