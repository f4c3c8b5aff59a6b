----------------------------- MODULE StreamConsumer -----------------------------
(****************************************************************************)
(* The consumers of the message stream: AsyncMessageProcessor.consume_loop  *)
(* (infra/redis_streams.py) and what it uses of a Redis consumer group.     *)
(*                                                                          *)
(* Several tasks, of one or several processor instances (processes), read   *)
(* one group.  Every Redis call is an await: between any two of them other  *)
(* tasks run, entries grow stale, and the task may die.  XPENDING lists the *)
(* entries of every consumer and XACK asks for no owner, so the owner of a  *)
(* pending entry is left out; so are the fields of a message, which         *)
(* parse_message filters.  Nothing in the code trims the stream.            *)
(*                                                                          *)
(* claim_pending takes the answer of XCLAIM for ids, but does not ask for   *)
(* JUSTID.  The clients of the tests answer with ids all the same; redis-py *)
(* answers with pairs of an id and its fields, which a set cannot hold.     *)
(****************************************************************************)
EXTENDS Sequences, FiniteSetsExt, Integers

CONSTANTS Tasks,        \* tasks that run consume_loop
          Instances,    \* AsyncMessageProcessor objects, one in each process
          Deployments,  \* which instance each task may run on
          Clients,      \* values of justid
          MaxMsgs,      \* bound on the entries of the stream
          Poison,       \* messages whose handler never succeeds
          BatchSize,    \* _PEL_BATCH_SIZE (100)
          MaxInFlight,  \* _MAX_IN_FLIGHT (10,000)
          MaxFaults     \* bound on the deaths of tasks

ASSUME DeploymentsAssumption == Deployments \subseteq [Tasks -> Instances]
ASSUME ClientsAssumption == Clients \subseteq BOOLEAN
ASSUME PoisonAssumption == Poison \subseteq 1..MaxMsgs
ASSUME BoundsAssumption ==
  /\ MaxMsgs \in Nat /\ MaxFaults \in Nat /\ MaxInFlight \in Nat
  /\ BatchSize \in Nat \ {0}

VARIABLES instance,   \* the instance of each task, which never changes
          justid,     \* whether the client answers XCLAIM with ids; it never changes
          added,      \* entries 1..added are in the stream
          delivered,  \* last-delivered id of the group
          pel,        \* pending entries: their idle time has reached idle_ms or not
          pc,         \* what each task does next
          cursor,     \* claim_pending: first id of the next page, 0 after the last
          page,       \* claim_pending: stale entries of the page not yet claimed, by id
          batch,      \* messages of the for loop, the current one first
          source,     \* which of the two for loops
          inFlight,   \* _in_flight of each instance
          handled,    \* history: handlers that returned (two stands for more)
          late,       \* history: entries that were ever stale
          faults      \* history: deaths so far

streamVars == <<instance, justid, added, delivered, pel, pc, cursor, page, batch,
                source, inFlight, handled, late, faults>>

Msgs == 1..MaxMsgs
Pending == {m \in Msgs : pel[m] # "none"}
Current(c) == Head(batch[c])
Busy(c) == pc[c] \in {"run", "ack"}

\* ensure_group: the group starts at "0", before whatever the stream holds.
StreamInit ==
  /\ instance \in Deployments
  /\ justid \in Clients
  /\ added \in 0..MaxMsgs
  /\ delivered = 0
  /\ pel = [m \in Msgs |-> "none"]
  /\ pc = [c \in Tasks |-> "summary"]
  /\ cursor = [c \in Tasks |-> 0]
  /\ page = [c \in Tasks |-> {}]
  /\ batch = [c \in Tasks |-> <<>>]
  /\ source = [c \in Tasks |-> "pending"]
  /\ inFlight = [i \in Instances |-> {}]
  /\ handled = [m \in Msgs |-> 0]
  /\ late = {}
  /\ faults = 0

groupVars == <<instance, justid, added, delivered, pel, late>>
loopVars == <<pc, cursor, page, batch, source, inFlight, handled, faults>>

Goto(c, label) == pc' = [pc EXCEPT ![c] = label]

--------------------------------------------------------------------------------
\* A producer adds an entry.
XAdd ==
  /\ added < MaxMsgs
  /\ added' = added + 1
  /\ UNCHANGED <<instance, justid, delivered, pel, late, loopVars>>

\* An entry has been pending for idle_ms since it was last delivered or claimed.
GrowStale(m) ==
  /\ pel[m] = "fresh"
  /\ pel' = [pel EXCEPT ![m] = "stale"]
  /\ late' = late \union {m}
  /\ UNCHANGED <<instance, justid, added, delivered, loopVars>>

\* claim_pending: the XPENDING summary.
XPending(c) ==
  /\ pc[c] = "summary"
  /\ source' = [source EXCEPT ![c] = "pending"]
  /\ \/ Pending = {} /\ Goto(c, "handle") /\ UNCHANGED cursor
     \/ Pending # {} /\ Goto(c, "page") /\ cursor' = [cursor EXCEPT ![c] = 1]
  /\ UNCHANGED <<groupVars, page, batch, inFlight, handled, faults>>

\* What XPENDING returns from an id on: the first pending entries, BatchSize at most.
Detailed(first) ==
  LET from == {m \in Pending : m >= first}
  IN  {m \in from : Cardinality({n \in from : n < m}) < BatchSize}

\* Wrong on purpose: only the first page is looked at.
XPendingFirstPage(c) ==
  /\ pc[c] = "page"
  /\ page' = [page EXCEPT ![c] = {m \in Detailed(cursor[c]) : pel[m] = "stale"}]
  /\ cursor' = [cursor EXCEPT ![c] = 0]
  /\ Goto(c, "claim")
  /\ UNCHANGED <<groupVars, batch, source, inFlight, handled, faults>>

\* One page of XPENDING; the entries that are not stale are passed over.
XPendingRange(c) ==
  /\ pc[c] = "page"
  /\ page' = [page EXCEPT ![c] = {m \in Detailed(cursor[c]) : pel[m] = "stale"}]
  /\ cursor' = [cursor EXCEPT ![c] =
                  IF Cardinality(Detailed(@)) < BatchSize THEN 0 ELSE Max(Detailed(@)) + 1]
  /\ Goto(c, "claim")
  /\ UNCHANGED <<groupVars, batch, source, inFlight, handled, faults>>

\* XCLAIM of the next stale entry.  An entry that was acknowledged or claimed
\* since the page was read is not returned.
XClaim(c) ==
  /\ pc[c] = "claim"
  /\ \E m \in page[c] :
       /\ \A n \in page[c] : m <= n
       /\ \/ /\ pel[m] = "stale"
             /\ pel' = [pel EXCEPT ![m] = "fresh"]
             /\ batch' = [batch EXCEPT ![c] = Append(@, m)]
          \/ /\ pel[m] # "stale"
             /\ UNCHANGED <<pel, batch>>
       /\ page' = [page EXCEPT ![c] = @ \ {m}]
  /\ UNCHANGED <<instance, justid, added, delivered, late, pc, cursor, source, inFlight,
                 handled, faults>>

EndPage(c) ==
  /\ pc[c] = "claim" /\ page[c] = {}
  /\ Goto(c, IF cursor[c] = 0 THEN "handle" ELSE "page")
  /\ UNCHANGED <<groupVars, cursor, page, batch, source, inFlight, handled, faults>>

\* Wrong on purpose: XREADGROUP from "0", which hands out pending entries again.
XReadPendingToo(c) ==
  /\ pc[c] = "read"
  /\ \E m \in {n \in Pending \union {delivered + 1} : n <= added} :
       /\ delivered' = IF m > delivered THEN m ELSE delivered
       /\ pel' = [pel EXCEPT ![m] = "fresh"]
       /\ batch' = [batch EXCEPT ![c] = <<m>>]
  /\ source' = [source EXCEPT ![c] = "stream"]
  /\ Goto(c, "handle")
  /\ UNCHANGED <<instance, justid, added, late, cursor, page, inFlight, handled, faults>>

\* read: XREADGROUP of one new entry, or nothing when the block time expires.
XReadGroup(c) ==
  /\ pc[c] = "read"
  /\ \/ /\ delivered < added
        /\ delivered' = delivered + 1
        /\ pel' = [pel EXCEPT ![delivered + 1] = "fresh"]
        /\ batch' = [batch EXCEPT ![c] = <<delivered + 1>>]
     \/ /\ delivered = added
        /\ UNCHANGED <<delivered, pel, batch>>
  /\ source' = [source EXCEPT ![c] = "stream"]
  /\ Goto(c, "handle")
  /\ UNCHANGED <<instance, justid, added, late, cursor, page, inFlight, handled, faults>>

\* Of a claimed message the loop may have a pair in place of an id.
Unhashable(c) == source[c] = "pending" /\ ~justid

\* The next message, unless a task of the same instance is at it.
Start(c) ==
  /\ pc[c] = "handle" /\ batch[c] # <<>> /\ ~Unhashable(c)
  /\ \/ /\ Current(c) \in inFlight[instance[c]]
        /\ batch' = [batch EXCEPT ![c] = Tail(@)]
        /\ UNCHANGED <<pc, inFlight>>
     \/ /\ Current(c) \notin inFlight[instance[c]]
        /\ inFlight' = [inFlight EXCEPT ![instance[c]] = @ \union {Current(c)}]
        /\ Goto(c, "run")
        /\ UNCHANGED batch
  /\ UNCHANGED <<groupVars, cursor, page, source, handled, faults>>

\* Looking a pair up in _in_flight raises, outside of any handler: the loop is
\* over.  The entries it claimed stay pending, for another idle_ms at least.
StartRaises(c) ==
  /\ pc[c] = "handle" /\ batch[c] # <<>> /\ Unhashable(c)
  /\ Goto(c, "dead")
  /\ batch' = [batch EXCEPT ![c] = <<>>]
  /\ UNCHANGED <<groupVars, cursor, page, source, inFlight, handled, faults>>

\* The finally clause, and on to the next message.
Release(c) ==
  /\ inFlight' = [inFlight EXCEPT ![instance[c]] = @ \ {Current(c)}]
  /\ batch' = [batch EXCEPT ![c] = Tail(@)]
  /\ Goto(c, "handle")
  /\ UNCHANGED <<cursor, page, source, faults>>

HandlerReturns(c, m) ==
  /\ pc[c] = "run" /\ Current(c) = m /\ m \notin Poison
  /\ handled' = [handled EXCEPT ![m] = IF @ < 2 THEN @ + 1 ELSE @]
  /\ Goto(c, "ack")
  /\ UNCHANGED <<groupVars, cursor, page, batch, source, inFlight, faults>>

\* Wrong on purpose: a message whose handler failed is acknowledged too.
RaiseAndAck(c) ==
  /\ pc[c] = "run"
  /\ pel' = [pel EXCEPT ![Current(c)] = "none"]
  /\ Release(c)
  /\ UNCHANGED <<instance, justid, added, delivered, late, handled>>

\* Logged; the message stays pending.
HandlerRaises(c) ==
  /\ pc[c] = "run"
  /\ Release(c)
  /\ UNCHANGED <<groupVars, handled>>

\* XACK; an error is suppressed.
Ack(c) ==
  /\ pc[c] = "ack"
  /\ pel' \in {pel, [pel EXCEPT ![Current(c)] = "none"]}
  /\ Release(c)
  /\ UNCHANGED <<instance, justid, added, delivered, late, handled>>

\* The end of a for loop: after that of the claimed messages the stream is read,
\* after that of the read ones _in_flight is cut to its bound.
EndBatch(c) ==
  /\ pc[c] = "handle" /\ batch[c] = <<>>
  /\ \/ source[c] = "pending" /\ Goto(c, "read") /\ UNCHANGED inFlight
     \/ /\ source[c] = "stream" /\ Goto(c, "summary")
        /\ LET i == instance[c]
               excess == Cardinality(inFlight[i]) - MaxInFlight
           IN  \E S \in kSubset(IF excess > 0 THEN excess ELSE 0, inFlight[i]) :
                 inFlight' = [inFlight EXCEPT ![i] = @ \ S]
  /\ UNCHANGED <<groupVars, cursor, page, batch, source, handled, faults>>

\* A Redis call fails or the task is cancelled: no handler catches it, the loop
\* is over, and the finally clause runs when a message was in flight.
Dies(c) ==
  /\ pc[c] # "dead" /\ faults < MaxFaults
  /\ faults' = faults + 1
  /\ Goto(c, "dead")
  /\ inFlight' = IF Busy(c)
                 THEN [inFlight EXCEPT ![instance[c]] = @ \ {Current(c)}]
                 ELSE inFlight
  /\ batch' = [batch EXCEPT ![c] = <<>>]
  /\ page' = [page EXCEPT ![c] = {}]
  /\ UNCHANGED <<groupVars, cursor, source, handled>>

\* The process of an instance dies: all its tasks, and its _in_flight.
Crash(i) ==
  /\ faults < MaxFaults
  /\ \E c \in Tasks : instance[c] = i /\ pc[c] # "dead"
  /\ faults' = faults + 1
  /\ LET of(f, x) == [c \in Tasks |-> IF instance[c] = i THEN x ELSE f[c]]
     IN  pc' = of(pc, "dead") /\ batch' = of(batch, <<>>) /\ page' = of(page, {})
  /\ inFlight' = [inFlight EXCEPT ![i] = {}]
  /\ UNCHANGED <<groupVars, cursor, source, handled>>

\* Whoever runs the loop starts it again.
Restart(c) ==
  /\ pc[c] = "dead"
  /\ Goto(c, "summary")
  /\ UNCHANGED <<groupVars, cursor, page, batch, source, inFlight, handled, faults>>

Loop(c) ==
  \/ XPending(c) \/ XPendingRange(c) \/ XClaim(c) \/ EndPage(c)
  \/ XReadGroup(c)
  \/ Start(c) \/ StartRaises(c) \/ Ack(c) \/ EndBatch(c)
  \/ HandlerRaises(c)
  \/ \E m \in Msgs : HandlerReturns(c, m)

StreamNext ==
  \/ XAdd
  \/ \E m \in Msgs : GrowStale(m)
  \/ \E c \in Tasks : Loop(c) \/ Dies(c) \/ Restart(c)
  \/ \E i \in Instances : Crash(i)

StreamSpec == StreamInit /\ [][StreamNext]_streamVars

\* The event loop runs every task, a dead loop is started again, time passes,
\* and a handler that can succeed does not fail for ever on the same message.
FairStreamSpec ==
  /\ StreamSpec
  /\ \A c \in Tasks :
       /\ WF_streamVars(Loop(c))
       /\ WF_streamVars(Restart(c))
       /\ \A m \in Msgs : SF_streamVars(HandlerReturns(c, m))
  /\ \A m \in Msgs : WF_streamVars(GrowStale(m))

--------------------------------------------------------------------------------
(****************************************************************************)
(* Properties.                                                              *)
(****************************************************************************)

\* No message is lost to a crash, a failed handler or a race of claimers: what
\* the group has given out is pending until some handler has returned for it.
NothingLost ==
  \A m \in 1..delivered : pel[m] = "none" => handled[m] > 0

\* As long as every entry is settled within idle_ms, no message is handled a
\* second time, whatever tasks die and whichever acknowledgements are lost.
RepeatsOnlyLate == \A m \in Msgs : handled[m] > 1 => m \in late

\* With a client that answers XCLAIM with ids, every message in the stream is
\* handled in the end, also behind messages that fail for ever and in a pending
\* list longer than a page.
EventuallyHandled ==
  \A m \in Msgs \ Poison : justid /\ m <= added ~> handled[m] > 0

\* Redis Streams with consumer groups provide "at-least-once delivery via XCLAIM
\* for orphaned pending messages" (02-architecture/adr/ADR.md:159): whatever the
\* client answers, an entry that a consumer left behind is handled in the end.
OrphansHandled ==
  \A m \in Msgs \ Poison : m \in late ~> handled[m] > 0
================================================================================
