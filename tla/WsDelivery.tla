------------------------------ MODULE WsDelivery -------------------------------
(****************************************************************************)
(* Events to the connected workbenches: the subscription registry of        *)
(* api/websocket.py, and the connections of api/ws_router.py, each with a   *)
(* bounded outbound queue that a sender task drains.                        *)
(*                                                                          *)
(* All of it runs on one event loop, so what happens between two awaits is  *)
(* one step.  The two locks are never held over an await and so are never   *)
(* waited for: registering, queueing and subscribing a new connection, one  *)
(* fan-out of _publish, and the clean-up of a closed connection are a step  *)
(* each.  WsHeartbeat has the ping and pong times; here a connection may    *)
(* end at any time.                                                         *)
(****************************************************************************)
EXTENDS SequencesExt

CONSTANTS Conns,      \* connection ids, a fresh one for every socket
          Channels,   \* what clients subscribe to
          AgentChannel,  \* "/ws/agent", where escalation.new is published
          Readers,    \* connections whose clients go on reading
          MaxQueue,   \* maxsize of an outbound queue (256)
          MaxEvents   \* bound on the events published

ASSUME AgentChannelAssumption == AgentChannel \in Channels
ASSUME ReadersAssumption == Readers \subseteq Conns
ASSUME MaxQueueAssumption == MaxQueue \in Nat \ {0}

VARIABLES phase,      \* life of each connection's handler
          subs,       \* _connection_subscriptions
          chanSubs,   \* _channel_subscribers (no entry: the empty set)
          queue,      \* _outbound_queues, what is queued for each connection
          hand,       \* the frame a sender task is writing, or NoFrame
          sender,     \* whether the sender task still runs
          events,     \* how many events were published
          delivered,  \* history: the event frames each client received
          due, dropped  \* history: events published while subscribed, and
                        \* those of them that met a full queue

wsVars == <<phase, subs, chanSubs, queue, hand, sender, events,
            delivered, due, dropped>>

\* Event n is frame n; 0 is the answer to a message of the client.
Answer == 0
NoFrame == -1

WsInit ==
  /\ phase = [c \in Conns |-> "new"]
  /\ subs = [c \in Conns |-> {}]
  /\ chanSubs = [ch \in Channels |-> {}]
  /\ queue = [c \in Conns |-> <<>>]
  /\ hand = [c \in Conns |-> NoFrame]
  /\ sender = [c \in Conns |-> FALSE]
  /\ events = 0
  /\ delivered = [c \in Conns |-> <<>>]
  /\ due = [c \in Conns |-> {}]
  /\ dropped = [c \in Conns |-> {}]

\* handle_subscribe
Record(c, ch) ==
  /\ subs' = [subs EXCEPT ![c] = @ \union {ch}]
  /\ chanSubs' = [chanSubs EXCEPT ![ch] = @ \union {c}]

\* _accept_and_run up to its first await: accepted, registered, queued and
\* subscribed to the channel of the endpoint.
Connect(c, ch) ==
  /\ phase[c] = "new"
  /\ phase' = [phase EXCEPT ![c] = "greet"]
  /\ Record(c, ch)
  /\ UNCHANGED <<queue, hand, sender, events, delivered, due, dropped>>

\* The "subscribed" greeting is written straight to the socket (an error is
\* ignored), then the sender and ping tasks start and the read loop begins.
Greet(c) ==
  /\ phase[c] = "greet"
  /\ phase' = [phase EXCEPT ![c] = "run"]
  /\ sender' = [sender EXCEPT ![c] = TRUE]
  /\ UNCHANGED <<subs, chanSubs, queue, hand, events, delivered, due, dropped>>

\* The finally block: tasks cancelled, both indices and the queue dropped.
CleanUp(c) ==
  /\ phase' = [phase EXCEPT ![c] = "closed"]
  /\ subs' = [subs EXCEPT ![c] = {}]
  /\ chanSubs' = [ch \in Channels |->
                    IF ch \in subs[c] THEN chanSubs[ch] \ {c} ELSE chanSubs[ch]]
  /\ queue' = [queue EXCEPT ![c] = <<>>]
  /\ hand' = [hand EXCEPT ![c] = NoFrame]
  /\ sender' = [sender EXCEPT ![c] = FALSE]

\* The client sent subscribe; the answer is queued with put_nowait.
Subscribe(c, ch) ==
  /\ phase[c] = "run" /\ Len(queue[c]) < MaxQueue
  /\ Record(c, ch)
  /\ queue' = [queue EXCEPT ![c] = Append(@, Answer)]
  /\ UNCHANGED <<phase, hand, sender, events, delivered, due, dropped>>

\* The client sent agent.takeover or message.reply.  (agent.typing, pong and
\* frames that are not JSON change nothing.)
Respond(c) ==
  /\ phase[c] = "run" /\ Len(queue[c]) < MaxQueue
  /\ queue' = [queue EXCEPT ![c] = Append(@, Answer)]
  /\ UNCHANGED <<phase, subs, chanSubs, hand, sender, events, delivered, due,
                 dropped>>

\* Any of these messages while the queue is full: QueueFull is not caught, and
\* ends the connection.
Overrun(c) ==
  /\ phase[c] = "run" /\ Len(queue[c]) = MaxQueue
  /\ CleanUp(c)
  /\ UNCHANGED <<events, delivered, due, dropped>>

\* The client left, or the ping task closed the socket.
Disconnect(c) ==
  /\ phase[c] = "run"
  /\ CleanUp(c)
  /\ UNCHANGED <<events, delivered, due, dropped>>

\* Wrong on purpose: a new event pushes out the oldest frame of a full queue.
PublishOverwriting ==
  /\ events < MaxEvents
  /\ events' = events + 1
  /\ LET to == chanSubs[AgentChannel]
     IN  /\ queue' = [c \in Conns |->
                        IF c \notin to THEN queue[c]
                        ELSE IF Len(queue[c]) = MaxQueue
                             THEN Append(Tail(queue[c]), events + 1)
                             ELSE Append(queue[c], events + 1)]
         /\ due' = [c \in Conns |->
                      IF c \in to THEN due[c] \union {events + 1} ELSE due[c]]
  /\ UNCHANGED <<phase, subs, chanSubs, hand, sender, delivered, dropped>>

\* _publish: get_subscribers, then put_nowait into every queue; a full queue
\* drops the frame.
Publish ==
  /\ events < MaxEvents
  /\ events' = events + 1
  /\ LET to == chanSubs[AgentChannel]
         full == {c \in to : Len(queue[c]) = MaxQueue}
     IN  /\ queue' = [c \in Conns |-> IF c \in to \ full
                                      THEN Append(queue[c], events + 1)
                                      ELSE queue[c]]
         /\ due' = [c \in Conns |->
                      IF c \in to THEN due[c] \union {events + 1} ELSE due[c]]
         /\ dropped' = [c \in Conns |->
                          IF c \in full THEN dropped[c] \union {events + 1}
                          ELSE dropped[c]]
  /\ UNCHANGED <<phase, subs, chanSubs, hand, sender, delivered>>

\* Wrong on purpose: the sender waits for a second frame.
SenderGetOfTwo(c) ==
  /\ sender[c] /\ hand[c] = NoFrame /\ Len(queue[c]) > 1
  /\ hand' = [hand EXCEPT ![c] = Head(queue[c])]
  /\ queue' = [queue EXCEPT ![c] = Tail(@)]
  /\ UNCHANGED <<phase, subs, chanSubs, sender, events, delivered, due, dropped>>

\* _send_loop: queue.get(), then the write.
SenderGet(c) ==
  /\ sender[c] /\ hand[c] = NoFrame /\ queue[c] # <<>>
  /\ hand' = [hand EXCEPT ![c] = Head(queue[c])]
  /\ queue' = [queue EXCEPT ![c] = Tail(@)]
  /\ UNCHANGED <<phase, subs, chanSubs, sender, events, delivered, due, dropped>>

\* Wrong on purpose: the written frame stays in hand and is written again.
SenderWriteTwice(c) ==
  /\ sender[c] /\ hand[c] # NoFrame
  /\ Len(delivered[c]) <= MaxEvents
  /\ delivered' = [delivered EXCEPT ![c] =
                     IF hand[c] = Answer THEN @ ELSE Append(@, hand[c])]
  /\ hand' \in {hand, [hand EXCEPT ![c] = NoFrame]}
  /\ UNCHANGED <<phase, subs, chanSubs, queue, sender, events, due, dropped>>

SenderWrite(c) ==
  /\ sender[c] /\ hand[c] # NoFrame
  /\ delivered' = [delivered EXCEPT ![c] =
                     IF hand[c] = Answer THEN @ ELSE Append(@, hand[c])]
  /\ hand' = [hand EXCEPT ![c] = NoFrame]
  /\ UNCHANGED <<phase, subs, chanSubs, queue, sender, events, due, dropped>>

\* The write failed: the task returns.  The connection stays registered until
\* its read loop notices that the socket is gone.
SenderFail(c) ==
  /\ sender[c] /\ hand[c] # NoFrame
  /\ sender' = [sender EXCEPT ![c] = FALSE]
  /\ hand' = [hand EXCEPT ![c] = NoFrame]
  /\ UNCHANGED <<phase, subs, chanSubs, queue, events, delivered, due, dropped>>

WsNext ==
  \/ \E c \in Conns :
       \/ \E ch \in Channels : Connect(c, ch) \/ Subscribe(c, ch)
       \/ Greet(c) \/ Respond(c) \/ Overrun(c) \/ Disconnect(c)
       \/ SenderGet(c) \/ SenderWrite(c) \/ SenderFail(c)
  \/ Publish

\* A socket whose write failed is reported to the reader as a disconnect.
SocketGone(c) == phase[c] = "run" /\ ~sender[c] /\ Disconnect(c)

\* The loop runs every task that is ready, and a write to the socket of one of the
\* Readers ends.  Any other may wait for ever, for nothing limits its time, and the
\* heartbeat may wait on the same socket (WsHeartbeat).  (The first three are never
\* enabled together, and stay so until one is taken.)
WsFairness ==
  \A c \in Readers :
    /\ WF_wsVars(Greet(c) \/ SenderGet(c) \/ SocketGone(c))
    /\ WF_wsVars(SenderWrite(c) \/ SenderFail(c))

WsSpec == WsInit /\ [][WsNext]_wsVars /\ WsFairness

--------------------------------------------------------------------------------
(****************************************************************************)
(* Properties.                                                              *)
(****************************************************************************)

Frames(c) == ToSet(delivered[c]) \union ToSet(queue[c]) \union {hand[c]}

\* While its sender runs, a connection misses no event published since it
\* subscribed, except those that found the queue full.
NoSilentLoss ==
  \A c \in Conns : sender[c] => due[c] \subseteq Frames(c) \union dropped[c]

\* A client sees events once each, in the order of publication, also across
\* drops and answers in between.
InOrderOnce ==
  \A c \in Conns : \A i, j \in DOMAIN delivered[c] :
    i < j => delivered[c][i] < delivered[c][j]

\* A connection whose client stops reading holds up nobody else: every event
\* queued for one of the Readers is taken out to be written, or the connection ends.
QueueDrains ==
  \A c \in Readers, n \in 1..MaxEvents :
    n \in ToSet(queue[c]) ~> n \notin ToSet(queue[c])
================================================================================
