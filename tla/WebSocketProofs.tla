---------------------------- MODULE WebSocketProofs ----------------------------
(****************************************************************************)
(* What reaches the connected workbenches, for any number of connections,   *)
(* channels and events and any queue length; and the two promises of the    *)
(* heartbeat, for a connection of any length.                               *)
(****************************************************************************)
EXTENDS WsDelivery, WsHeartbeat, SequenceTheorems, TLAPS

\* The frames of a connection on their way: d was delivered, h is being written,
\* q is queued, and e events were published.  Events leave in order, each later
\* than everything in front of it; answers (0) stand anywhere.
OnTheWay(d, h, q, e) ==
  /\ d \in Seq(Nat) /\ q \in Seq(Nat) /\ h \in Nat \union {NoFrame}
  /\ h <= e
  /\ \A i \in DOMAIN d : d[i] <= e
  /\ \A i \in DOMAIN q : q[i] <= e
  /\ \A i, j \in DOMAIN d : i < j => d[i] < d[j]
  /\ \A i, j \in DOMAIN q : i < j /\ q[i] > 0 /\ q[j] > 0 => q[i] < q[j]
  /\ h > 0 => \A i \in DOMAIN d : d[i] < h
  /\ h > 0 => \A j \in DOMAIN q : q[j] > 0 => h < q[j]
  /\ \A i \in DOMAIN d, j \in DOMAIN q : q[j] > 0 => d[i] < q[j]

\* The elements of a sequence and of one longer by f.
LEMMA AppendedElements ==
  ASSUME NEW S, NEW s \in Seq(S), NEW f \in S
  PROVE  /\ Append(s, f) \in Seq(S) /\ Len(Append(s, f)) = Len(s) + 1
         /\ \A i \in DOMAIN Append(s, f) :
              \/ i \in DOMAIN s /\ Append(s, f)[i] = s[i]
              \/ i = Len(s) + 1 /\ Append(s, f)[i] = f
<1>1. /\ Append(s, f) \in Seq(S) /\ Len(Append(s, f)) = Len(s) + 1
      /\ \A i \in 1..Len(s) : Append(s, f)[i] = s[i]
      /\ Append(s, f)[Len(s) + 1] = f
  BY AppendProperties
<1>2. Len(s) \in Nat /\ DOMAIN s = 1..Len(s) /\ DOMAIN Append(s, f) = 1..(Len(s) + 1)
  BY <1>1, LenProperties
<1> QED  BY <1>1, <1>2

\* A frame is queued: an answer, or the next event.
LEMMA OnTheWayQueued ==
  ASSUME NEW d, NEW h, NEW q, NEW e \in Nat, NEW f \in Nat, NEW n \in Nat,
         OnTheWay(d, h, q, e), n >= e, f = 0 \/ f = e + 1, f <= n
  PROVE  OnTheWay(d, h, Append(q, f), n)
<1> DEFINE r == Append(q, f)
<1>1. r \in Seq(Nat) /\ Len(r) = Len(q) + 1 /\ Len(q) \in Nat
  BY AppendProperties, LenProperties DEF OnTheWay
<1>2. \A i \in DOMAIN r : \/ i \in DOMAIN q /\ r[i] = q[i]
                          \/ i = Len(q) + 1 /\ r[i] = f
  BY AppendedElements DEF OnTheWay
<1>3. \A i \in DOMAIN q : i < Len(q) + 1 /\ i \in Nat
  BY <1>1, LenProperties DEF OnTheWay
<1>4. \A i \in DOMAIN d : d[i] \in Nat
  BY ElementOfSeq, LenProperties DEF OnTheWay
<1>5. \A i \in DOMAIN q : q[i] \in Nat
  BY ElementOfSeq, LenProperties DEF OnTheWay
<1>6. h \in Int /\ h <= n
  BY DEF OnTheWay, NoFrame
<1>7. \A i \in DOMAIN d : d[i] <= n
  BY <1>4 DEF OnTheWay
<1>8. \A i \in DOMAIN r : r[i] <= n
  BY <1>2, <1>5 DEF OnTheWay
<1>9. \A i, j \in DOMAIN r : i < j /\ r[i] > 0 /\ r[j] > 0 => r[i] < r[j]
  <2> SUFFICES ASSUME NEW i \in DOMAIN r, NEW j \in DOMAIN r, i < j, r[i] > 0, r[j] > 0
               PROVE  r[i] < r[j]
    OBVIOUS
  <2>1. CASE j \in DOMAIN q /\ r[j] = q[j]
    <3>1. i \in DOMAIN q /\ r[i] = q[i]
      BY <2>1, <1>1, <1>2, <1>3
    <3> QED  BY <2>1, <3>1 DEF OnTheWay
  <2>2. CASE j = Len(q) + 1 /\ r[j] = f
    <3>1. i \in DOMAIN q /\ r[i] = q[i]
      BY <2>2, <1>1, <1>2
    <3>2. q[i] <= e /\ f = e + 1
      BY <2>2, <3>1 DEF OnTheWay
    <3> QED  BY <2>2, <3>1, <3>2, <1>5
  <2> QED  BY <2>1, <2>2, <1>2
<1>10. h > 0 => \A j \in DOMAIN r : r[j] > 0 => h < r[j]
  BY <1>2, <1>6 DEF OnTheWay
<1>11. \A i \in DOMAIN d, j \in DOMAIN r : r[j] > 0 => d[i] < r[j]
  <2> SUFFICES ASSUME NEW i \in DOMAIN d, NEW j \in DOMAIN r, r[j] > 0
               PROVE  d[i] < r[j]
    OBVIOUS
  <2>1. d[i] <= e /\ d[i] \in Nat
    BY <1>4 DEF OnTheWay
  <2> QED  BY <2>1, <1>2 DEF OnTheWay
<1> HIDE DEF r
<1>12. OnTheWay(d, h, r, n)
  BY <1>1, <1>6, <1>7, <1>8, <1>9, <1>10, <1>11 DEF OnTheWay
<1> QED  BY <1>12 DEF r

\* The sender task takes the first frame of the queue.
LEMMA OnTheWayTaken ==
  ASSUME NEW d, NEW q, NEW e \in Nat, OnTheWay(d, NoFrame, q, e), q # <<>>
  PROVE  OnTheWay(d, Head(q), Tail(q), e)
<1>1. q \in Seq(Nat)
  BY DEF OnTheWay
<1>2. /\ Head(q) \in Nat /\ Tail(q) \in Seq(Nat)
      /\ Len(q) \in Nat \ {0} /\ Len(Tail(q)) = Len(q) - 1
      /\ Head(q) = q[1]
  BY <1>1, HeadTailProperties, LenProperties, EmptySeq
<1>3. \A i \in DOMAIN Tail(q) : /\ i \in Nat /\ i >= 1
                                /\ i + 1 \in DOMAIN q /\ Tail(q)[i] = q[i + 1]
  BY <1>1, <1>2, HeadTailProperties, LenProperties
<1>4. 1 \in DOMAIN q
  BY <1>1, <1>2, LenProperties
<1>5. \A i \in DOMAIN q : q[i] \in Nat
  BY <1>1, ElementOfSeq, LenProperties
<1>6. Head(q) > 0 => \A j \in DOMAIN Tail(q) : Tail(q)[j] > 0 => Head(q) < Tail(q)[j]
  <2> SUFFICES ASSUME Head(q) > 0, NEW j \in DOMAIN Tail(q), Tail(q)[j] > 0
               PROVE  Head(q) < Tail(q)[j]
    OBVIOUS
  <2>1. /\ j + 1 \in DOMAIN q /\ 1 < j + 1
        /\ q[1] > 0 /\ q[j + 1] > 0 /\ Tail(q)[j] = q[j + 1]
    BY <1>2, <1>3
  <2>2. q[1] < q[j + 1]
    BY <2>1, <1>4 DEF OnTheWay
  <2> QED  BY <2>1, <2>2, <1>2
<1>7. \A i, j \in DOMAIN Tail(q) :
        i < j /\ Tail(q)[i] > 0 /\ Tail(q)[j] > 0 => Tail(q)[i] < Tail(q)[j]
  BY <1>3 DEF OnTheWay
<1>8. /\ Head(q) <= e
      /\ \A i \in DOMAIN Tail(q) : Tail(q)[i] <= e
      /\ Head(q) > 0 => \A i \in DOMAIN d : d[i] < Head(q)
      /\ \A i \in DOMAIN d, j \in DOMAIN Tail(q) : Tail(q)[j] > 0 => d[i] < Tail(q)[j]
  BY <1>2, <1>3, <1>4 DEF OnTheWay
<1>9. /\ d \in Seq(Nat) /\ \A i \in DOMAIN d : d[i] <= e
      /\ \A i, j \in DOMAIN d : i < j => d[i] < d[j]
  BY DEF OnTheWay
<1> QED  BY ONLY <1>2, <1>6, <1>7, <1>8, <1>9 DEF OnTheWay

\* The write of an event ended: it is delivered.
LEMMA OnTheWayWritten ==
  ASSUME NEW d, NEW h, NEW q, NEW e \in Nat, OnTheWay(d, h, q, e), h > 0
  PROVE  OnTheWay(Append(d, h), NoFrame, q, e)
<1> DEFINE r == Append(d, h)
<1>1. h \in Nat /\ h <= e
  BY DEF OnTheWay, NoFrame
<1>2. r \in Seq(Nat) /\ Len(r) = Len(d) + 1 /\ Len(d) \in Nat
  BY <1>1, AppendProperties, LenProperties DEF OnTheWay
<1>3. \A i \in DOMAIN r : \/ i \in DOMAIN d /\ r[i] = d[i]
                          \/ i = Len(d) + 1 /\ r[i] = h
  BY <1>1, AppendedElements DEF OnTheWay
<1>4. \A i \in DOMAIN d : i < Len(d) + 1 /\ i \in Nat
  BY <1>2, LenProperties DEF OnTheWay
<1>5. \A i, j \in DOMAIN r : i < j => r[i] < r[j]
  BY <1>2, <1>3, <1>4 DEF OnTheWay
<1>6. \A i \in DOMAIN r, j \in DOMAIN q : q[j] > 0 => r[i] < q[j]
  BY <1>3 DEF OnTheWay
<1>7. \A i \in DOMAIN r : r[i] <= e
  BY <1>1, <1>3 DEF OnTheWay
<1>8. /\ q \in Seq(Nat) /\ \A i \in DOMAIN q : q[i] <= e
      /\ \A i, j \in DOMAIN q : i < j /\ q[i] > 0 /\ q[j] > 0 => q[i] < q[j]
  BY DEF OnTheWay
<1>9. NoFrame \in {NoFrame} /\ NoFrame <= e /\ ~(NoFrame > 0)
  BY DEF NoFrame
<1> HIDE DEF r
<1>10. OnTheWay(d, h, q, e) => OnTheWay(r, NoFrame, q, e)
  BY ONLY <1>2, <1>5, <1>6, <1>7, <1>8, <1>9 DEF OnTheWay
<1> QED  BY <1>10 DEF r

\* The frame in hand is gone, or the whole connection is.
LEMMA OnTheWayGone ==
  ASSUME NEW d, NEW h, NEW q, NEW e \in Nat, OnTheWay(d, h, q, e)
  PROVE  /\ OnTheWay(d, NoFrame, q, e)
         /\ OnTheWay(d, NoFrame, <<>>, e)
<1>1. NoFrame <= e /\ ~(NoFrame > 0) /\ NoFrame \in {NoFrame}
  BY DEF NoFrame
<1>2. <<>> \in Seq(Nat) /\ DOMAIN <<>> = {}
  BY EmptySeq
<1> QED  BY ONLY <1>1, <1>2, OnTheWay(d, h, q, e) DEF OnTheWay

--------------------------------------------------------------------------------
\* The frames of a connection as a set, and how the queue changes it.
LEMMA ToSetAppended ==
  ASSUME NEW S, NEW s \in Seq(S), NEW f \in S
  PROVE  ToSet(Append(s, f)) = ToSet(s) \union {f}
<1>1. Append(s, f) \in Seq(S) /\ Len(Append(s, f)) = Len(s) + 1
  BY AppendedElements
<1>2. DOMAIN s = 1..Len(s) /\ DOMAIN Append(s, f) = 1..(Len(s) + 1) /\ Len(s) \in Nat
  BY <1>1, LenProperties
<1>3. /\ \A i \in DOMAIN s : Append(s, f)[i] = s[i]
      /\ Append(s, f)[Len(s) + 1] = f
  BY <1>2, AppendProperties
<1>4. ToSet(s) \union {f} \subseteq ToSet(Append(s, f))
  BY <1>2, <1>3 DEF ToSet
<1>5. ToSet(Append(s, f)) \subseteq ToSet(s) \union {f}
  BY AppendedElements DEF ToSet
<1> QED  BY <1>4, <1>5

LEMMA ToSetOfTail ==
  ASSUME NEW S, NEW s \in Seq(S), s # <<>>
  PROVE  ToSet(s) \subseteq {Head(s)} \union ToSet(Tail(s))
<1>1. /\ Head(s) = s[1] /\ Tail(s) \in Seq(S) /\ Len(Tail(s)) = Len(s) - 1
      /\ \A i \in 1..Len(Tail(s)) : Tail(s)[i] = s[i + 1]
  BY HeadTailProperties
<1>2. /\ DOMAIN s = 1..Len(s) /\ Len(s) \in Nat /\ Len(s) # 0
      /\ DOMAIN Tail(s) = 1..(Len(s) - 1)
  BY <1>1, LenProperties, EmptySeq
<1> SUFFICES ASSUME NEW i \in DOMAIN s
             PROVE  s[i] \in {Head(s)} \union ToSet(Tail(s))
  BY DEF ToSet
<1>3. CASE i = 1
  BY <1>1, <1>3
<1>4. CASE i # 1
  <2>1. i - 1 \in DOMAIN Tail(s) /\ Tail(s)[i - 1] = s[i]
    BY <1>1, <1>2, <1>4
  <2> QED  BY <2>1 DEF ToSet
<1> QED  BY <1>3, <1>4

--------------------------------------------------------------------------------
Deliveries ==
  /\ events \in Nat
  /\ phase \in [Conns -> {"new", "greet", "run", "closed"}]
  /\ queue \in [Conns -> Seq(Nat)]
  /\ hand \in [Conns -> Nat \union {NoFrame}]
  /\ sender \in [Conns -> BOOLEAN]
  /\ delivered \in [Conns -> Seq(Nat)]
  /\ due \in [Conns -> SUBSET (Nat \ {0})]
  /\ dropped \in [Conns -> SUBSET (Nat \ {0})]

Ordered == \A c \in Conns : OnTheWay(delivered[c], hand[c], queue[c], events)

SenderOnlyInRun == \A c \in Conns : sender[c] => phase[c] = "run"

\* From the registration, before the sender task starts, to the end of that task
\* nothing that was published is missing.
CoveredOf(c) == due[c] \subseteq Frames(c) \union dropped[c]
Covered == \A c \in Conns : sender[c] \/ phase[c] \in {"new", "greet"} => CoveredOf(c)

WsInv == Deliveries /\ Ordered /\ SenderOnlyInRun /\ Covered

LEMMA InitWsInv == WsInit => WsInv
<1> SUFFICES ASSUME WsInit PROVE WsInv
  OBVIOUS
<1> USE DEF WsInit, NoFrame
<1>1. <<>> \in Seq(Nat) /\ DOMAIN <<>> = {}
  BY EmptySeq
<1>2. Deliveries
  BY <1>1 DEF Deliveries
<1>3. Ordered
  BY <1>1 DEF Ordered, OnTheWay
<1>4. SenderOnlyInRun /\ Covered
  BY DEF SenderOnlyInRun, Covered, CoveredOf
<1> QED  BY <1>2, <1>3, <1>4 DEF WsInv

\* A connection a step does not touch keeps its part of the invariant.
Same(c) == /\ queue'[c] = queue[c] /\ hand'[c] = hand[c] /\ sender'[c] = sender[c]
           /\ phase'[c] = phase[c] /\ delivered'[c] = delivered[c]
           /\ due'[c] = due[c] /\ dropped'[c] = dropped[c]

\* A step that touches one connection only has to restore that one.
LEMMA OneTouched ==
  ASSUME WsInv, NEW c \in Conns, events' = events, Deliveries',
         \A k \in Conns \ {c} : Same(k),
         OnTheWay(delivered'[c], hand'[c], queue'[c], events),
         sender'[c] => phase'[c] = "run",
         sender'[c] \/ phase'[c] \in {"new", "greet"} => CoveredOf(c)'
  PROVE  WsInv'
<1>1. Ordered'
  BY DEF WsInv, Ordered, Same
<1>2. SenderOnlyInRun'
  BY DEF WsInv, SenderOnlyInRun, Same
<1>3. \A k \in Conns \ {c} : CoveredOf(k)' <=> CoveredOf(k)
  BY DEF CoveredOf, Frames, Same
<1>4. Covered'
  <2> SUFFICES ASSUME NEW k \in Conns, sender'[k] \/ phase'[k] \in {"new", "greet"}
               PROVE  CoveredOf(k)'
    BY DEF Covered
  <2>1. CASE k = c
    BY <2>1
  <2>2. CASE k # c
    <3>1. sender[k] \/ phase[k] \in {"new", "greet"}
      BY <2>2 DEF Same
    <3> QED  BY <2>2, <3>1, <1>3 DEF WsInv, Covered
  <2> QED  BY <2>1, <2>2
<1> QED  BY <1>1, <1>2, <1>4 DEF WsInv

LEMMA ConnectWs ==
  ASSUME WsInv, NEW c \in Conns, NEW ch \in Channels, Connect(c, ch) PROVE WsInv'
<1> USE DEF Connect, Record
<1>1. Deliveries'
  BY DEF WsInv, Deliveries
<1>2. \A k \in Conns \ {c} : Same(k)
  BY DEF WsInv, Deliveries, Same
<1>3. phase'[c] = "greet" /\ ~sender[c]
  BY DEF WsInv, Deliveries, SenderOnlyInRun
<1>4. CoveredOf(c)'
  BY DEF WsInv, Covered, CoveredOf, Frames
<1>5. OnTheWay(delivered'[c], hand'[c], queue'[c], events)
  BY DEF WsInv, Ordered
<1> QED  BY <1>1, <1>2, <1>3, <1>4, <1>5, OneTouched

LEMMA GreetWs ==
  ASSUME WsInv, NEW c \in Conns, Greet(c) PROVE WsInv'
<1> USE DEF Greet
<1>1. Deliveries'
  BY DEF WsInv, Deliveries
<1>2. \A k \in Conns \ {c} : Same(k)
  BY DEF WsInv, Deliveries, Same
<1>3. phase'[c] = "run"
  BY DEF WsInv, Deliveries
<1>4. CoveredOf(c)'
  BY DEF WsInv, Covered, CoveredOf, Frames
<1>5. OnTheWay(delivered'[c], hand'[c], queue'[c], events)
  BY DEF WsInv, Ordered
<1> QED  BY <1>1, <1>2, <1>3, <1>4, <1>5, OneTouched

\* subscribe, agent.takeover and message.reply: the answer joins the queue.
LEMMA AnswerWs ==
  ASSUME WsInv, NEW c \in Conns, phase[c] = "run",
         queue' = [queue EXCEPT ![c] = Append(@, Answer)],
         UNCHANGED <<phase, hand, sender, events, delivered, due, dropped>>
  PROVE  WsInv'
<1>1. Answer \in Nat /\ queue[c] \in Seq(Nat) /\ queue'[c] = Append(queue[c], Answer)
  BY DEF WsInv, Deliveries, Answer
<1>2. Append(queue[c], Answer) \in Seq(Nat)
  BY <1>1, AppendedElements
<1>3. Deliveries'
  BY <1>1, <1>2 DEF WsInv, Deliveries
<1>4. \A k \in Conns \ {c} : Same(k)
  BY DEF WsInv, Deliveries, Same
<1>5. OnTheWay(delivered'[c], hand'[c], queue'[c], events)
  <2>1. OnTheWay(delivered[c], hand[c], queue[c], events) /\ events \in Nat
    BY DEF WsInv, Ordered, Deliveries
  <2>2. OnTheWay(delivered[c], hand[c], Append(queue[c], Answer), events)
    BY <2>1, <1>1, OnTheWayQueued DEF Answer
  <2> QED  BY <2>2, <1>1
<1>6. sender[c] => CoveredOf(c)'
  <2>1. ToSet(queue'[c]) = ToSet(queue[c]) \union {Answer}
    BY <1>1, ToSetAppended
  <2> QED  BY <2>1 DEF WsInv, Covered, CoveredOf, Frames
<1> QED  BY <1>3, <1>4, <1>5, <1>6, OneTouched DEF WsInv, SenderOnlyInRun

LEMMA CleanUpWs ==
  ASSUME WsInv, NEW c \in Conns, CleanUp(c), UNCHANGED <<events, delivered, due, dropped>>
  PROVE  WsInv'
<1> USE DEF CleanUp
<1>1. <<>> \in Seq(Nat)
  BY EmptySeq
<1>2. Deliveries'
  BY <1>1 DEF WsInv, Deliveries
<1>3. \A k \in Conns \ {c} : Same(k)
  BY DEF WsInv, Deliveries, Same
<1>4. phase'[c] = "closed" /\ ~sender'[c] /\ hand'[c] = NoFrame /\ queue'[c] = <<>>
  BY DEF WsInv, Deliveries
<1>5. OnTheWay(delivered'[c], hand'[c], queue'[c], events)
  BY <1>4, OnTheWayGone DEF WsInv, Ordered, Deliveries
<1> QED  BY <1>2, <1>3, <1>4, <1>5, OneTouched

LEMMA SenderGetWs ==
  ASSUME WsInv, NEW c \in Conns, SenderGet(c) PROVE WsInv'
<1> USE DEF SenderGet
<1>1. /\ queue[c] \in Seq(Nat) /\ hand[c] = NoFrame
      /\ queue'[c] = Tail(queue[c]) /\ hand'[c] = Head(queue[c])
      /\ events \in Nat
  BY DEF WsInv, Deliveries
<1>2. OnTheWay(delivered[c], NoFrame, queue[c], events) /\ queue[c] # <<>>
  BY <1>1 DEF WsInv, Ordered
<1>3. OnTheWay(delivered[c], Head(queue[c]), Tail(queue[c]), events)
  BY <1>1, <1>2, OnTheWayTaken
<1>4. Head(queue[c]) \in Nat \union {NoFrame} /\ Tail(queue[c]) \in Seq(Nat)
  BY <1>3 DEF OnTheWay
<1>5. Deliveries'
  BY <1>4 DEF WsInv, Deliveries
<1>6. \A k \in Conns \ {c} : Same(k)
  BY DEF WsInv, Deliveries, Same
<1>7. OnTheWay(delivered'[c], hand'[c], queue'[c], events)
  BY <1>1, <1>3
<1>8. phase'[c] = "run"
  BY DEF WsInv, SenderOnlyInRun
<1>9. CoveredOf(c)'
  <2>1. ToSet(queue[c]) \subseteq {hand'[c]} \union ToSet(queue'[c])
    BY <1>1, <1>2, ToSetOfTail
  <2>2. due[c] \subseteq ToSet(delivered[c]) \union ToSet(queue[c]) \union {NoFrame} \union dropped[c]
    BY <1>1 DEF WsInv, Covered, CoveredOf, Frames
  <2>3. NoFrame \notin due[c]
    BY DEF WsInv, Deliveries, NoFrame
  <2> QED  BY <2>1, <2>2, <2>3 DEF CoveredOf, Frames
<1> QED  BY <1>5, <1>6, <1>7, <1>8, <1>9, OneTouched

LEMMA SenderWriteWs ==
  ASSUME WsInv, NEW c \in Conns, SenderWrite(c) PROVE WsInv'
<1> USE DEF SenderWrite
<1>1. /\ delivered[c] \in Seq(Nat) /\ hand[c] \in Nat /\ hand'[c] = NoFrame
      /\ delivered'[c] = IF hand[c] = Answer THEN delivered[c]
                         ELSE Append(delivered[c], hand[c])
      /\ events \in Nat
  BY DEF WsInv, Deliveries
<1>2. OnTheWay(delivered[c], hand[c], queue[c], events)
  BY DEF WsInv, Ordered
<1>3. /\ OnTheWay(delivered[c], NoFrame, queue[c], events)
      /\ hand[c] > 0 => OnTheWay(Append(delivered[c], hand[c]), NoFrame, queue[c], events)
  BY <1>1, <1>2, OnTheWayGone, OnTheWayWritten
<1>4. OnTheWay(delivered'[c], NoFrame, queue[c], events)
  BY <1>1, <1>3 DEF Answer
<1>5. Deliveries'
  <2>1. delivered'[c] \in Seq(Nat)
    BY <1>4 DEF OnTheWay
  <2>2. delivered' \in [Conns -> Seq(Nat)]
    BY <2>1, <1>1 DEF WsInv, Deliveries
  <2> QED  BY <2>2 DEF WsInv, Deliveries
<1>6. \A k \in Conns \ {c} : Same(k)
  BY DEF WsInv, Deliveries, Same
<1>7. phase'[c] = "run"
  BY DEF WsInv, SenderOnlyInRun
<1>8. CoveredOf(c)'
  <2>1. CASE hand[c] = Answer
    <3>1. hand[c] \notin due[c] /\ delivered'[c] = delivered[c]
      BY <2>1, <1>1 DEF WsInv, Deliveries, Answer
    <3> QED  BY <3>1 DEF WsInv, Covered, CoveredOf, Frames
  <2>2. CASE hand[c] # Answer
    <3>1. ToSet(delivered'[c]) = ToSet(delivered[c]) \union {hand[c]}
      BY <2>2, <1>1, ToSetAppended
    <3> QED  BY <3>1 DEF WsInv, Covered, CoveredOf, Frames
  <2> QED  BY <2>1, <2>2
<1> QED  BY <1>1, <1>4, <1>5, <1>6, <1>7, <1>8, OneTouched

LEMMA SenderFailWs ==
  ASSUME WsInv, NEW c \in Conns, SenderFail(c) PROVE WsInv'
<1> USE DEF SenderFail
<1>1. Deliveries'
  BY DEF WsInv, Deliveries
<1>2. \A k \in Conns \ {c} : Same(k)
  BY DEF WsInv, Deliveries, Same
<1>3. ~sender'[c] /\ phase'[c] = "run" /\ hand'[c] = NoFrame
  BY DEF WsInv, Deliveries, SenderOnlyInRun
<1>4. OnTheWay(delivered'[c], hand'[c], queue'[c], events)
  BY <1>3, OnTheWayGone DEF WsInv, Ordered, Deliveries
<1> QED  BY <1>1, <1>2, <1>3, <1>4, OneTouched

LEMMA PublishWs == ASSUME WsInv, Publish PROVE WsInv'
<1> DEFINE to == chanSubs[AgentChannel]
           full == {c \in to : Len(queue[c]) = MaxQueue}
           n == events + 1
<1>1. /\ events \in Nat /\ events' = n
      /\ UNCHANGED <<phase, hand, sender, delivered>>
      /\ queue' = [c \in Conns |-> IF c \in to \ full THEN Append(queue[c], n) ELSE queue[c]]
      /\ due' = [c \in Conns |-> IF c \in to THEN due[c] \union {n} ELSE due[c]]
      /\ dropped' = [c \in Conns |-> IF c \in full THEN dropped[c] \union {n} ELSE dropped[c]]
  BY DEF Publish, WsInv, Deliveries
<1> HIDE DEF to
<1>2. ASSUME NEW c \in Conns
      PROVE  /\ queue'[c] = IF c \in to \ full THEN Append(queue[c], n) ELSE queue[c]
             /\ queue[c] \in Seq(Nat)
             /\ OnTheWay(delivered[c], hand[c], queue[c], events)
  BY <1>1 DEF WsInv, Deliveries, Ordered
<1>3. ASSUME NEW c \in Conns
      PROVE  OnTheWay(delivered[c], hand[c], queue'[c], n)
  <2>1. CASE c \in to \ full
    <3>1. OnTheWay(delivered[c], hand[c], Append(queue[c], n), n)
      BY <1>1, <1>2, OnTheWayQueued
    <3> QED  BY <2>1, <3>1, <1>2
  <2>2. CASE c \notin to \ full
    <3>1. DOMAIN delivered[c] = 1..Len(delivered[c]) /\ \A i \in DOMAIN delivered[c] : delivered[c][i] \in Nat
      BY <1>2, ElementOfSeq, LenProperties DEF OnTheWay
    <3>2. \A i \in DOMAIN queue[c] : queue[c][i] \in Nat
      BY <1>2, ElementOfSeq, LenProperties DEF OnTheWay
    <3>3. hand[c] \in Nat \union {NoFrame} /\ hand[c] <= n
      BY <1>1, <1>2 DEF OnTheWay, NoFrame
    <3>4. /\ \A i \in DOMAIN delivered[c] : delivered[c][i] <= n
          /\ \A i \in DOMAIN queue[c] : queue[c][i] <= n
      BY <1>1, <1>2, <3>1, <3>2 DEF OnTheWay
    <3> QED  BY <2>2, <1>2, <3>3, <3>4 DEF OnTheWay
  <2> QED  BY <2>1, <2>2
<1>4. Deliveries'
  <2>1. \A c \in Conns : queue'[c] \in Seq(Nat)
    BY <1>3 DEF OnTheWay
  <2>2. queue' \in [Conns -> Seq(Nat)]
    BY <2>1, <1>1
  <2>3. n \in Nat \ {0}
    BY <1>1
  <2>4. due' \in [Conns -> SUBSET (Nat \ {0})] /\ dropped' \in [Conns -> SUBSET (Nat \ {0})]
    BY <2>3, <1>1 DEF WsInv, Deliveries
  <2> QED  BY <2>2, <2>3, <2>4, <1>1 DEF WsInv, Deliveries
<1>5. Ordered'
  BY <1>1, <1>3 DEF Ordered
<1>6. SenderOnlyInRun'
  BY <1>1 DEF WsInv, SenderOnlyInRun
<1>7. ASSUME NEW c \in Conns, CoveredOf(c) PROVE CoveredOf(c)'
  <2>1. due'[c] = IF c \in to THEN due[c] \union {n} ELSE due[c]
    BY <1>1
  <2>2. dropped'[c] = IF c \in full THEN dropped[c] \union {n} ELSE dropped[c]
    BY <1>1
  <2>3. ToSet(queue'[c]) = IF c \in to \ full THEN ToSet(queue[c]) \union {n} ELSE ToSet(queue[c])
    <3>1. ToSet(Append(queue[c], n)) = ToSet(queue[c]) \union {n}
      BY <1>1, <1>2, ToSetAppended
    <3> HIDE DEF full, n
    <3> QED  BY <3>1, <1>2
  <2>4. Frames(c)' = ToSet(delivered[c]) \union ToSet(queue'[c]) \union {hand[c]}
    BY <1>1 DEF Frames
  <2> HIDE DEF full, n
  <2> QED  BY <2>1, <2>2, <2>3, <2>4, <1>7 DEF CoveredOf, Frames
<1>8. Covered'
  BY <1>1, <1>7 DEF WsInv, Covered
<1> QED  BY <1>4, <1>5, <1>6, <1>8 DEF WsInv

LEMMA NextWsInv == WsInv /\ [WsNext]_wsVars => WsInv'
<1> SUFFICES ASSUME WsInv, [WsNext]_wsVars PROVE WsInv'
  OBVIOUS
<1>1. ASSUME NEW c \in Conns, NEW ch \in Channels, Connect(c, ch) \/ Subscribe(c, ch)
      PROVE  WsInv'
  BY <1>1, ConnectWs, AnswerWs DEF Subscribe
<1>2. ASSUME NEW c \in Conns, Greet(c) \/ Respond(c) PROVE WsInv'
  BY <1>2, GreetWs, AnswerWs DEF Respond
<1>3. ASSUME NEW c \in Conns, Overrun(c) \/ Disconnect(c) PROVE WsInv'
  BY <1>3, CleanUpWs DEF Overrun, Disconnect
<1>4. ASSUME NEW c \in Conns, SenderGet(c) \/ SenderWrite(c) \/ SenderFail(c) PROVE WsInv'
  BY <1>4, SenderGetWs, SenderWriteWs, SenderFailWs
<1>5. CASE UNCHANGED wsVars
  BY <1>5 DEF wsVars, WsInv, Deliveries, Ordered, SenderOnlyInRun, Covered, CoveredOf, Frames
<1> QED  BY <1>1, <1>2, <1>3, <1>4, <1>5, PublishWs DEF WsNext

\* Every event a client is sent comes once and in the order of publication.
THEOREM OrderOfEvents == WsSpec => []InOrderOnce
<1>1. WsInv => InOrderOnce
  BY DEF WsInv, Ordered, OnTheWay, InOrderOnce
<1> QED  BY <1>1, InitWsInv, NextWsInv, PTL DEF WsSpec

\* Nothing published to a live connection goes missing without having met a full
\* queue.
THEOREM NothingLostSilently == WsSpec => []NoSilentLoss
<1>1. WsInv => NoSilentLoss
  BY DEF WsInv, Covered, CoveredOf, NoSilentLoss
<1> QED  BY <1>1, InitWsInv, NextWsInv, PTL DEF WsSpec

--------------------------------------------------------------------------------
\* The shape of the state; a "ping" or a "bye" in hand is one that waits.
Ages ==
  /\ conn \in {"open", "dropped", "left"} /\ everLate \in BOOLEAN
  /\ pinger \in {"sleep", "ping", "bye", "gone"}
  /\ conn = "dropped" => pinger = "gone"
  /\ untilPing \in 0..PING_INTERVAL
  /\ writing \in Nat /\ sincePong \in Nat
  /\ unanswered \in Nat \union {None}

HeldIsSeen == everHeld \in BOOLEAN /\ (pinger \in {"ping", "bye"} => everHeld)

\* Without an open ping the client has been heard from since the last one; and
\* before a ping that is the only open one.
HeardSincePing ==
  /\ pinger = "sleep" /\ unanswered = None => sincePong + untilPing <= PING_INTERVAL
  /\ pinger = "ping" => unanswered # None /\ writing <= unanswered
  /\ pinger = "ping" /\ unanswered <= PONG_TIMEOUT => sincePong <= PING_INTERVAL + writing

\* As long as no write waits, the oldest open ping is the last one or the one before
\* it, and the client has been silent ever since.
OldestPing ==
  conn = "open" /\ ~everHeld /\ unanswered # None =>
    /\ pinger = "sleep"
    /\ unanswered + untilPing \in {PING_INTERVAL, 2 * PING_INTERVAL}
    /\ unanswered <= sincePong

\* A ping that is open when the task sleeps was handed over before it fell asleep.
OpenPing ==
  pinger = "sleep" /\ unanswered # None => unanswered + untilPing >= PING_INTERVAL

LateIsSeen == unanswered > PONG_TIMEOUT => everLate

HbInv == /\ Ages /\ HeldIsSeen /\ HeardSincePing /\ OldestPing /\ OpenPing
         /\ LateIsSeen /\ PunctualStays

LEMMA InitHbInv == HbInit => HbInv
<1> SUFFICES ASSUME HbInit PROVE HbInv
  OBVIOUS
<1> USE DEF HbInit, PING_INTERVAL, PONG_TIMEOUT, None
<1>1. Ages
  <2>1. conn = "open" /\ pinger = "sleep" /\ everLate \in BOOLEAN
    OBVIOUS
  <2>2. untilPing \in 0..PING_INTERVAL /\ writing \in Nat /\ sincePong \in Nat
    OBVIOUS
  <2>3. unanswered \in Nat \union {None}
    OBVIOUS
  <2> QED  BY <2>1, <2>2, <2>3 DEF Ages
<1>2. HeldIsSeen
  BY Zenon DEF HeldIsSeen
<1>3. HeardSincePing /\ OldestPing /\ OpenPing
  BY DEF HeardSincePing, OldestPing, OpenPing
<1>4. LateIsSeen /\ PunctualStays
  <2>1. ~(unanswered > PONG_TIMEOUT)
    OBVIOUS
  <2> QED  BY <2>1 DEF LateIsSeen, PunctualStays
<1> QED  BY <1>1, <1>2, <1>3, <1>4 DEF HbInv

\* A check that fails finds a ping that was open for too long.
LEMMA FailedCheck ==
  ASSUME HbInv, sincePong > PING_INTERVAL + PONG_TIMEOUT,
         (pinger = "sleep" /\ untilPing = 0) \/ pinger = "ping"
  PROVE  unanswered # None /\ everLate
<1> USE DEF PING_INTERVAL, PONG_TIMEOUT, None
<1>1. unanswered > PONG_TIMEOUT
  <2>1. CASE pinger = "sleep" /\ untilPing = 0
    BY <2>1 DEF HbInv, Ages, HeardSincePing, OpenPing
  <2>2. CASE pinger = "ping"
    BY <2>2 DEF HbInv, Ages, HeardSincePing
  <2> QED  BY <2>1, <2>2
<1>2. unanswered # None
  BY <1>1
<1>3. everLate
  BY <1>1, Zenon DEF HbInv, LateIsSeen
<1> QED  BY <1>2, <1>3

\* The ping task has written its ping, and looks at the pongs.
LEMMA CheckHbInv ==
  ASSUME HbInv, Ping \/ PingWritten
  PROVE  HbInv'
<1> USE DEF PING_INTERVAL, PONG_TIMEOUT, None
<1>1. /\ conn = "open"
      /\ (pinger = "sleep" /\ untilPing = 0) \/ pinger = "ping"
      /\ sincePong' = sincePong /\ everLate' = everLate
      /\ Check
  BY DEF Ping, PingWritten, WakeUp
<1>2. /\ writing' \in Nat /\ unanswered' \in Nat
      /\ unanswered' = IF unanswered = None THEN 0 ELSE unanswered
  BY DEF Ping, PingWritten, WakeUp, HbInv, Ages, HeardSincePing
<1>3. CASE sincePong <= PING_INTERVAL + PONG_TIMEOUT
  <2>1. conn' = "open" /\ pinger' = "sleep" /\ untilPing' = 6 /\ everHeld' = everHeld
    BY <1>1, <1>3 DEF HbInv, Ages, Check
  <2>2. (Ages /\ HeldIsSeen /\ HeardSincePing /\ OpenPing)'
    BY <1>1, <1>2, <2>1 DEF HbInv, Ages, HeldIsSeen, HeardSincePing, OpenPing
  \* A ping that was open at the check before this one is twelve ticks old now:
  \* so long a silence fails the check.
  <2>3. OldestPing'
    <3>1. ~everHeld => pinger = "sleep" /\ untilPing = 0
      BY <1>1 DEF HbInv, HeldIsSeen
    <3>2. ~everHeld => unanswered \in {None, 6} /\ unanswered <= sincePong
      BY <1>1, <1>3, <3>1 DEF HbInv, Ages, OldestPing
    <3> QED  BY <1>1, <1>2, <2>1, <3>2 DEF OldestPing, HbInv, Ages
  <2>4. (LateIsSeen /\ PunctualStays)'
    <3>1. unanswered' > PONG_TIMEOUT => unanswered > PONG_TIMEOUT
      BY <1>2
    <3> QED  BY <1>1, <2>1, <3>1 DEF HbInv, LateIsSeen, PunctualStays
  <2> QED  BY <2>2, <2>3, <2>4 DEF HbInv
<1>4. CASE sincePong > PING_INTERVAL + PONG_TIMEOUT
  <2>1. unanswered # None /\ everLate
    BY <1>1, <1>4, FailedCheck
  <2>2. /\ untilPing' = untilPing
        /\ \/ conn' = "dropped" /\ pinger' = "gone" /\ everHeld' = everHeld
           \/ conn' = "open" /\ pinger' = "bye" /\ everHeld' = TRUE
    BY <1>1, <1>4 DEF HbInv, Ages, Check
  <2>3. (Ages /\ HeldIsSeen /\ HeardSincePing /\ OldestPing /\ OpenPing)'
    BY <1>1, <1>2, <2>2 DEF HbInv, Ages, HeldIsSeen, HeardSincePing, OldestPing, OpenPing
  <2>4. everLate'
    BY <1>1, <2>1
  <2>5. (LateIsSeen /\ PunctualStays)'
    BY <2>4 DEF LateIsSeen, PunctualStays
  <2> QED  BY <2>3, <2>5 DEF HbInv
<1> QED  BY <1>3, <1>4 DEF HbInv, Ages

LEMMA NextHbInv == HbInv /\ [HbNext]_hbVars => HbInv'
<1> SUFFICES ASSUME HbInv, [HbNext]_hbVars PROVE HbInv'
  OBVIOUS
<1> USE DEF PING_INTERVAL, PONG_TIMEOUT, None
<1>1. CASE HbTick
  <2>1. Ages'
    BY <1>1 DEF HbTick, HbInv, Ages
  <2>2. (HeldIsSeen /\ HeardSincePing)'
    BY <1>1 DEF HbTick, HbInv, Ages, HeldIsSeen, HeardSincePing
  <2>3. (OldestPing /\ OpenPing)'
    BY <1>1 DEF HbTick, HbInv, Ages, OldestPing, OpenPing
  <2>4. everLate' <=> everLate \/ unanswered' > PONG_TIMEOUT
    BY <1>1 DEF HbTick, HbInv, Ages
  <2>5. conn' = conn /\ pinger' = pinger
    BY <1>1 DEF HbTick
  <2>6. (LateIsSeen /\ PunctualStays)'
    BY <2>4, <2>5 DEF HbInv, LateIsSeen, PunctualStays
  <2> QED  BY <2>1, <2>2, <2>3, <2>6 DEF HbInv
<1>2. CASE Pong
  <2>1. (Ages /\ HeldIsSeen /\ HeardSincePing)'
    BY <1>2 DEF Pong, HbInv, Ages, HeldIsSeen, HeardSincePing
  <2>2. (OldestPing /\ OpenPing)'
    BY <1>2 DEF Pong, HbInv, Ages, HeldIsSeen, OldestPing, OpenPing
  <2>3. unanswered' > PONG_TIMEOUT => unanswered > PONG_TIMEOUT
    BY <1>2 DEF Pong, HbInv, Ages, HeardSincePing
  <2>4. UNCHANGED <<conn, pinger, everLate>>
    BY <1>2 DEF Pong
  <2>5. (LateIsSeen /\ PunctualStays)'
    BY <2>3, <2>4 DEF HbInv, LateIsSeen, PunctualStays
  <2> QED  BY <2>1, <2>2, <2>5 DEF HbInv
<1>3. CASE Ping \/ PingWritten
  BY <1>3, CheckHbInv
<1>4. CASE PingWaits
  <2>1. /\ conn = "open" /\ pinger = "sleep" /\ untilPing = 0
        /\ pinger' = "ping" /\ everHeld' = TRUE /\ writing' = 0
        /\ unanswered' = IF unanswered = None THEN 0 ELSE unanswered
        /\ UNCHANGED <<conn, untilPing, sincePong, everLate>>
    BY <1>4 DEF PingWaits, WakeUp
  <2>2. (Ages /\ HeldIsSeen /\ OldestPing /\ OpenPing)'
    BY <2>1 DEF HbInv, Ages, HeldIsSeen, OldestPing, OpenPing
  <2>3. HeardSincePing'
    BY <2>1 DEF HbInv, Ages, HeardSincePing, OpenPing
  <2>4. unanswered' > PONG_TIMEOUT => unanswered > PONG_TIMEOUT
    BY <2>1
  <2>5. (LateIsSeen /\ PunctualStays)'
    BY <2>1, <2>4 DEF HbInv, LateIsSeen, PunctualStays
  <2> QED  BY <2>2, <2>3, <2>5 DEF HbInv
<1>5. CASE WriteFails \/ ByeWritten \/ Leave
  <2>1. /\ conn = "open" /\ pinger' = "gone"
        /\ \/ conn' \in {"open", "left"}
           \/ conn' = "dropped" /\ pinger = "bye"
        /\ everHeld' \in {everHeld, TRUE}
        /\ conn' = "open" => everHeld' = TRUE
        /\ UNCHANGED <<untilPing, writing, sincePong, unanswered, everLate>>
    BY <1>5 DEF WriteFails, ByeWritten, Leave
  <2>2. (Ages /\ HeldIsSeen /\ HeardSincePing /\ OldestPing /\ OpenPing)'
    BY <2>1 DEF HbInv, Ages, HeldIsSeen, HeardSincePing, OldestPing, OpenPing
  <2>3. (LateIsSeen /\ PunctualStays)'
    BY <2>1 DEF HbInv, LateIsSeen, PunctualStays
  <2> QED  BY <2>2, <2>3 DEF HbInv
<1>6. CASE UNCHANGED hbVars
  BY <1>6 DEF hbVars, HbInv, Ages, HeldIsSeen, HeardSincePing, OldestPing, OpenPing,
              LateIsSeen, PunctualStays
<1> QED  BY <1>1, <1>2, <1>3, <1>4, <1>5, <1>6 DEF HbNext

LEMMA HbInvariance == HbSpec => []HbInv
BY InitHbInv, NextHbInv, PTL DEF HbSpec

\* A client that answers every ping in time is never dropped, also when its socket
\* holds the pings up.
THEOREM Punctual == HbSpec => []PunctualStays
<1>1. HbInv => PunctualStays
  BY DEF HbInv
<1> QED  BY <1>1, HbInvariance, PTL

\* Unless a write waits or fails, no connection outlives two intervals of silence
\* after a ping.
THEOREM Silent == HbSpec => []SilentIsDropped
<1>1. HbInv => SilentIsDropped
  BY DEF HbInv, Ages, OldestPing, SilentIsDropped, PING_INTERVAL, None
<1> QED  BY <1>1, HbInvariance, PTL
================================================================================
