------------------------- MODULE StreamConsumerProofs --------------------------
(****************************************************************************)
(* For every number of tasks, processes, messages and deaths, and for every *)
(* page size: no message the group has given out is settled before a        *)
(* handler returned for it, and none is handled twice before it was stale.  *)
(****************************************************************************)
EXTENDS StreamConsumer, SequenceTheorems, TLAPS

Labels == {"summary", "page", "claim", "read", "handle", "run", "ack", "dead"}

\* The shape of the group's state and of the tasks' locals.
StTypeOK ==
  /\ added \in 0..MaxMsgs /\ delivered \in 0..added
  /\ pel \in [Msgs -> {"none", "fresh", "stale"}]
  /\ pc \in [Tasks -> Labels]
  /\ page \in [Tasks -> SUBSET Msgs]
  /\ batch \in [Tasks -> Seq(Msgs)]
  /\ handled \in [Msgs -> 0..2]
  /\ late \subseteq Msgs

\* What was not read is in nobody's hands.
Unread ==
  \A m \in Msgs : m > delivered => pel[m] = "none" /\ handled[m] = 0 /\ m \notin late

StaleIsLate == \A m \in Msgs : pel[m] = "stale" => m \in late

\* What a task has in hand was read by somebody; it has something in hand when it
\* handles or acknowledges, and acknowledges only what some handler returned for.
InHand ==
  \A c \in Tasks :
    /\ pc[c] \in {"summary", "read", "dead"} => batch[c] = <<>>
    /\ pc[c] \in {"run", "ack"} => batch[c] # <<>>
    /\ pc[c] = "ack" => handled[Head(batch[c])] > 0
    /\ \A i \in DOMAIN batch[c] : batch[c][i] <= delivered

Has(c, m) == \E i \in DOMAIN batch[c] : batch[c][i] = m

\* A message that was never stale came from the stream, alone, to one task, and
\* is not handled before that task acknowledges it.
Prompt ==
  \A c \in Tasks, m \in Msgs :
    Has(c, m) /\ m \notin late =>
      /\ pc[c] \in {"handle", "run", "ack"}
      /\ Len(batch[c]) = 1
      /\ pc[c] # "ack" => handled[m] = 0
      /\ \A d \in Tasks : Has(d, m) => d = c

IInv ==
  /\ StTypeOK /\ Unread /\ StaleIsLate /\ InHand /\ Prompt
  /\ NothingLost /\ RepeatsOnlyLate

--------------------------------------------------------------------------------
LEMMA InitIInv == StreamInit => IInv
<1> SUFFICES ASSUME StreamInit PROVE IInv
  OBVIOUS
<1> USE DEF StreamInit
<1>1. MaxMsgs \in Nat
  BY BoundsAssumption
<1>2. StTypeOK
  BY <1>1 DEF StTypeOK, Labels, Msgs
<1>3. Unread /\ StaleIsLate /\ NothingLost /\ RepeatsOnlyLate
  BY <1>1 DEF Unread, StaleIsLate, NothingLost, RepeatsOnlyLate, Msgs
<1>4. \A c \in Tasks : batch[c] = <<>> /\ pc[c] = "summary"
  OBVIOUS
<1>5. InHand /\ Prompt
  BY <1>4 DEF InHand, Prompt, Has
<1> QED BY <1>2, <1>3, <1>5 DEF IInv

\* What is left in hand after the first message is done.
LEMMA TailOf ==
  ASSUME NEW s \in Seq(Msgs), s # <<>>
  PROVE  /\ Tail(s) \in Seq(Msgs) /\ Head(s) \in Msgs /\ Head(s) = s[1]
         /\ 1 \in DOMAIN s
         /\ \A i \in DOMAIN Tail(s) :
              i + 1 \in DOMAIN s /\ i + 1 # 1 /\ Tail(s)[i] = s[i + 1] /\ Len(s) # 1
<1>1. /\ Tail(s) \in Seq(Msgs) /\ Len(Tail(s)) = Len(s) - 1 /\ Head(s) \in Msgs
      /\ \A i \in 1..Len(Tail(s)) : Tail(s)[i] = s[i + 1]
  BY HeadTailProperties
<1>2. DOMAIN s = 1..Len(s) /\ Len(s) \in Nat \ {0}
  BY EmptySeq, LenProperties
<1>3. DOMAIN Tail(s) = 1..Len(Tail(s))
  BY <1>1, LenProperties
<1>4. Head(s) = s[1]
  OBVIOUS
<1> QED BY <1>1, <1>2, <1>3, <1>4

\* How a task may move without new messages: not at all, on with what it has, with
\* nothing any more, or with one message less.
Quiet(d) ==
  \/ batch'[d] = batch[d] /\ pc'[d] = pc[d]
  \/ /\ batch'[d] = batch[d] /\ pc[d] # "ack" /\ pc'[d] # "ack"
     /\ pc'[d] = "run" => batch[d] # <<>>
     /\ pc'[d] \in {"summary", "read", "dead"} => batch[d] = <<>>
     /\ pc[d] \in {"handle", "run"} => pc'[d] \in {"handle", "run"} \/ batch[d] = <<>>
  \/ batch'[d] = <<>> /\ pc'[d] \notin {"run", "ack"}
  \/ /\ batch[d] # <<>> /\ batch'[d] = Tail(batch[d])
     /\ pc'[d] = "handle"

\* Such moves keep the invariant, also when a handled message is settled.
LEMMA QuietIInv ==
  ASSUME IInv,
         pc' \in [Tasks -> Labels], page' \in [Tasks -> SUBSET Msgs],
         batch' \in [Tasks -> Seq(Msgs)], pel' \in [Msgs -> {"none", "fresh", "stale"}],
         UNCHANGED <<added, delivered, late, handled>>,
         \A m \in Msgs : pel'[m] = pel[m] \/ (pel'[m] = "none" /\ handled[m] > 0),
         \A d \in Tasks : Quiet(d)
  PROVE  IInv'
<1> USE DEF IInv
<1>1. StTypeOK'
  BY DEF StTypeOK
<1>2. (Unread /\ StaleIsLate /\ RepeatsOnlyLate)'
  BY DEF Unread, StaleIsLate, RepeatsOnlyLate
<1>3. NothingLost'
  <2>1. \A m \in 1..delivered : m \in Msgs
    BY BoundsAssumption DEF StTypeOK, Msgs
  <2> QED BY <2>1 DEF NothingLost
<1>4. \A d \in Tasks : \A i \in DOMAIN batch'[d] :
        /\ \E j \in DOMAIN batch[d] : batch[d][j] = batch'[d][i]
        /\ batch'[d] = batch[d] \/ Len(batch[d]) # 1
  <2> SUFFICES ASSUME NEW d \in Tasks, NEW i \in DOMAIN batch'[d]
               PROVE  /\ \E j \in DOMAIN batch[d] : batch[d][j] = batch'[d][i]
                      /\ batch'[d] = batch[d] \/ Len(batch[d]) # 1
    OBVIOUS
  <2>1. CASE batch'[d] = batch[d]
    BY <2>1
  <2>2. CASE batch[d] # <<>> /\ batch'[d] = Tail(batch[d])
    <3>1. batch[d] \in Seq(Msgs)
      BY DEF StTypeOK
    <3>2. i + 1 \in DOMAIN batch[d] /\ batch'[d][i] = batch[d][i + 1] /\ Len(batch[d]) # 1
      BY <2>2, <3>1, TailOf
    <3> QED BY <3>2
  <2>3. batch'[d] # <<>>
    OBVIOUS
  <2> QED BY <2>1, <2>2, <2>3 DEF Quiet
<1>5. InHand'
  <2> SUFFICES ASSUME NEW d \in Tasks
               PROVE  /\ pc'[d] \in {"summary", "read", "dead"} => batch'[d] = <<>>
                      /\ pc'[d] \in {"run", "ack"} => batch'[d] # <<>>
                      /\ pc'[d] = "ack" => handled[Head(batch'[d])] > 0
                      /\ \A i \in DOMAIN batch'[d] : batch'[d][i] <= delivered
    BY DEF InHand
  <2>1. \A i \in DOMAIN batch'[d] : batch'[d][i] <= delivered
    BY <1>4 DEF InHand
  <2>2. /\ pc'[d] \in {"summary", "read", "dead"} => batch'[d] = <<>>
        /\ pc'[d] \in {"run", "ack"} => batch'[d] # <<>>
        /\ pc'[d] = "ack" => handled[Head(batch'[d])] > 0
    BY DEF InHand, Quiet
  <2> QED BY <2>1, <2>2
<1>6. Prompt'
  <2> SUFFICES ASSUME NEW c \in Tasks, NEW m \in Msgs, Has(c, m)', m \notin late
               PROVE  /\ pc'[c] \in {"handle", "run", "ack"}
                      /\ Len(batch'[c]) = 1
                      /\ pc'[c] # "ack" => handled[m] = 0
                      /\ \A d \in Tasks : Has(d, m)' => d = c
    BY DEF Prompt
  <2>1. \A d \in Tasks : Has(d, m)' => Has(d, m)
    BY <1>4 DEF Has
  <2>2. /\ pc[c] \in {"handle", "run", "ack"} /\ Len(batch[c]) = 1
        /\ pc[c] # "ack" => handled[m] = 0
        /\ \A d \in Tasks : Has(d, m) => d = c
    BY <2>1 DEF Prompt
  <2>3. batch'[c] = batch[c] /\ batch[c] # <<>>
    BY <1>4, <2>1, <2>2 DEF Has
  <2>4. batch[c] # Tail(batch[c])
    <3>1. batch[c] \in Seq(Msgs)
      BY DEF StTypeOK
    <3>2. Len(Tail(batch[c])) = Len(batch[c]) - 1
      BY <2>3, <3>1, HeadTailProperties
    <3>3. Len(Tail(batch[c])) = 0
      BY <2>2, <3>2
    <3>4. ASSUME batch[c] = Tail(batch[c]) PROVE FALSE
      <4>1. Len(batch[c]) = Len(Tail(batch[c]))
        BY ONLY <3>4, Zenon
      <4>2. Len(batch[c]) = 0
        BY ONLY <3>3, <4>1, Zenon
      <4>3. Len(batch[c]) = 1
        BY <2>2
      <4> QED BY ONLY <4>2, <4>3
    <3> QED BY <3>4
  <2>5. pc'[c] \in {"handle", "run", "ack"} /\ (pc'[c] # "ack" => handled[m] = 0)
    BY <2>2, <2>3, <2>4 DEF Quiet
  <2> QED BY <2>1, <2>2, <2>3, <2>5
<1> QED BY <1>1, <1>2, <1>3, <1>5, <1>6

--------------------------------------------------------------------------------
(****************************************************************************)
(* The actions.                                                             *)
(****************************************************************************)

\* The steps that bring no message and change nothing but one task's place.
LEMMA MoveIInv ==
  ASSUME IInv, NEW c \in Tasks,
         \/ XPending(c) \/ XPendingRange(c) \/ EndPage(c) \/ EndBatch(c) \/ Restart(c)
  PROVE  IInv'
<1>1. PICK label \in Labels : Goto(c, label)
  BY DEF XPending, XPendingRange, EndPage, EndBatch, Restart, Labels
<1>2. /\ batch' = batch
      /\ UNCHANGED <<added, delivered, late, handled, pel>>
  BY DEF XPending, XPendingRange, EndPage, EndBatch, Restart, groupVars
<1>3. page' \in [Tasks -> SUBSET Msgs]
  <2>1. page' = page \/ page' = [page EXCEPT ![c] = {m \in Detailed(cursor[c]) : pel[m] = "stale"}]
    BY DEF XPending, XPendingRange, EndPage, EndBatch, Restart, groupVars
  <2>2. {m \in Detailed(cursor[c]) : pel[m] = "stale"} \subseteq Msgs
    BY DEF Detailed, Pending
  <2>3. page \in [Tasks -> SUBSET Msgs]
    BY DEF IInv, StTypeOK
  <2> QED BY <2>1, <2>2, <2>3
<1>4. /\ pc \in [Tasks -> Labels] /\ pc' = [pc EXCEPT ![c] = label]
      /\ batch \in [Tasks -> Seq(Msgs)] /\ pel \in [Msgs -> {"none", "fresh", "stale"}]
  BY <1>1 DEF IInv, StTypeOK, Goto
<1>5. \A d \in Tasks : Quiet(d)
  <2>1. \A d \in Tasks \ {c} : Quiet(d)
    BY <1>2, <1>4 DEF Quiet
  <2>2. pc'[c] = label
    BY <1>4
  <2>3. Quiet(c)
    <3>1. CASE XPending(c)
      BY <1>2, <1>4, <2>2, <3>1 DEF Quiet, XPending, Goto
    <3>2. CASE XPendingRange(c)
      BY <1>2, <1>4, <2>2, <3>2 DEF Quiet, XPendingRange, Goto
    <3>3. CASE EndPage(c)
      BY <1>2, <1>4, <2>2, <3>3 DEF Quiet, EndPage, Goto
    <3>4. CASE EndBatch(c)
      BY <1>2, <1>4, <2>2, <3>4 DEF Quiet, EndBatch, Goto
    <3>5. CASE Restart(c)
      <4>1. batch[c] = <<>>
        BY <3>5 DEF Restart, IInv, InHand
      <4> QED BY <1>2, <1>4, <2>2, <3>5, <4>1 DEF Quiet, Restart, Goto
    <3> QED BY <3>1, <3>2, <3>3, <3>4, <3>5
  <2> QED BY <2>1, <2>3
<1>6. pc' \in [Tasks -> Labels]
  BY <1>4
<1> QED BY <1>2, <1>3, <1>4, <1>5, <1>6, QuietIInv

\* A message is passed over, taken up, or done with, well or not.
LEMMA WorkIInv ==
  ASSUME IInv, NEW c \in Tasks,
         Start(c) \/ HandlerRaises(c) \/ Ack(c)
  PROVE  IInv'
<1>1. /\ pc \in [Tasks -> Labels] /\ batch \in [Tasks -> Seq(Msgs)]
      /\ pel \in [Msgs -> {"none", "fresh", "stale"}]
      /\ page \in [Tasks -> SUBSET Msgs]
  BY DEF IInv, StTypeOK
<1>2. /\ page' = page
      /\ UNCHANGED <<added, delivered, late, handled>>
  BY DEF Start, HandlerRaises, Ack, Release, groupVars
<1>3. batch[c] # <<>>
  BY DEF Start, HandlerRaises, Ack, IInv, InHand
<1>4. batch[c] \in Seq(Msgs) /\ Tail(batch[c]) \in Seq(Msgs) /\ Head(batch[c]) \in Msgs
  BY <1>1, <1>3, TailOf
<1>5. \/ batch' = batch /\ pc[c] = "handle" /\ pc' = [pc EXCEPT ![c] = "run"]
      \/ batch' = [batch EXCEPT ![c] = Tail(@)] /\ pc[c] = "handle" /\ pc' = pc
      \/ batch' = [batch EXCEPT ![c] = Tail(@)] /\ pc' = [pc EXCEPT ![c] = "handle"]
  BY DEF Start, HandlerRaises, Ack, Release, Goto
<1>6. pc' \in [Tasks -> Labels] /\ batch' \in [Tasks -> Seq(Msgs)]
  BY <1>1, <1>4, <1>5 DEF Labels
<1>7. \A d \in Tasks : Quiet(d)
  <2>1. \A d \in Tasks \ {c} : batch'[d] = batch[d] /\ pc'[d] = pc[d]
    BY <1>1, <1>5
  <2>2. CASE batch' = batch /\ pc[c] = "handle" /\ pc' = [pc EXCEPT ![c] = "run"]
    BY <1>1, <1>3, <2>1, <2>2 DEF Quiet
  <2>3. CASE batch' = [batch EXCEPT ![c] = Tail(@)] /\ pc[c] = "handle" /\ pc' = pc
    BY <1>1, <1>3, <2>1, <2>3 DEF Quiet
  <2>4. CASE batch' = [batch EXCEPT ![c] = Tail(@)] /\ pc' = [pc EXCEPT ![c] = "handle"]
    BY <1>1, <1>3, <2>1, <2>4 DEF Quiet
  <2> QED BY <1>5, <2>2, <2>3, <2>4
<1>8. \A m \in Msgs : pel'[m] = pel[m] \/ (pel'[m] = "none" /\ handled[m] > 0)
  <2>1. CASE pel' = pel
    BY <2>1
  <2>2. CASE pel' # pel
    <3>1. pc[c] = "ack" /\ pel' = [pel EXCEPT ![Head(batch[c])] = "none"]
      BY <2>2 DEF Start, HandlerRaises, Ack, groupVars, Current
    <3>2. handled[Head(batch[c])] > 0
      BY <3>1 DEF IInv, InHand
    <3> QED BY <1>1, <3>1, <3>2
  <2> QED BY <2>1, <2>2
<1>9. pel' \in [Msgs -> {"none", "fresh", "stale"}]
  BY <1>1, <1>4 DEF Start, HandlerRaises, Ack, groupVars, Current
<1>10. page' \in [Tasks -> SUBSET Msgs]
  BY <1>1, <1>2
<1> QED BY <1>2, <1>6, <1>7, <1>8, <1>9, <1>10, QuietIInv

\* Tasks die, one or those of a process, with what they had in hand.
LEMMA FaultIInv ==
  ASSUME IInv,
         (\E c \in Tasks : Dies(c) \/ StartRaises(c)) \/ (\E i \in Instances : Crash(i))
  PROVE  IInv'
<1>1. /\ pc \in [Tasks -> Labels] /\ batch \in [Tasks -> Seq(Msgs)]
      /\ pel \in [Msgs -> {"none", "fresh", "stale"}]
      /\ page \in [Tasks -> SUBSET Msgs]
  BY DEF IInv, StTypeOK
<1>2. UNCHANGED <<added, delivered, late, handled, pel>>
  BY DEF Dies, StartRaises, Crash, groupVars
<1>3. <<>> \in Seq(Msgs)
  OBVIOUS
<1>4. /\ pc' \in [Tasks -> Labels] /\ page' \in [Tasks -> SUBSET Msgs]
      /\ batch' \in [Tasks -> Seq(Msgs)]
      /\ \A d \in Tasks : \/ batch'[d] = batch[d] /\ pc'[d] = pc[d]
                          \/ batch'[d] = <<>> /\ pc'[d] = "dead"
  <2>1. CASE \E c \in Tasks : Dies(c)
    BY <1>1, <1>3, <2>1 DEF Dies, Goto, Labels
  <2>2. CASE \E i \in Instances : Crash(i)
    BY <1>1, <1>3, <2>2 DEF Crash, Labels
  <2>3. CASE \E c \in Tasks : StartRaises(c)
    BY <1>1, <1>3, <2>3 DEF StartRaises, Goto, Labels
  <2> QED BY <2>1, <2>2, <2>3
<1>5. \A d \in Tasks : Quiet(d)
  BY <1>4 DEF Quiet
<1>6. pel' \in [Msgs -> {"none", "fresh", "stale"}]
  BY <1>1, <1>2
<1> QED BY <1>2, <1>4, <1>5, <1>6, QuietIInv

\* The stream grows, and entries grow stale.
LEMMA TimeIInv ==
  ASSUME IInv, XAdd \/ (\E m \in Msgs : GrowStale(m))
  PROVE  IInv'
<1> USE BoundsAssumption
<1>1. CASE XAdd
  <2>1. UNCHANGED <<delivered, pel, late, pc, page, batch, handled>> /\ added' = added + 1
    BY <1>1 DEF XAdd, loopVars
  <2>2. StTypeOK'
    BY <1>1, <2>1 DEF IInv, StTypeOK, XAdd
  <2>3. (Unread /\ StaleIsLate /\ InHand /\ Prompt /\ NothingLost /\ RepeatsOnlyLate)'
    BY <2>1 DEF IInv, Unread, StaleIsLate, InHand, Prompt, NothingLost, RepeatsOnlyLate, Has
  <2> QED BY <2>2, <2>3 DEF IInv
<1>2. ASSUME NEW m \in Msgs, GrowStale(m) PROVE IInv'
  <2>1. /\ UNCHANGED <<added, delivered, pc, page, batch, handled>>
        /\ pel[m] = "fresh" /\ pel' = [pel EXCEPT ![m] = "stale"] /\ late' = late \union {m}
    BY <1>2 DEF GrowStale, loopVars
  <2>2. StTypeOK'
    BY <2>1 DEF IInv, StTypeOK
  <2>3. pel \in [Msgs -> {"none", "fresh", "stale"}] /\ delivered \in Nat
    BY DEF IInv, StTypeOK
  <2>4. m <= delivered
    BY <2>1, <2>3 DEF IInv, Unread, Msgs
  <2>5. (Unread /\ StaleIsLate)'
    BY <2>1, <2>3, <2>4 DEF IInv, Unread, StaleIsLate, Msgs
  <2>6. (InHand /\ Prompt /\ RepeatsOnlyLate)'
    BY <2>1 DEF IInv, InHand, Prompt, RepeatsOnlyLate, Has
  <2>7. NothingLost'
    <3>1. \A n \in 1..delivered : n \in Msgs
      BY DEF IInv, StTypeOK, Msgs
    <3> QED BY <2>1, <2>3, <3>1 DEF IInv, NothingLost
  <2> QED BY <2>2, <2>5, <2>6, <2>7 DEF IInv
<1> QED BY <1>1, <1>2

\* A stale entry is claimed, or turns out to be settled or claimed already.
LEMMA XClaimIInv ==
  ASSUME IInv, NEW c \in Tasks, XClaim(c)
  PROVE  IInv'
<1>1. /\ pc \in [Tasks -> Labels] /\ batch \in [Tasks -> Seq(Msgs)]
      /\ pel \in [Msgs -> {"none", "fresh", "stale"}]
      /\ page \in [Tasks -> SUBSET Msgs] /\ late \subseteq Msgs
      /\ delivered \in Nat
  BY BoundsAssumption DEF IInv, StTypeOK
<1>2. UNCHANGED <<added, delivered, late, handled, pc>> /\ pc[c] = "claim"
  BY DEF XClaim
<1>3. PICK m \in Msgs :
        /\ page' = [page EXCEPT ![c] = @ \ {m}]
        /\ \/ /\ pel[m] = "stale"
              /\ pel' = [pel EXCEPT ![m] = "fresh"]
              /\ batch' = [batch EXCEPT ![c] = Append(@, m)]
           \/ /\ UNCHANGED <<pel, batch>>
  BY <1>1 DEF XClaim
<1>4. page' \in [Tasks -> SUBSET Msgs]
  BY <1>1, <1>3
<1>5. CASE UNCHANGED <<pel, batch>>
  <2>1. \A d \in Tasks : Quiet(d)
    BY <1>2, <1>5 DEF Quiet
  <2>2. /\ pc' \in [Tasks -> Labels] /\ batch' \in [Tasks -> Seq(Msgs)]
        /\ pel' \in [Msgs -> {"none", "fresh", "stale"}]
        /\ \A n \in Msgs : pel'[n] = pel[n]
    BY <1>1, <1>2, <1>5
  <2> QED BY <1>2, <1>4, <2>1, <2>2, QuietIInv
<1>6. CASE /\ pel[m] = "stale" /\ pel' = [pel EXCEPT ![m] = "fresh"]
           /\ batch' = [batch EXCEPT ![c] = Append(@, m)]
  <2>1. m \in late /\ m <= delivered
    BY <1>1, <1>6 DEF IInv, StaleIsLate, Unread, Msgs
  <2>2. batch[c] \in Seq(Msgs)
    BY <1>1
  <2>3. /\ batch'[c] = Append(batch[c], m)
        /\ \A d \in Tasks \ {c} : batch'[d] = batch[d]
    BY <1>1, <1>6
  <2>4. Append(batch[c], m) \in Seq(Msgs)
    BY <2>2
  <2>5. \A i \in DOMAIN batch'[c] :
          \/ batch'[c][i] = m
          \/ i \in DOMAIN batch[c] /\ batch'[c][i] = batch[c][i]
    BY <2>2, <2>3
  <2>6. \A d \in Tasks, x \in Msgs : x \notin late /\ Has(d, x)' => Has(d, x)
    BY <2>1, <2>3, <2>5 DEF Has
  <2>7. \A x \in Msgs : x \notin late => ~Has(c, x)'
    BY <1>2, <2>6 DEF IInv, Prompt
  <2>8. StTypeOK'
    BY <1>1, <1>2, <1>4, <1>6, <2>4 DEF IInv, StTypeOK
  <2>9. (Unread /\ StaleIsLate /\ RepeatsOnlyLate)'
    BY <1>1, <1>2, <1>6, <2>1 DEF IInv, Unread, StaleIsLate, RepeatsOnlyLate, Msgs
  <2>10. NothingLost'
    <3>1. \A n \in 1..delivered : n \in Msgs
      BY BoundsAssumption DEF IInv, StTypeOK, Msgs
    <3> QED BY <1>1, <1>2, <1>6, <3>1 DEF IInv, NothingLost
  <2>11. InHand'
    <3> SUFFICES ASSUME NEW d \in Tasks
                 PROVE  /\ pc[d] \in {"summary", "read", "dead"} => batch'[d] = <<>>
                        /\ pc[d] \in {"run", "ack"} => batch'[d] # <<>>
                        /\ pc[d] = "ack" => handled[Head(batch'[d])] > 0
                        /\ \A i \in DOMAIN batch'[d] : batch'[d][i] <= delivered
      BY <1>2 DEF InHand
    <3>1. CASE d = c
      BY <1>2, <2>1, <2>5, <3>1 DEF IInv, InHand
    <3>2. CASE d # c
      BY <2>3, <3>2 DEF IInv, InHand
    <3> QED BY <3>1, <3>2
  <2>12. Prompt'
    <3> SUFFICES ASSUME NEW d \in Tasks, NEW x \in Msgs, Has(d, x)', x \notin late
                 PROVE  /\ pc[d] \in {"handle", "run", "ack"}
                        /\ Len(batch'[d]) = 1
                        /\ pc[d] # "ack" => handled[x] = 0
                        /\ \A e \in Tasks : Has(e, x)' => e = d
      BY <1>2 DEF Prompt
    <3>1. d # c /\ batch'[d] = batch[d] /\ Has(d, x)
      BY <2>3, <2>6, <2>7
    <3>2. \A e \in Tasks : Has(e, x)' => Has(e, x)
      BY <2>6
    <3> QED BY <3>1, <3>2 DEF IInv, Prompt
  <2> QED BY <2>8, <2>9, <2>10, <2>11, <2>12 DEF IInv
<1> QED BY <1>3, <1>5, <1>6

\* A new entry is read, by one task with nothing in hand, or the block time expires.
LEMMA XReadGroupIInv ==
  ASSUME IInv, NEW c \in Tasks, XReadGroup(c)
  PROVE  IInv'
<1>1. /\ pc \in [Tasks -> Labels] /\ batch \in [Tasks -> Seq(Msgs)]
      /\ pel \in [Msgs -> {"none", "fresh", "stale"}]
      /\ page \in [Tasks -> SUBSET Msgs] /\ handled \in [Msgs -> 0..2]
      /\ added \in Nat /\ added <= MaxMsgs /\ delivered \in Nat
  BY BoundsAssumption DEF IInv, StTypeOK
<1>2. /\ UNCHANGED <<added, late, page, handled>>
      /\ pc[c] = "read" /\ pc' = [pc EXCEPT ![c] = "handle"]
      /\ batch[c] = <<>>
  BY DEF XReadGroup, Goto, IInv, InHand
<1>3. pc' \in [Tasks -> Labels] /\ pc'[c] = "handle" /\ \A d \in Tasks \ {c} : pc'[d] = pc[d]
  BY <1>1, <1>2 DEF Labels
<1>4. CASE UNCHANGED <<delivered, pel, batch>>
  <2>1. \A d \in Tasks : Quiet(d)
    BY <1>2, <1>3, <1>4 DEF Quiet
  <2>2. /\ page' \in [Tasks -> SUBSET Msgs] /\ batch' \in [Tasks -> Seq(Msgs)]
        /\ pel' \in [Msgs -> {"none", "fresh", "stale"}]
        /\ \A n \in Msgs : pel'[n] = pel[n]
    BY <1>1, <1>2, <1>4
  <2> QED BY <1>2, <1>3, <1>4, <2>1, <2>2, QuietIInv
<1>5. CASE /\ delivered < added /\ delivered' = delivered + 1
           /\ pel' = [pel EXCEPT ![delivered + 1] = "fresh"]
           /\ batch' = [batch EXCEPT ![c] = <<delivered + 1>>]
  <2> DEFINE n == delivered + 1
  <2>1. n \in Msgs /\ n > delivered
    BY <1>1, <1>5, BoundsAssumption DEF Msgs
  <2>2. <<n>> \in Seq(Msgs) /\ Len(<<n>>) = 1 /\ DOMAIN <<n>> = {1} /\ <<n>>[1] = n
    BY <2>1
  <2>3. batch'[c] = <<n>> /\ \A d \in Tasks \ {c} : batch'[d] = batch[d]
    BY <1>1, <1>5
  <2>4. /\ pel'[n] = "fresh" /\ \A x \in Msgs \ {n} : pel'[x] = pel[x]
    BY <1>1, <1>5, <2>1
  <2>5. handled[n] = 0
    BY <2>1 DEF IInv, Unread
  <2>6. \A d \in Tasks : ~Has(d, n)
    <3> SUFFICES ASSUME NEW d \in Tasks, Has(d, n) PROVE FALSE
      OBVIOUS
    <3>1. PICK i \in DOMAIN batch[d] : batch[d][i] = n
      BY DEF Has
    <3>2. n <= delivered
      BY <3>1 DEF IInv, InHand
    <3> QED BY <1>1, <3>2
  <2>7. \A x \in Msgs : Has(c, x)' <=> x = n
    BY <2>2, <2>3 DEF Has
  <2>8. \A d \in Tasks \ {c}, x \in Msgs : Has(d, x)' <=> Has(d, x)
    BY <2>3 DEF Has
  <2>9. StTypeOK'
    <3>1. /\ pel' \in [Msgs -> {"none", "fresh", "stale"}]
          /\ batch' \in [Tasks -> Seq(Msgs)]
      BY <1>1, <1>5, <2>1, <2>2
    <3>2. delivered' \in 0..added'
      BY <1>1, <1>2, <1>5
    <3> QED BY <1>2, <1>3, <3>1, <3>2 DEF IInv, StTypeOK
  <2>10. Unread'
    <3> SUFFICES ASSUME NEW x \in Msgs, x > n
                 PROVE  pel'[x] = "none" /\ handled[x] = 0 /\ x \notin late
      BY <1>2, <1>5 DEF Unread
    <3>1. x > delivered /\ x # n
      BY <1>1 DEF Msgs
    <3> QED BY <2>4, <3>1 DEF IInv, Unread
  <2>11. (StaleIsLate /\ RepeatsOnlyLate)'
    BY <1>2, <2>1, <2>4 DEF IInv, StaleIsLate, RepeatsOnlyLate
  <2>12. NothingLost'
    <3> SUFFICES ASSUME NEW x \in 1..n, pel'[x] = "none" PROVE handled[x] > 0
      BY <1>2, <1>5 DEF NothingLost
    <3>1. x # n /\ x \in 1..delivered
      <4>1. x # n
        BY <2>4
      <4>2. x \in Int /\ x <= n
        OBVIOUS
      <4> QED BY <1>1, <4>1, <4>2
    <3>2. x \in Msgs
      BY <1>1, <3>1, BoundsAssumption, <1>5 DEF Msgs
    <3> QED BY <2>4, <3>1, <3>2 DEF IInv, NothingLost
  <2>13. InHand'
    <3> SUFFICES ASSUME NEW d \in Tasks
                 PROVE  /\ pc'[d] \in {"summary", "read", "dead"} => batch'[d] = <<>>
                        /\ pc'[d] \in {"run", "ack"} => batch'[d] # <<>>
                        /\ pc'[d] = "ack" => handled[Head(batch'[d])] > 0
                        /\ \A i \in DOMAIN batch'[d] : batch'[d][i] <= n
      BY <1>2, <1>5 DEF InHand
    <3>1. CASE d = c
      BY <1>1, <1>3, <2>2, <2>3, <3>1
    <3>2. CASE d # c
      <4>1. batch'[d] = batch[d] /\ pc'[d] = pc[d]
        BY <1>3, <2>3, <3>2
      <4>2. \A i \in DOMAIN batch[d] : batch[d][i] <= delivered /\ batch[d][i] \in Msgs
        BY <1>1 DEF IInv, InHand
      <4>3. \A i \in DOMAIN batch[d] : batch[d][i] <= n
        BY <1>1, <4>2 DEF Msgs
      <4> QED BY <4>1, <4>3 DEF IInv, InHand
    <3> QED BY <3>1, <3>2
  <2>14. Prompt'
    <3> SUFFICES ASSUME NEW d \in Tasks, NEW x \in Msgs, Has(d, x)', x \notin late
                 PROVE  /\ pc'[d] \in {"handle", "run", "ack"}
                        /\ Len(batch'[d]) = 1
                        /\ pc'[d] # "ack" => handled[x] = 0
                        /\ \A e \in Tasks : Has(e, x)' => e = d
      BY <1>2 DEF Prompt
    <3>1. CASE d = c
      <4>1. x = n
        BY <2>7, <3>1
      <4>2. \A e \in Tasks : Has(e, x)' => e = c
        BY <2>6, <2>8, <4>1
      <4> QED BY <1>3, <2>2, <2>3, <2>5, <3>1, <4>1, <4>2
    <3>2. CASE d # c
      <4>1. Has(d, x) /\ x # n
        BY <2>6, <2>8, <3>2
      <4>2. \A e \in Tasks : Has(e, x)' => Has(e, x)
        BY <2>7, <2>8, <4>1
      <4>3. batch'[d] = batch[d] /\ pc'[d] = pc[d]
        BY <1>3, <2>3, <3>2
      <4> QED BY <4>1, <4>2, <4>3 DEF IInv, Prompt
    <3> QED BY <3>1, <3>2
  <2> QED BY <2>9, <2>10, <2>11, <2>12, <2>13, <2>14 DEF IInv
<1> QED BY <1>4, <1>5 DEF XReadGroup

\* The handler returns: the first time, when the message was never stale.
LEMMA ReturnIInv ==
  ASSUME IInv, NEW c \in Tasks, NEW m \in Msgs, HandlerReturns(c, m)
  PROVE  IInv'
<1>1. /\ pc \in [Tasks -> Labels] /\ batch \in [Tasks -> Seq(Msgs)]
      /\ handled \in [Msgs -> 0..2] /\ delivered \in Nat
  BY BoundsAssumption DEF IInv, StTypeOK
<1>2. /\ UNCHANGED <<added, delivered, pel, late, page, batch>>
      /\ pc[c] = "run" /\ pc' = [pc EXCEPT ![c] = "ack"]
      /\ handled' = [handled EXCEPT ![m] = IF @ < 2 THEN @ + 1 ELSE @]
      /\ Head(batch[c]) = m
  BY DEF HandlerReturns, Goto, groupVars, Current
<1>3. batch[c] # <<>>
  BY <1>2 DEF IInv, InHand
<1>4. 1 \in DOMAIN batch[c] /\ batch[c][1] = m
  BY <1>1, <1>2, <1>3, TailOf
<1>5. Has(c, m)
  BY <1>4 DEF Has
<1>6. m <= delivered
  BY <1>4 DEF IInv, InHand
<1>7. /\ pc'[c] = "ack" /\ \A d \in Tasks \ {c} : pc'[d] = pc[d]
      /\ pc' \in [Tasks -> Labels]
  BY <1>1, <1>2 DEF Labels
<1>8. /\ handled' \in [Msgs -> 0..2] /\ handled'[m] > 0
      /\ \A x \in Msgs \ {m} : handled'[x] = handled[x]
      /\ \A x \in Msgs : handled[x] > 0 => handled'[x] > 0
      /\ handled[m] = 0 => handled'[m] = 1
  BY <1>1, <1>2
<1>9. StTypeOK'
  BY <1>2, <1>7, <1>8 DEF IInv, StTypeOK
<1>10. Unread'
  BY <1>1, <1>2, <1>6, <1>8 DEF IInv, Unread, Msgs
<1>11. StaleIsLate'
  BY <1>2 DEF IInv, StaleIsLate
<1>12. NothingLost'
  <2>1. \A x \in 1..delivered : x \in Msgs
    BY BoundsAssumption DEF IInv, StTypeOK, Msgs
  <2> QED BY <1>2, <1>8, <2>1 DEF IInv, NothingLost
<1>13. InHand'
  <2> SUFFICES ASSUME NEW d \in Tasks
               PROVE  /\ pc'[d] \in {"summary", "read", "dead"} => batch[d] = <<>>
                      /\ pc'[d] \in {"run", "ack"} => batch[d] # <<>>
                      /\ pc'[d] = "ack" => handled'[Head(batch[d])] > 0
                      /\ \A i \in DOMAIN batch[d] : batch[d][i] <= delivered
    BY <1>2 DEF InHand
  <2>1. \A i \in DOMAIN batch[d] : batch[d][i] <= delivered
    BY DEF IInv, InHand
  <2>2. CASE d = c
    BY <1>2, <1>3, <1>7, <1>8, <2>1, <2>2
  <2>3. CASE d # c
    <3>1. pc'[d] = pc[d]
      BY <1>7, <2>3
    <3>2. /\ pc[d] \in {"summary", "read", "dead"} => batch[d] = <<>>
          /\ pc[d] \in {"run", "ack"} => batch[d] # <<>>
          /\ pc[d] = "ack" => handled[Head(batch[d])] > 0
      BY DEF IInv, InHand
    <3>3. batch[d] # <<>> => Head(batch[d]) \in Msgs
      BY <1>1, TailOf
    <3> QED BY <1>8, <2>1, <3>1, <3>2, <3>3
  <2> QED BY <2>2, <2>3
<1>14. m \notin late => handled[m] = 0 /\ \A d \in Tasks : Has(d, m) => d = c
  BY <1>2, <1>5 DEF IInv, Prompt
<1>15. Prompt'
  <2> SUFFICES ASSUME NEW d \in Tasks, NEW x \in Msgs, Has(d, x), x \notin late
               PROVE  /\ pc'[d] \in {"handle", "run", "ack"}
                      /\ Len(batch[d]) = 1
                      /\ pc'[d] # "ack" => handled'[x] = 0
                      /\ \A e \in Tasks : Has(e, x) => e = d
    BY <1>2 DEF Prompt, Has
  <2>1. /\ pc[d] \in {"handle", "run", "ack"} /\ Len(batch[d]) = 1
        /\ pc[d] # "ack" => handled[x] = 0
        /\ \A e \in Tasks : Has(e, x) => e = d
    BY DEF IInv, Prompt
  <2>2. CASE d = c
    BY <1>7, <2>1, <2>2
  <2>3. CASE d # c
    <3>1. x # m
      BY <1>14, <2>3
    <3> QED BY <1>7, <1>8, <2>1, <2>3, <3>1
  <2> QED BY <2>2, <2>3
<1>16. RepeatsOnlyLate'
  <2> SUFFICES ASSUME NEW x \in Msgs, handled'[x] > 1 PROVE x \in late
    BY <1>2 DEF RepeatsOnlyLate
  <2>1. CASE x = m
    BY <1>8, <1>14, <2>1
  <2>2. CASE x # m
    BY <1>8, <2>2 DEF IInv, RepeatsOnlyLate
  <2> QED BY <2>1, <2>2
<1> QED BY <1>9, <1>10, <1>11, <1>12, <1>13, <1>15, <1>16 DEF IInv

LEMMA NextIInv == IInv /\ [StreamNext]_streamVars => IInv'
<1> SUFFICES ASSUME IInv, [StreamNext]_streamVars PROVE IInv'
  OBVIOUS
<1>1. CASE UNCHANGED streamVars
  BY <1>1 DEF streamVars, IInv, StTypeOK, Unread, StaleIsLate, InHand, Prompt, Has,
              NothingLost, RepeatsOnlyLate
<1>2. CASE XAdd \/ \E m \in Msgs : GrowStale(m)
  BY <1>2, TimeIInv
<1>3. ASSUME NEW c \in Tasks, Loop(c) \/ Dies(c) \/ Restart(c) PROVE IInv'
  BY <1>3, MoveIInv, WorkIInv, FaultIInv, XClaimIInv, XReadGroupIInv, ReturnIInv DEF Loop
<1>4. CASE \E i \in Instances : Crash(i)
  BY <1>4, FaultIInv
<1> QED BY <1>1, <1>2, <1>3, <1>4 DEF StreamNext

LEMMA AlwaysIInv == StreamSpec => []IInv
<1> QED BY InitIInv, NextIInv, PTL DEF StreamSpec

--------------------------------------------------------------------------------
\* Whatever tasks and processes die and whoever claims: an entry the group has
\* given out stays pending until some handler has returned for it.
THEOREM Kept == StreamSpec => []NothingLost
<1>1. IInv => NothingLost
  BY DEF IInv
<1> QED BY <1>1, AlwaysIInv, PTL

\* A message is handled a second time only when it was pending for idle_ms once.
THEOREM Once == StreamSpec => []RepeatsOnlyLate
<1>1. IInv => RepeatsOnlyLate
  BY DEF IInv
<1> QED BY <1>1, AlwaysIInv, PTL
================================================================================
