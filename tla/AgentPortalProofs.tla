--------------------------- MODULE AgentPortalProofs ---------------------------
(****************************************************************************)
(* For every set of cases, threads and agents: the inbox keeps each case in *)
(* exactly one place, loses none, and gives it to the first agent filed.    *)
(* The escalation queue in front of it is an inbox of that kind, and nothing *)
(* ends a breach of the SLA but its resolution.                             *)
(****************************************************************************)
EXTENDS EscalationHandOff, SequenceTheorems, TLAPS

\* A section list holds a case at most once.
Distinct(s) == \A i, j \in DOMAIN s : s[i] = s[j] => i = j

\* r is s without its element i.
Removes(S, s, i, r) ==
  /\ r \in Seq(S) /\ Distinct(r)
  /\ \A x : (\E j \in DOMAIN r : r[j] = x) <=> x # s[i] /\ \E j \in DOMAIN s : s[j] = x

\* What list.remove leaves: everything but the removed element, once each.
LEMMA RemoveAtMembers ==
  ASSUME NEW S, NEW s \in Seq(S), NEW i \in DOMAIN s, Distinct(s)
  PROVE  Removes(S, s, i, RemoveAt(s, i))
<1> DEFINE r == RemoveAt(s, i)
<1> DEFINE n == Len(s)
           a == SubSeq(s, 1, i - 1)
           b == SubSeq(s, i + 1, n)
<1>0. n \in Nat /\ DOMAIN s = 1..n /\ i \in 1..n /\ \A j \in 1..n : s[j] \in S
  BY LenProperties, ElementOfSeq
<1>a. a \in Seq(S) /\ Len(a) = i - 1 /\ \A j \in 1..(i - 1) : a[j] = s[j]
  <2> HIDE DEF n
  <2>1. 1 \in Int /\ i - 1 \in Int /\ \A j \in 1..(i - 1) : s[j] \in S
    BY <1>0
  <2>2. /\ a \in Seq(S) /\ Len(a) = IF 1 <= i - 1 THEN (i - 1) - 1 + 1 ELSE 0
        /\ \A j \in 1..((i - 1) - 1 + 1) : a[j] = s[1 + j - 1]
    BY <2>1, SubSeqProperties
  <2> HIDE DEF a
  <2> QED  BY <1>0, <2>2
<1>b. b \in Seq(S) /\ Len(b) = n - i /\ \A j \in 1..(n - i) : b[j] = s[i + j]
  <2> HIDE DEF n
  <2>1. i + 1 \in Int /\ n \in Int /\ \A j \in (i + 1)..n : s[j] \in S
    BY <1>0
  <2>2. /\ b \in Seq(S) /\ Len(b) = IF i + 1 <= n THEN n - (i + 1) + 1 ELSE 0
        /\ \A j \in 1..(n - (i + 1) + 1) : b[j] = s[(i + 1) + j - 1]
    BY <2>1, SubSeqProperties
  <2> HIDE DEF b
  <2>3. Len(b) = n - i /\ n - (i + 1) + 1 = n - i
    BY <1>0, <2>2
  <2>4. \A j \in 1..(n - i) : (i + 1) + j - 1 = i + j
    BY <1>0
  <2> QED  BY <2>2, <2>3, <2>4
<1>c. r = a \o b
  BY DEF RemoveAt
<1>1. /\ r \in Seq(S) /\ Len(r) = Len(a) + Len(b)
      /\ \A j \in 1..(Len(a) + Len(b)) : r[j] = IF j <= Len(a) THEN a[j] ELSE b[j - Len(a)]
  <2> HIDE DEF a, b, r
  <2> QED  BY <1>a, <1>b, <1>c, ConcatProperties
<1> HIDE DEF a, b, r, n
<1>2. r \in Seq(S) /\ Len(r) = n - 1 /\ DOMAIN r = 1..(n - 1)
  BY <1>0, <1>a, <1>b, <1>1, LenProperties
<1>3. \A j \in 1..(n - 1) : r[j] = IF j < i THEN s[j] ELSE s[j+1]
  <2> TAKE j \in 1..(n - 1)
  <2>1. CASE j < i
    BY <1>0, <1>a, <1>b, <1>1, <2>1
  <2>2. CASE ~(j < i)
    <3>1. j - (i - 1) \in 1..(n - i) /\ i + (j - (i - 1)) = j + 1
      BY <1>0, <2>2
    <3>2. j \in 1..(Len(a) + Len(b)) /\ ~(j <= Len(a)) /\ j - Len(a) = j - (i - 1)
      BY <1>0, <1>a, <1>b, <2>2
    <3>3. r[j] = b[j - (i - 1)]
      BY <1>1, <3>2
    <3> QED  BY <1>b, <2>2, <3>1, <3>3
  <2> QED  BY <2>1, <2>2
<1>4. DOMAIN r = 1..(n - 1) /\ DOMAIN s = 1..n /\ n \in Nat /\ i \in 1..n
  BY <1>0, <1>2
<1>5. Distinct(r)
  <2> SUFFICES ASSUME NEW j \in DOMAIN r, NEW k \in DOMAIN r, r[j] = r[k] PROVE j = k
    BY DEF Distinct
  <2>1. PICK u \in DOMAIN s : r[j] = s[u] /\ u = IF j < i THEN j ELSE j + 1
    BY <1>3, <1>4
  <2>2. PICK v \in DOMAIN s : r[k] = s[v] /\ v = IF k < i THEN k ELSE k + 1
    BY <1>3, <1>4
  <2>3. u = v
    BY <2>1, <2>2 DEF Distinct
  <2> QED  BY <1>4, <2>1, <2>2, <2>3
<1>6. ASSUME NEW x, NEW j \in DOMAIN r, r[j] = x
      PROVE  x # s[i] /\ \E k \in DOMAIN s : s[k] = x
  <2>1. CASE j < i
    <3>1. j \in DOMAIN s /\ s[j] = x /\ j # i
      BY <1>3, <1>4, <1>6, <2>1
    <3> QED  BY <3>1 DEF Distinct
  <2>2. CASE ~(j < i)
    <3>1. j + 1 \in DOMAIN s /\ s[j + 1] = x /\ j + 1 # i
      BY <1>3, <1>4, <1>6, <2>2
    <3> QED  BY <3>1 DEF Distinct
  <2> QED  BY <2>1, <2>2
<1>7. ASSUME NEW x, x # s[i], NEW k \in DOMAIN s, s[k] = x
      PROVE  \E j \in DOMAIN r : r[j] = x
  <2>1. CASE k < i
    BY <1>3, <1>4, <1>7, <2>1
  <2>2. CASE k > i
    <3>1. k - 1 \in DOMAIN r /\ r[k-1] = s[k]
      BY <1>3, <1>4, <2>2
    <3> QED  BY <3>1, <1>7
  <2> QED  BY <1>4, <1>7, <2>1, <2>2
<1>8. \A x : (\E j \in DOMAIN r : r[j] = x) <=> x # s[i] /\ \E j \in DOMAIN s : s[j] = x
  BY <1>6, <1>7
<1> QED  BY <1>2, <1>5, <1>8 DEF r, Removes

\* What list.append leaves: one more element, once if it was not there.
LEMMA AppendMembers ==
  ASSUME NEW S, NEW s \in Seq(S), NEW e \in S, Distinct(s),
         \A i \in DOMAIN s : s[i] # e
  PROVE  /\ Append(s, e) \in Seq(S)
         /\ Distinct(Append(s, e))
         /\ \A x : (\E j \in DOMAIN Append(s, e) : Append(s, e)[j] = x)
                     <=> x = e \/ \E j \in DOMAIN s : s[j] = x
<1> DEFINE r == Append(s, e)
<1>1. /\ r \in Seq(S)
      /\ DOMAIN r = 1..(Len(s) + 1) /\ DOMAIN s = 1..Len(s)
      /\ r[Len(s) + 1] = e
      /\ \A j \in 1..Len(s) : r[j] = s[j]
  OBVIOUS
<1> HIDE DEF r
<1>2. Distinct(r)
  BY <1>1 DEF Distinct
<1>3. \A x : (\E j \in DOMAIN r : r[j] = x) <=> x = e \/ \E j \in DOMAIN s : s[j] = x
  <2>1. Len(s) \in Nat
    OBVIOUS
  <2> QED  BY <1>1, <2>1
<1> QED  BY <1>1, <1>2, <1>3 DEF r

--------------------------------------------------------------------------------
(****************************************************************************)
(* The inductive invariant.  AtOnePlace is split into its parts; Locals ties *)
(* the locals of a handler to its pc, and ClaimedLeft says that a case with *)
(* an agent has left Unassigned for good, which is why no claim finds it.   *)
(****************************************************************************)

EachOnce == \A s \in Sections : Distinct(inbox[s])

OneList == \A e \in Escalations, s, r \in Sections : In(e, s) /\ In(e, r) => s = r

OneHand == \A e \in Escalations, t, u \in Threads : Holds(t, e) /\ Holds(u, e) => t = u

HandsApart == \A e \in Escalations, t \in Threads, s \in Sections :
                Holds(t, e) => ~In(e, s)

Locals ==
  \A t \in Threads :
    /\ call[t].op = "claim" => call[t].at = "Unassigned"
    /\ call[t].op = "claim" /\ pc[t] # "idle" => call[t].by \in Agents
    /\ pc[t] = "scan" => call[t].op = "resolve"

ClaimedLeft ==
  \A e \in Escalations : item[e].assigned_agent # NoAgent =>
    /\ Known(e)
    /\ ~In(e, "Unassigned")
    /\ \A t \in Threads : Holds(t, e) => call[t].at = "My Chats"

Placed == EachOnce /\ OneList /\ OneHand /\ HandsApart

IInv == TypeOK /\ Placed /\ Locals /\ ClaimedLeft

LEMMA PlacedIsAtOnePlace == TypeOK /\ Placed => AtOnePlace
BY DEF TypeOK, Placed, EachOnce, OneList, OneHand, HandsApart, AtOnePlace, In,
       Distinct

\* A step that appends e, found in no list, to section sec.
LEMMA AppendEffect ==
  ASSUME TypeOK, EachOnce, NEW e \in Escalations, NEW sec \in Sections,
         ~In(e, sec),
         inbox' = [inbox EXCEPT ![sec] = Append(@, e)]
  PROVE  /\ inbox' \in [Sections -> Seq(Escalations)]
         /\ EachOnce'
         /\ \A x, s : s \in Sections =>
              (In(x, s)' <=> In(x, s) \/ (x = e /\ s = sec))
<1>1. inbox[sec] \in Seq(Escalations) /\ Distinct(inbox[sec])
      /\ \A i \in DOMAIN inbox[sec] : inbox[sec][i] # e
  BY DEF TypeOK, EachOnce, In
<1>2. inbox'[sec] = Append(inbox[sec], e)
      /\ \A s \in Sections : s # sec => inbox'[s] = inbox[s]
  BY DEF TypeOK
<1>3. /\ inbox'[sec] \in Seq(Escalations) /\ Distinct(inbox'[sec])
      /\ \A x : (\E j \in DOMAIN inbox'[sec] : inbox'[sec][j] = x)
                  <=> x = e \/ \E j \in DOMAIN inbox[sec] : inbox[sec][j] = x
  BY <1>1, <1>2, AppendMembers
<1>4. inbox' \in [Sections -> Seq(Escalations)]
  BY <1>3 DEF TypeOK
<1>5. EachOnce'
  BY <1>2, <1>3 DEF EachOnce, TypeOK
<1>6. ASSUME NEW x, NEW s \in Sections
      PROVE  In(x, s)' <=> In(x, s) \/ (x = e /\ s = sec)
  <2>1. CASE s = sec
    <3>1. In(x, s)' <=> \E j \in DOMAIN inbox'[sec] : inbox'[sec][j] = x
      BY <2>1 DEF In
    <3>2. In(x, s) <=> \E j \in DOMAIN inbox[sec] : inbox[sec][j] = x
      BY <2>1 DEF In
    <3> QED  BY <1>3, <2>1, <3>1, <3>2
  <2>2. CASE s # sec   BY <1>2, <2>2 DEF In
  <2> QED  BY <2>1, <2>2
<1> QED  BY <1>4, <1>5, <1>6

\* A step that removes e from section sec.
LEMMA RemoveEffect ==
  ASSUME TypeOK, EachOnce, NEW e \in Escalations, NEW sec \in Sections,
         NEW i \in DOMAIN inbox[sec], inbox[sec][i] = e,
         inbox' = [inbox EXCEPT ![sec] = RemoveAt(@, i)]
  PROVE  /\ inbox' \in [Sections -> Seq(Escalations)]
         /\ EachOnce'
         /\ \A x, s : s \in Sections =>
              (In(x, s)' <=> In(x, s) /\ ~(x = e /\ s = sec))
<1>1. inbox[sec] \in Seq(Escalations) /\ Distinct(inbox[sec])
  BY DEF TypeOK, EachOnce
<1>2. inbox'[sec] = RemoveAt(inbox[sec], i)
      /\ \A s \in Sections : s # sec => inbox'[s] = inbox[s]
  BY DEF TypeOK
<1>3. /\ inbox'[sec] \in Seq(Escalations) /\ Distinct(inbox'[sec])
      /\ \A x : (\E j \in DOMAIN inbox'[sec] : inbox'[sec][j] = x)
                  <=> x # e /\ \E j \in DOMAIN inbox[sec] : inbox[sec][j] = x
  <2> DEFINE l == inbox[sec]
  <2>1. Removes(Escalations, l, i, RemoveAt(l, i))
    <3> i \in DOMAIN l /\ l \in Seq(Escalations) /\ Distinct(l)
      BY <1>1
    <3> HIDE DEF l
    <3> QED  BY RemoveAtMembers
  <2>2. inbox'[sec] = RemoveAt(l, i) /\ l[i] = e
    BY <1>2
  <2> QED  BY <2>1, <2>2 DEF Removes
<1>4. inbox' \in [Sections -> Seq(Escalations)]
  BY <1>3 DEF TypeOK
<1>5. EachOnce'
  BY <1>2, <1>3 DEF EachOnce, TypeOK
<1>6. ASSUME NEW x, NEW s \in Sections
      PROVE  In(x, s)' <=> In(x, s) /\ ~(x = e /\ s = sec)
  <2>1. CASE s = sec
    <3>1. In(x, s)' <=> \E j \in DOMAIN inbox'[sec] : inbox'[sec][j] = x
      BY <2>1 DEF In
    <3>2. In(x, s) <=> \E j \in DOMAIN inbox[sec] : inbox[sec][j] = x
      BY <2>1 DEF In
    <3> QED  BY <1>3, <2>1, <3>1, <3>2
  <2>2. CASE s # sec   BY <1>2, <2>2 DEF In
  <2> QED  BY <2>1, <2>2
<1> QED  BY <1>4, <1>5, <1>6

--------------------------------------------------------------------------------

\* Moving the list iterator changes nothing else in the locals.
LEMMA MoveIterator ==
  ASSUME NEW c \in Calls, NEW n \in Nat \ {0}, NEW s \in {"Unassigned", "My Chats"}
  PROVE  /\ [c EXCEPT !.idx = n] \in Calls
         /\ [c EXCEPT !.at = s, !.idx = n] \in Calls
         /\ [c EXCEPT !.idx = n].op = c.op
         /\ [c EXCEPT !.idx = n].at = c.at
         /\ [c EXCEPT !.idx = n].by = c.by
         /\ [c EXCEPT !.at = s, !.idx = n].op = c.op
         /\ [c EXCEPT !.at = s, !.idx = n].by = c.by
BY DEF Calls

LEMMA InitIInv == PortalInit => IInv
<1> SUFFICES ASSUME PortalInit PROVE IInv
  OBVIOUS
<1> USE DEF PortalInit, NewCall
<1>1. \A e : \A s \in Sections : ~In(e, s)
  BY DEF In
<1>2. PICK e0 \in Escalations : call = [t \in Threads |-> NewCall("claim", e0, NoAgent)]
  OBVIOUS
<1>3. \A e, t : t \in Threads => ~Holds(t, e)
  BY DEF Holds
<1>4. TypeOK
  <2>1. NewCall("claim", e0, NoAgent) \in Calls
    <3>1. Open(e0) \in BOOLEAN
      BY DEF Open, In
    <3> QED  BY <3>1 DEF Calls
  <2>2. inbox \in [Sections -> Seq(Escalations)]
    OBVIOUS
  <2>3. item \in [Escalations -> Items]
    BY DEF Items
  <2>4. call \in [Threads -> Calls]
    BY <1>2, <2>1
  <2> QED  BY <2>2, <2>3, <2>4 DEF TypeOK
<1>5. Placed
  BY <1>1, <1>3 DEF Placed, EachOnce, OneList, OneHand, HandsApart, Distinct
<1>6. Locals
  BY <1>2 DEF Locals
<1>7. ClaimedLeft
  BY DEF ClaimedLeft
<1> QED  BY <1>4, <1>5, <1>6, <1>7 DEF IInv

\* What each step must show besides the invariant, for the action properties.
Kept == /\ \A e \in Escalations : Known(e) => Known(e)'
        /\ \A e \in Escalations : item[e].assigned_agent # NoAgent =>
             item'[e].assigned_agent = item[e].assigned_agent

\* A step of a handler that only looks, begins or ends: no case moves.
LEMMA LookKeeps ==
  ASSUME IInv, NEW t \in Threads, inbox' = inbox, item' = item,
         pc[t] # "file", pc'[t] # "file",
         \A u \in Threads : u # t => pc'[u] = pc[u] /\ call'[u] = call[u],
         TypeOK', Locals'
  PROVE  IInv' /\ Kept
<1> USE DEF IInv
<1>1. \A x, u : u \in Threads => (Holds(u, x)' <=> Holds(u, x))
  BY DEF Holds
<1>2. \A x, s : In(x, s)' <=> In(x, s)
  BY DEF In
<1>3. Placed'
  BY <1>1, <1>2 DEF Placed, EachOnce, OneList, OneHand, HandsApart
<1>4. Kept
  BY <1>1, <1>2 DEF Kept, Known
<1>5. ClaimedLeft'
  <2>1. \A x, u : u \in Threads /\ Holds(u, x)' => call'[u] = call[u]
    BY DEF Holds
  <2> QED  BY <1>1, <1>2, <1>4, <2>1 DEF ClaimedLeft, Kept
<1> QED  BY <1>3, <1>4, <1>5

\* A step that files the case a handler holds at the end of section sec.
LEMMA FileKeeps ==
  ASSUME IInv, NEW t \in Threads, NEW e \in Escalations, Holds(t, e),
         NEW sec \in {"My Chats", "Resolved"},
         inbox' = [inbox EXCEPT ![sec] = Append(@, e)],
         pc' = [pc EXCEPT ![t] = "idle"], call' = call,
         reply' = [reply EXCEPT ![t] = "200"],
         item' \in [Escalations -> Items],
         \A x \in Escalations : x # e \/ call[t].at = "My Chats" =>
           item'[x].assigned_agent = item[x].assigned_agent
  PROVE  IInv' /\ Kept
<1> USE DEF IInv
<1>1. /\ inbox' \in [Sections -> Seq(Escalations)]
      /\ EachOnce'
      /\ \A x, s : s \in Sections =>
           (In(x, s)' <=> In(x, s) \/ (x = e /\ s = sec))
  <2>1. sec \in Sections
    BY DEF Sections
  <2>2. ~In(e, sec)
    BY <2>1 DEF Placed, HandsApart
  <2> QED  BY <2>1, <2>2, AppendEffect DEF Placed
<1>2. \A x, u : u \in Threads => (Holds(u, x)' <=> Holds(u, x) /\ u # t)
  BY DEF Holds, TypeOK
<1>3. TypeOK'
  BY <1>1 DEF TypeOK
<1>4. Placed'
  <2>1. sec \in Sections
    BY DEF Sections
  <2>2. OneList'
    <3>1. \A s \in Sections : ~In(e, s)
      BY DEF Placed, HandsApart
    <3>2. OneList
      BY DEF Placed
    <3> SUFFICES ASSUME NEW x \in Escalations, NEW q \in Sections,
                        NEW r \in Sections, In(x, q)', In(x, r)'
                 PROVE  q = r
      BY DEF OneList
    <3>3. (In(x, q) \/ (x = e /\ q = sec)) /\ (In(x, r) \/ (x = e /\ r = sec))
      BY <1>1
    <3> QED  BY <3>1, <3>2, <3>3 DEF OneList
  <2>3. OneHand'
    BY <1>2 DEF Placed, OneHand
  <2>4. HandsApart'
    <3>1. \A x \in Escalations, u \in Threads : Holds(u, x)' => x # e /\ Holds(u, x)
      BY <1>2 DEF Placed, OneHand
    <3>2. HandsApart
      BY DEF Placed
    <3> QED  BY <1>1, <3>1, <3>2 DEF HandsApart
  <2> QED  BY <1>1, <2>2, <2>3, <2>4 DEF Placed
<1>5. \A x \in Escalations : Known(x) => Known(x)'
  <2>1. sec \in Sections /\ (\A x : Holds(t, x) => x = e)
    BY DEF Sections, Holds
  <2> QED  BY <1>1, <1>2, <2>1 DEF Known
<1>6. \A x \in Escalations : item[x].assigned_agent # NoAgent =>
        item'[x].assigned_agent = item[x].assigned_agent
  BY DEF ClaimedLeft
<1>7. Kept
  BY <1>5, <1>6 DEF Kept
<1>8. Locals'
  BY DEF Locals, TypeOK
<1>9. ClaimedLeft'
  <2> SUFFICES ASSUME NEW x \in Escalations, item'[x].assigned_agent # NoAgent
               PROVE  /\ Known(x)'
                      /\ ~In(x, "Unassigned")'
                      /\ \A u \in Threads : Holds(u, x)' => call'[u].at = "My Chats"
    BY DEF ClaimedLeft
  <2>1. CASE x = e
    <3>1. In(e, sec)' /\ sec \in Sections
      BY <1>1 DEF Sections
    <3>2. \A u \in Threads : ~Holds(u, e)'
      BY <1>2 DEF Placed, OneHand
    <3>3. ~In(e, "Unassigned")' 
      BY <1>1 DEF Placed, HandsApart, Sections
    <3> QED  BY <2>1, <3>1, <3>2, <3>3 DEF Known
  <2>2. CASE x # e
    BY <1>1, <1>2, <1>5, <2>2 DEF ClaimedLeft, Sections
  <2> QED  BY <2>1, <2>2
<1> QED  BY <1>3, <1>4, <1>7, <1>8, <1>9

\* Every step keeps the invariant, keeps every case somewhere and keeps the
\* first assigned agent.
LEMMA NextIInv == IInv /\ [PortalNext]_portalVars => IInv' /\ Kept
<1> SUFFICES ASSUME IInv, [PortalNext]_portalVars
             PROVE  IInv' /\ Kept
  OBVIOUS
<1> USE DEF IInv
<1>1. ASSUME NEW e \in Escalations, on_escalation_new(e)
      PROVE  IInv' /\ Kept
  <2>1. /\ inbox' \in [Sections -> Seq(Escalations)]
        /\ EachOnce'
        /\ \A x, s : s \in Sections =>
             (In(x, s)' <=> In(x, s) \/ (x = e /\ s = "Unassigned"))
    <3>1. ~In(e, "Unassigned") /\ "Unassigned" \in Sections
      BY <1>1 DEF on_escalation_new, Known, Sections
    <3> QED  BY <1>1, <3>1, AppendEffect DEF on_escalation_new, Placed
  <2>2. \A x, t : Holds(t, x)' <=> Holds(t, x)
    BY <1>1 DEF on_escalation_new, Holds
  <2>3. ~Known(e) /\ item' = item /\ pc' = pc /\ call' = call /\ reply' = reply
    BY <1>1 DEF on_escalation_new
  <2>4. TypeOK'
    BY <2>1, <2>3 DEF TypeOK
  <2>5. Placed'
    BY <2>1, <2>2, <2>3 DEF Placed, OneList, OneHand, HandsApart, Known
  <2>6. Kept
    BY <2>1, <2>2, <2>3 DEF Known, Kept
  <2>7. Locals' /\ ClaimedLeft'
    BY <2>1, <2>2, <2>3, <2>6 DEF Locals, ClaimedLeft, Kept, Sections
  <2> QED  BY <2>4, <2>5, <2>6, <2>7
<1>2. ASSUME NEW t \in Threads, NEW op \in {"claim", "resolve"},
             NEW e \in Escalations, NEW a \in Agents \union {NoAgent},
             NEW step \in {"find", "scan"}, Begin(t, op, e, a, step),
             step = "scan" => op = "resolve",
             op = "claim" => a \in Agents
      PROVE  IInv' /\ Kept
  <2>1. /\ inbox' = inbox /\ item' = item
        /\ pc' = [pc EXCEPT ![t] = step] /\ pc[t] = "idle"
        /\ call' = [call EXCEPT ![t] = NewCall(op, e, a)]
        /\ reply' = [reply EXCEPT ![t] = "none"]
    BY <1>2 DEF Begin
  <2>2. NewCall(op, e, a) \in Calls
        /\ NewCall(op, e, a).at = "Unassigned" /\ NewCall(op, e, a).op = op
        /\ NewCall(op, e, a).by = a
    BY DEF NewCall, Calls, Open
  <2>3. TypeOK'
    BY <2>1, <2>2 DEF TypeOK
  <2>4. Locals'
    BY <1>2, <2>1, <2>2 DEF Locals, TypeOK
  <2> QED  BY <2>1, <2>3, <2>4, LookKeeps DEF TypeOK
<1>3. ASSUME NEW t \in Threads, Request(t)
      PROVE  IInv' /\ Kept
  BY <1>2, <1>3 DEF Request, BeginClaim, BeginResolve
<1>4. ASSUME NEW t \in Threads, FindUnassigned(t)
      PROVE  IInv' /\ Kept
  <2>1. TypeOK' /\ Locals'
    BY <1>4 DEF FindUnassigned, Finish, TypeOK, Locals
  <2> QED  BY <1>4, <2>1, LookKeeps DEF FindUnassigned, Finish, TypeOK
<1>5. ASSUME NEW t \in Threads, ScanHere(t)
      PROVE  IInv' /\ Kept
  <2> DEFINE c == [call[t] EXCEPT !.idx = call[t].idx + 1]
  <2>1. c \in Calls /\ c.op = call[t].op /\ c.at = call[t].at /\ c.by = call[t].by
    <3>1. call[t] \in Calls /\ call[t].idx + 1 \in Nat \ {0}
      <4>1. call[t] \in Calls
        BY DEF TypeOK
      <4>2. \A k \in Nat \ {0} : k + 1 \in Nat \ {0}
        OBVIOUS
      <4> QED  BY <4>1, <4>2 DEF Calls
    <3> QED  BY <3>1, MoveIterator
  <2>2. /\ inbox' = inbox /\ item' = item /\ reply' = reply /\ pc[t] = "scan"
        /\ \/ pc' = [pc EXCEPT ![t] = "take"] /\ call' = call
           \/ pc' = pc /\ call' = [call EXCEPT ![t] = c]
    BY <1>5 DEF ScanHere
  <2> HIDE DEF c
  <2>3. TypeOK'
    BY <2>1, <2>2 DEF TypeOK
  <2>4. Locals'
    BY <2>1, <2>2 DEF TypeOK, Locals
  <2>5. UNCHANGED <<inbox, item>>
    BY <2>2
  <2> QED  BY <2>2, <2>3, <2>4, <2>5, LookKeeps, SMTT(30) DEF TypeOK
<1>6. ASSUME NEW t \in Threads, ScanEnd(t)
      PROVE  IInv' /\ Kept
  <2> DEFINE c == [call[t] EXCEPT !.at = "My Chats", !.idx = 1]
  <2>1. c \in Calls /\ c.op = call[t].op /\ c.by = call[t].by
    <3>1. call[t] \in Calls /\ 1 \in Nat \ {0}
      BY DEF TypeOK
    <3> QED  BY <3>1, MoveIterator
  <2>2. /\ inbox' = inbox /\ item' = item /\ pc[t] = "scan"
        /\ \/ pc' = pc /\ reply' = reply /\ call' = [call EXCEPT ![t] = c]
           \/ /\ pc' = [pc EXCEPT ![t] = "idle"] /\ call' = call
              /\ reply' = [reply EXCEPT ![t] = "404"]
    BY <1>6 DEF ScanEnd, Finish
  <2> HIDE DEF c
  <2>3. TypeOK'
    BY <2>1, <2>2 DEF TypeOK
  <2>4. Locals'
    BY <2>1, <2>2 DEF TypeOK, Locals
  <2>5. UNCHANGED <<inbox, item>>
    BY <2>2
  <2> QED  BY <2>2, <2>3, <2>4, <2>5, LookKeeps DEF TypeOK
<1>7. ASSUME NEW t \in Threads, TakeFails(t)
      PROVE  IInv' /\ Kept
  <2>1. TypeOK' /\ Locals'
    BY <1>7 DEF TakeFails, Finish, TypeOK, Locals
  <2> QED  BY <1>7, <2>1, LookKeeps DEF TakeFails, Finish, TypeOK
<1>8. ASSUME NEW t \in Threads, Take(t)
      PROVE  IInv' /\ Kept
  <2>1. PICK e \in Escalations, at \in {"Unassigned", "My Chats"} :
          e = call[t].esc /\ at = call[t].at /\ at \in Sections
    BY DEF TypeOK, Calls, Sections
  <2>2. PICK i \in DOMAIN inbox[at] :
          inbox[at][i] = e /\ inbox' = [inbox EXCEPT ![at] = RemoveAt(@, i)]
    BY <1>8, <2>1 DEF Take
  <2>3. /\ pc[t] = "take" /\ pc' = [pc EXCEPT ![t] = "file"]
        /\ item' = item /\ call' = call /\ reply' = reply
    BY <1>8 DEF Take
  <2>4. In(e, at)
    BY <2>2 DEF In
  <2>5. /\ inbox' \in [Sections -> Seq(Escalations)]
        /\ EachOnce'
        /\ \A x, s : s \in Sections =>
             (In(x, s)' <=> In(x, s) /\ ~(x = e /\ s = at))
    BY <2>1, <2>2, RemoveEffect DEF Placed
  <2>6. \A x, u : u \in Threads =>
          (Holds(u, x)' <=> Holds(u, x) \/ (u = t /\ x = e))
    BY <2>1, <2>3 DEF Holds, TypeOK
  <2>7. TypeOK'
    BY <2>3, <2>5 DEF TypeOK
  <2>8. \A u \in Threads, s \in Sections : ~Holds(u, e) /\ ~In(e, s)'
    BY <2>1, <2>4, <2>5 DEF Placed, HandsApart, OneList
  <2>9. Placed'
    <3>1. OneList'
      BY <2>5 DEF Placed, OneList
    <3>2. OneHand'
      <4>1. OneHand /\ \A u \in Threads : ~Holds(u, e)
        BY <2>1, <2>8 DEF Placed, Sections
      <4> SUFFICES ASSUME NEW x \in Escalations, NEW v \in Threads,
                          NEW w \in Threads, Holds(v, x)', Holds(w, x)'
                   PROVE  v = w
        BY DEF OneHand
      <4>2. (Holds(v, x) \/ (v = t /\ x = e)) /\ (Holds(w, x) \/ (w = t /\ x = e))
        BY <2>6
      <4> QED  BY <4>1, <4>2 DEF OneHand
    <3>3. HandsApart'
      BY <2>5, <2>6, <2>8 DEF Placed, HandsApart
    <3> QED  BY <2>5, <3>1, <3>2, <3>3 DEF Placed
  <2>10. Kept
    BY <2>1, <2>3, <2>5, <2>6 DEF Known, Kept
  <2>11. Locals'
    BY <2>3 DEF Locals, TypeOK
  <2>12. ClaimedLeft'
    <3>1. item[e].assigned_agent # NoAgent => at = "My Chats"
      BY <2>1, <2>4 DEF ClaimedLeft
    <3> QED  BY <2>1, <2>3, <2>5, <2>6, <2>10, <3>1 DEF ClaimedLeft, Kept, Sections
  <2> QED  BY <2>7, <2>9, <2>10, <2>11, <2>12
<1>9. ASSUME NEW t \in Threads, FileClaimed(t)
      PROVE  IInv' /\ Kept
  <2>1. call[t].esc \in Escalations /\ Holds(t, call[t].esc)
        /\ call[t].by \in Agents \union {NoAgent} /\ call[t].at = "Unassigned"
    BY <1>9 DEF FileClaimed, TypeOK, Calls, Holds, Locals
  <2>2. item' = [item EXCEPT ![call[t].esc].assigned_agent = call[t].by]
    BY <1>9 DEF FileClaimed
  <2>3. /\ item' \in [Escalations -> Items]
        /\ \A x \in Escalations : x # call[t].esc => item'[x] = item[x]
    BY <2>1, <2>2 DEF TypeOK, Items
  <2>4. /\ inbox' = [inbox EXCEPT !["My Chats"] = Append(@, call[t].esc)]
        /\ pc' = [pc EXCEPT ![t] = "idle"] /\ call' = call
        /\ reply' = [reply EXCEPT ![t] = "200"]
    BY <1>9 DEF FileClaimed, Finish
  <2> QED  BY <2>1, <2>3, <2>4, FileKeeps
<1>10. ASSUME NEW t \in Threads, FileResolved(t)
       PROVE  IInv' /\ Kept
  <2>1. call[t].esc \in Escalations /\ Holds(t, call[t].esc)
    BY <1>10 DEF FileResolved, TypeOK, Calls, Holds
  <2>2. item' = [item EXCEPT ![call[t].esc].resolved_at = TRUE]
    BY <1>10 DEF FileResolved
  <2>3. /\ item' \in [Escalations -> Items]
        /\ \A x \in Escalations : item'[x].assigned_agent = item[x].assigned_agent
    BY <2>1, <2>2 DEF TypeOK, Items
  <2>4. /\ inbox' = [inbox EXCEPT !["Resolved"] = Append(@, call[t].esc)]
        /\ pc' = [pc EXCEPT ![t] = "idle"] /\ call' = call
        /\ reply' = [reply EXCEPT ![t] = "200"]
    BY <1>10 DEF FileResolved, Finish
  <2> QED  BY <2>1, <2>3, <2>4, FileKeeps
<1>11. CASE UNCHANGED portalVars
  <2> USE <1>11 DEF portalVars
  <2>1. \A x, s : In(x, s)' <=> In(x, s)
    BY DEF In
  <2>2. \A x, t : Holds(t, x)' <=> Holds(t, x)
    BY DEF Holds
  <2>3. TypeOK' /\ Locals'
    BY DEF TypeOK, Locals
  <2>4. Placed' /\ ClaimedLeft' /\ Kept
    BY <2>1, <2>2 DEF Placed, EachOnce, OneList, OneHand, HandsApart,
                      ClaimedLeft, Known, Kept
  <2> QED  BY <2>3, <2>4
<1> QED
  BY <1>1, <1>3, <1>4, <1>5, <1>6, <1>7, <1>8, <1>9, <1>10, <1>11
     DEF PortalNext, Handler

LEMMA Invariance == PortalSpec => []IInv
<1>1. IInv /\ [PortalNext]_portalVars => IInv'
  BY NextIInv
<1> QED  BY InitIInv, <1>1, PTL DEF PortalSpec

\* The inbox, the payloads and the handlers' locals keep their types.
THEOREM Typed == PortalSpec => []TypeOK
<1>1. IInv => TypeOK
  BY DEF IInv
<1> QED  BY Invariance, <1>1, PTL

\* With any number of handler threads and cases, claim and resolve never leave a
\* case in two places, although they move it without a lock.
THEOREM OnePlace == PortalSpec => []AtOnePlace
<1>1. IInv => AtOnePlace
  BY PlacedIsAtOnePlace DEF IInv
<1> QED  BY Invariance, <1>1, PTL

\* With any number of handler threads and cases, no case ever drops out of the
\* inbox.
THEOREM NoneLost == PortalSpec => NeverLost
<1>1. IInv /\ [PortalNext]_portalVars =>
        [\A e \in Escalations : Known(e) => Known(e)']_portalVars
  BY NextIInv DEF Kept
<1> QED  BY Invariance, <1>1, PTL DEF PortalSpec, NeverLost

\* With any number of handler threads and agents, the first claim that is filed
\* keeps the case.
THEOREM FirstClaim == PortalSpec => FirstClaimWins
<1>1. IInv /\ [PortalNext]_portalVars =>
        [\A e \in Escalations :
           item[e].assigned_agent # NoAgent =>
             item'[e].assigned_agent = item[e].assigned_agent]_portalVars
  BY NextIInv DEF Kept
<1> QED  BY Invariance, <1>1, PTL DEF PortalSpec, FirstClaimWins

--------------------------------------------------------------------------------
(****************************************************************************)
(* What a caller was told stays true.  Settled is what no step undoes;      *)
(* Truthful ties what a thread is about to answer, or has answered, to it.  *)
(****************************************************************************)

MineHaveAgents ==
  \A e \in Escalations : In(e, "My Chats") => item[e].assigned_agent # NoAgent

Truthful(t) ==
  LET c == call[t]
      owned == c.at = "My Chats" => item[c.esc].assigned_agent # NoAgent
  IN  /\ pc[t] # "idle" => reply[t] = "none"
      /\ pc[t] = "find" => c.at = "Unassigned"
      /\ pc[t] = "take" => Known(c.esc) /\ owned
      /\ reply[t] = "200" /\ c.op = "claim" =>
           c.by \in Agents /\ item[c.esc].assigned_agent = c.by
      /\ reply[t] = "200" /\ c.op = "resolve" => In(c.esc, "Resolved")
      /\ reply[t] = "500" => Known(c.esc) /\ ~In(c.esc, c.at) /\ owned

AnswersInv == MineHaveAgents /\ \A t \in Threads : Truthful(t)

\* A case that left Unassigned does not come back, one with an agent that left
\* My Chats does not either, a resolved one stays resolved, and who enters My
\* Chats has an agent.
Settled ==
  \A e \in Escalations :
    /\ Known(e) /\ ~In(e, "Unassigned") => ~In(e, "Unassigned")'
    /\ item[e].assigned_agent # NoAgent /\ ~In(e, "My Chats") => ~In(e, "My Chats")'
    /\ In(e, "Resolved") => In(e, "Resolved")'
    /\ In(e, "My Chats")' => In(e, "My Chats") \/ item'[e].assigned_agent # NoAgent

LEMMA SettledQuiet ==
  ASSUME inbox' = inbox PROVE Settled
BY DEF Settled, In

LEMMA NextSettled ==
  ASSUME IInv, PortalNext PROVE Settled
<1>1. ASSUME NEW e \in Escalations, on_escalation_new(e) PROVE Settled
  <2>1. \A x, s : s \in Sections =>
          (In(x, s)' <=> In(x, s) \/ (x = e /\ s = "Unassigned"))
    <3>1. ~In(e, "Unassigned") /\ "Unassigned" \in Sections
      BY <1>1 DEF on_escalation_new, Known, Sections
    <3> QED  BY <1>1, <3>1, AppendEffect DEF on_escalation_new, IInv, Placed
  <2>2. ~Known(e)
    BY <1>1 DEF on_escalation_new
  <2> QED  BY <2>1, <2>2 DEF Settled, Sections
<1>2. ASSUME NEW t \in Threads, Take(t) PROVE Settled
  <2>1. PICK e \in Escalations, at \in {"Unassigned", "My Chats"} :
          e = call[t].esc /\ at = call[t].at /\ at \in Sections
    BY DEF IInv, TypeOK, Calls, Sections
  <2>2. PICK i \in DOMAIN inbox[at] :
          inbox[at][i] = e /\ inbox' = [inbox EXCEPT ![at] = RemoveAt(@, i)]
    BY <1>2, <2>1 DEF Take
  <2>3. \A x, s : s \in Sections =>
          (In(x, s)' <=> In(x, s) /\ ~(x = e /\ s = at))
    BY <2>1, <2>2, RemoveEffect DEF IInv, Placed
  <2> QED  BY <2>1, <2>3 DEF Settled, Sections
<1>3. ASSUME NEW t \in Threads, FileClaimed(t) PROVE Settled
  <2>1. /\ call[t].esc \in Escalations /\ Holds(t, call[t].esc)
        /\ call[t].by \in Agents /\ call[t].at = "Unassigned"
    BY <1>3 DEF FileClaimed, IInv, TypeOK, Calls, Holds, Locals
  <2>2. PICK e \in Escalations : e = call[t].esc
    BY <2>1
  <2>3. ~In(e, "My Chats") /\ "My Chats" \in Sections
    BY <2>1, <2>2 DEF IInv, Placed, HandsApart, Sections
  <2>4. \A x, s : s \in Sections =>
          (In(x, s)' <=> In(x, s) \/ (x = e /\ s = "My Chats"))
    BY <1>3, <2>2, <2>3, AppendEffect DEF FileClaimed, IInv, Placed
  <2>5. item[e].assigned_agent = NoAgent
    BY <2>1, <2>2 DEF IInv, ClaimedLeft
  <2>6. item'[e].assigned_agent = call[t].by
    <3>1. item[e] \in Items /\ item'[e] = [item[e] EXCEPT !.assigned_agent = call[t].by]
      BY <1>3, <2>2 DEF FileClaimed, IInv, TypeOK
    <3> QED  BY <3>1 DEF Items
  <2>7. item'[e].assigned_agent # NoAgent
    BY <2>1, <2>6, NoAgentAssumption
  <2> QED  BY <2>4, <2>5, <2>7 DEF Settled, Sections
<1>4. ASSUME NEW t \in Threads, FileResolved(t) PROVE Settled
  <2>1. call[t].esc \in Escalations /\ Holds(t, call[t].esc)
    BY <1>4 DEF FileResolved, IInv, TypeOK, Calls, Holds
  <2>2. PICK e \in Escalations : e = call[t].esc
    BY <2>1
  <2>3. ~In(e, "Resolved") /\ "Resolved" \in Sections
    BY <2>1, <2>2 DEF IInv, Placed, HandsApart, Sections
  <2>4. \A x, s : s \in Sections =>
          (In(x, s)' <=> In(x, s) \/ (x = e /\ s = "Resolved"))
    BY <1>4, <2>2, <2>3, AppendEffect DEF FileResolved, IInv, Placed
  <2> QED  BY <2>4 DEF Settled, Sections
<1>5. ASSUME NEW t \in Threads, Request(t) \/ FindUnassigned(t) \/ ScanHere(t)
                                \/ ScanEnd(t) \/ TakeFails(t)
      PROVE  inbox' = inbox
  BY <1>5 DEF Request, BeginClaim, BeginResolve, Begin, FindUnassigned, ScanHere,
              ScanEnd, TakeFails
<1> QED  BY <1>1, <1>2, <1>3, <1>4, <1>5, SettledQuiet DEF PortalNext, Handler

\* A step leaves the answer of every thread true whose locals it leaves alone.
LEMMA TruthfulKept ==
  ASSUME IInv, Kept, Settled, NEW t \in Threads, Truthful(t),
         pc'[t] = pc[t], call'[t] = call[t], reply'[t] = reply[t]
  PROVE  Truthful(t)'
<1>1. PICK c \in Calls : c = call[t]
  BY DEF IInv, TypeOK
<1>2. c.esc \in Escalations /\ c.at \in {"Unassigned", "My Chats"} /\ call'[t] = c
  BY <1>1 DEF Calls
<1>3. item[c.esc].assigned_agent # NoAgent =>
        item'[c.esc].assigned_agent = item[c.esc].assigned_agent
  BY <1>2 DEF Kept
<1>4. Known(c.esc) => Known(c.esc)'
  BY <1>2 DEF Kept
<1>5. pc[t] = "take" => Known(c.esc)' /\
        (c.at = "My Chats" => item'[c.esc].assigned_agent # NoAgent)
  BY <1>1, <1>3, <1>4 DEF Truthful
<1>6. reply[t] = "200" /\ c.op = "claim" =>
        c.by \in Agents /\ item'[c.esc].assigned_agent = c.by
  BY <1>1, <1>3, NoAgentAssumption DEF Truthful
<1>7. reply[t] = "200" /\ c.op = "resolve" => In(c.esc, "Resolved")'
  BY <1>1, <1>2 DEF Truthful, Settled
<1>8. reply[t] = "500" => /\ Known(c.esc)' /\ ~In(c.esc, c.at)'
                          /\ c.at = "My Chats" => item'[c.esc].assigned_agent # NoAgent
  <2>1. reply[t] = "500" =>
          /\ Known(c.esc) /\ ~In(c.esc, c.at)
          /\ c.at = "My Chats" => item[c.esc].assigned_agent # NoAgent
    BY <1>1 DEF Truthful
  <2>2. reply[t] = "500" => ~In(c.esc, c.at)'
    BY <1>2, <2>1 DEF Settled
  <2> QED  BY <1>3, <1>4, <2>1, <2>2
<1>9. /\ pc[t] # "idle" => reply[t] = "none"
      /\ pc[t] = "find" => c.at = "Unassigned"
  BY <1>1 DEF Truthful
<1> QED  BY <1>2, <1>5, <1>6, <1>7, <1>8, <1>9 DEF Truthful

\* What the steps of a thread do to its own answer.
LEMMA TruthfulStep ==
  ASSUME IInv, IInv', Kept, Settled, MineHaveAgents, NEW t \in Threads, Truthful(t),
         Request(t) \/ Handler(t)
  PROVE  Truthful(t)'
<1>1. /\ call[t] \in Calls /\ call[t].esc \in Escalations
      /\ call[t].at \in {"Unassigned", "My Chats"}
      /\ call[t].op \in {"claim", "resolve"}
  BY DEF IInv, TypeOK, Calls
<1>2. ASSUME NEW op \in {"claim", "resolve"}, NEW e \in Escalations,
             NEW a \in Agents \union {NoAgent}, NEW step \in {"find", "scan"},
             Begin(t, op, e, a, step)
      PROVE  Truthful(t)'
  <2>1. /\ pc'[t] = step /\ reply'[t] = "none"
        /\ call'[t] = NewCall(op, e, a)
    BY <1>2 DEF Begin, IInv, TypeOK
  <2>2. call'[t].at = "Unassigned"
    BY <2>1 DEF NewCall
  <2> QED  BY <2>1, <2>2 DEF Truthful
<1>3. CASE FindUnassigned(t)
  <2>1. /\ pc[t] = "find" /\ item' = item /\ inbox' = inbox /\ call' = call
        /\ reply[t] = "none" /\ call[t].at = "Unassigned"
    BY <1>3 DEF FindUnassigned, Truthful
  <2>2. \/ In(call[t].esc, "Unassigned") /\ pc'[t] = "take" /\ reply'[t] = "none"
        \/ pc'[t] = "idle" /\ reply'[t] = "404"
    BY <1>3, <2>1 DEF FindUnassigned, Finish, IInv, TypeOK
  <2>3. In(call[t].esc, "Unassigned") => Known(call[t].esc)'
    <3>1. PICK e \in Escalations : e = call[t].esc
      BY <1>1
    <3>2. In(e, "Unassigned") => Known(e)
      BY DEF Known, Sections
    <3>3. In(e, "Unassigned") => Known(e)'
      BY <3>2 DEF Kept
    <3> QED  BY <2>1, <3>1, <3>3
  <2> QED  BY <2>1, <2>2, <2>3 DEF Truthful
<1>4. CASE ScanHere(t)
  <2>1. pc[t] = "scan" /\ item' = item /\ inbox' = inbox /\ reply' = reply
    BY <1>4 DEF ScanHere
  <2>2. reply[t] = "none"
    BY <2>1 DEF Truthful
  <2>3. CASE call' = call /\ pc' = [pc EXCEPT ![t] = "take"]
             /\ inbox[call[t].at][call[t].idx] = call[t].esc
    <3>1. In(call[t].esc, call[t].at)
      <4>1. call[t].idx \in DOMAIN inbox[call[t].at]
        <5>1. call[t].idx \in Nat \ {0} /\ inbox[call[t].at] \in Seq(Escalations)
          BY <1>1 DEF IInv, TypeOK, Sections, Calls
        <5>2. call[t].idx <= Len(inbox[call[t].at])
          BY <1>4 DEF ScanHere
        <5> QED  BY <5>1, <5>2, LenProperties
      <4> QED  BY <2>3, <4>1 DEF In
    <3>2. Known(call[t].esc)'
      <4>1. PICK e \in Escalations : e = call[t].esc
        BY <1>1
      <4>2. Known(e)
        BY <1>1, <3>1, <4>1 DEF Known, Sections
      <4>3. Known(e)'
        BY <4>2 DEF Kept
      <4> QED  BY <2>3, <4>1, <4>3
    <3>3. call[t].at = "My Chats" => item[call[t].esc].assigned_agent # NoAgent
      BY <1>1, <3>1 DEF MineHaveAgents
    <3>4. pc'[t] = "take"
      BY <2>3 DEF IInv, TypeOK
    <3> QED  BY <2>1, <2>2, <2>3, <3>2, <3>3, <3>4 DEF Truthful
  <2>4. CASE pc' = pc
    BY <2>1, <2>2, <2>4 DEF Truthful
  <2> QED  BY <1>4, <2>3, <2>4 DEF ScanHere
<1>5. CASE ScanEnd(t)
  <2>1. pc[t] = "scan" /\ reply[t] = "none"
    BY <1>5 DEF ScanEnd, Truthful
  <2>2. \/ pc'[t] = "scan" /\ reply'[t] = "none"
        \/ pc'[t] = "idle" /\ reply'[t] = "404"
    BY <1>5, <2>1 DEF ScanEnd, Finish, IInv, TypeOK
  <2> QED  BY <2>2 DEF Truthful
<1>6. CASE Take(t)
  <2>1. pc[t] = "take" /\ pc'[t] = "file" /\ reply'[t] = reply[t]
    BY <1>6 DEF Take, IInv, TypeOK
  <2>2. pc'[t] = "file" /\ reply'[t] = "none"
    BY <2>1 DEF Truthful
  <2> QED  BY <2>2 DEF Truthful
<1>7. CASE TakeFails(t)
  <2>1. /\ pc[t] = "take" /\ pc'[t] = "idle" /\ reply'[t] = "500"
        /\ call' = call /\ item' = item /\ ~In(call[t].esc, call[t].at)
        /\ inbox' = inbox
    BY <1>7 DEF TakeFails, Finish, IInv, TypeOK
  <2>2. Known(call[t].esc) /\
        (call[t].at = "My Chats" => item[call[t].esc].assigned_agent # NoAgent)
    BY <2>1 DEF Truthful
  <2>3. Known(call[t].esc)' /\ ~In(call[t].esc, call[t].at)'
    BY <1>1, <2>1, <2>2 DEF Kept, In
  <2> QED  BY <2>1, <2>2, <2>3 DEF Truthful
<1>8. CASE FileClaimed(t)
  <2>1. /\ call[t].op = "claim" /\ call[t].by \in Agents
        /\ call' = call /\ pc'[t] = "idle" /\ reply'[t] = "200"
    BY <1>8 DEF FileClaimed, Finish, IInv, TypeOK, Locals
  <2>2. item'[call[t].esc].assigned_agent = call[t].by
    <3>1. /\ item[call[t].esc] \in Items
          /\ item'[call[t].esc] = [item[call[t].esc] EXCEPT !.assigned_agent = call[t].by]
      BY <1>1, <1>8 DEF FileClaimed, IInv, TypeOK
    <3> QED  BY <3>1 DEF Items
  <2> QED  BY <2>1, <2>2 DEF Truthful
<1>9. CASE FileResolved(t)
  <2>1. /\ call[t].op = "resolve" /\ Holds(t, call[t].esc)
        /\ call' = call /\ pc'[t] = "idle" /\ reply'[t] = "200"
    BY <1>9 DEF FileResolved, Finish, IInv, TypeOK, Holds
  <2>2. In(call[t].esc, "Resolved")'
    <3>1. PICK e \in Escalations : e = call[t].esc
      BY <1>1
    <3>2. ~In(e, "Resolved") /\ "Resolved" \in Sections
      BY <2>1, <3>1 DEF IInv, Placed, HandsApart, Sections
    <3>3. inbox' = [inbox EXCEPT !["Resolved"] = Append(@, e)]
      BY <1>9, <3>1 DEF FileResolved
    <3>4. In(e, "Resolved")'
      BY <3>2, <3>3, AppendEffect DEF IInv, Placed
    <3> QED  BY <2>1, <3>1, <3>4
  <2> QED  BY <2>1, <2>2 DEF Truthful
<1> QED
  BY <1>2, <1>3, <1>4, <1>5, <1>6, <1>7, <1>8, <1>9
     DEF Request, BeginClaim, BeginResolve, Handler

LEMMA InitAnswersInv == PortalInit => AnswersInv
<1> SUFFICES ASSUME PortalInit PROVE AnswersInv
  OBVIOUS
<1>1. MineHaveAgents
  <2>1. \A e : \A s \in Sections : ~In(e, s)
    BY DEF PortalInit, In
  <2> QED  BY <2>1 DEF MineHaveAgents, Sections
<1>2. ASSUME NEW t \in Threads PROVE Truthful(t)
  <2>1. pc[t] = "idle" /\ reply[t] = "none"
    BY DEF PortalInit
  <2> QED  BY <2>1 DEF Truthful
<1> QED  BY <1>1, <1>2 DEF AnswersInv

LEMMA NextAnswersInv ==
  IInv /\ IInv' /\ AnswersInv /\ [PortalNext]_portalVars => AnswersInv'
<1> SUFFICES ASSUME IInv, IInv', AnswersInv, [PortalNext]_portalVars PROVE AnswersInv'
  OBVIOUS
<1>1. Kept
  BY NextIInv
<1>2. Settled
  BY NextSettled, SettledQuiet DEF portalVars
<1>3. MineHaveAgents'
  BY <1>1, <1>2 DEF AnswersInv, MineHaveAgents, Settled, Kept
<1>4. ASSUME NEW e \in Escalations, on_escalation_new(e) PROVE \A t \in Threads : Truthful(t)'
  BY <1>1, <1>2, <1>4, TruthfulKept DEF on_escalation_new, AnswersInv
<1>5. ASSUME NEW t \in Threads, Request(t) \/ Handler(t) PROVE \A u \in Threads : Truthful(u)'
  <2> TAKE u \in Threads
  <2>1. CASE u = t
    BY <1>1, <1>2, <1>5, <2>1, TruthfulStep DEF AnswersInv
  <2>2. CASE u # t
    <3>1. pc'[u] = pc[u] /\ call'[u] = call[u] /\ reply'[u] = reply[u]
      <4>1. CASE Request(t)
        BY <2>2, <4>1 DEF Request, BeginClaim, BeginResolve, Begin, IInv, TypeOK
      <4>2. CASE FindUnassigned(t) \/ ScanHere(t) \/ ScanEnd(t)
        BY <2>2, <4>2 DEF FindUnassigned, ScanHere, ScanEnd, Finish, IInv, TypeOK
      <4>3. CASE Take(t) \/ TakeFails(t) \/ FileClaimed(t) \/ FileResolved(t)
        BY <2>2, <4>3 DEF Take, TakeFails, FileClaimed, FileResolved, Finish, IInv, TypeOK
      <4> QED  BY <1>5, <4>1, <4>2, <4>3 DEF Handler
    <3> QED  BY <1>1, <1>2, <3>1, TruthfulKept DEF AnswersInv
  <2> QED  BY <2>1, <2>2
<1>6. CASE UNCHANGED portalVars
  <2>1. \A t \in Threads : Truthful(t)'
    BY <1>1, <1>2, <1>6, TruthfulKept DEF portalVars, AnswersInv
  <2> QED  BY <1>3, <2>1 DEF AnswersInv
<1> QED  BY <1>3, <1>4, <1>5, <1>6 DEF PortalNext, AnswersInv

\* With any number of handler threads, whoever was told "claimed" or "resolved"
\* was told the truth for good, and a call that failed with a 500 harmed nothing.
THEOREM TrueAnswers == PortalSpec => []AnswersAreTrue
<1>1. IInv /\ AnswersInv => AnswersAreTrue
  <2> SUFFICES ASSUME IInv, AnswersInv, NEW t \in Threads
               PROVE  LET c == call[t]
                      IN  /\ reply[t] = "200" /\ c.op = "claim" =>
                               item[c.esc].assigned_agent = c.by /\ ~In(c.esc, "Unassigned")
                          /\ reply[t] = "200" /\ c.op = "resolve" => In(c.esc, "Resolved")
                          /\ reply[t] = "500" => Known(c.esc) /\ ~In(c.esc, c.at)
    BY DEF AnswersAreTrue
  <2>1. Truthful(t) /\ call[t].esc \in Escalations
    BY DEF AnswersInv, IInv, TypeOK, Calls
  <2>2. item[call[t].esc].assigned_agent \in Agents => ~In(call[t].esc, "Unassigned")
    BY <2>1, NoAgentAssumption DEF IInv, ClaimedLeft
  <2> QED  BY <2>1, <2>2 DEF Truthful
<1>2. AnswersInv /\ IInv /\ IInv' /\ [PortalNext]_portalVars => AnswersInv'
  BY NextAnswersInv
<1> QED  BY Invariance, InitAnswersInv, <1>1, <1>2, PTL DEF PortalSpec

--------------------------------------------------------------------------------
(****************************************************************************)
(* The inbox implements CaseLifecycle: every step of a handler is a step of  *)
(* one case's life or changes no stage.                                      *)
(****************************************************************************)

\* The stage of a case is where it is listed, or where its holder took it from.
StagesAreRight ==
  \A x \in Escalations :
    /\ \A s \in Sections : In(x, s) => StageOf(x) = s
    /\ \A u \in Threads : Holds(u, x) => StageOf(x) = call[u].at
    /\ ~Known(x) => StageOf(x) = "absent"

LEMMA StageAt == IInv => StagesAreRight
<1> SUFFICES ASSUME IInv, NEW x \in Escalations
             PROVE  /\ \A s \in Sections : In(x, s) => StageOf(x) = s
                    /\ \A u \in Threads : Holds(u, x) => StageOf(x) = call[u].at
                    /\ ~Known(x) => StageOf(x) = "absent"
  BY DEF StagesAreRight
<1> USE DEF IInv, Placed
<1>1. ASSUME NEW s \in Sections, In(x, s)
      PROVE  StageOf(x) = s
  BY <1>1 DEF OneList, StageOf
<1>2. ASSUME NEW u \in Threads, Holds(u, x)
      PROVE  StageOf(x) = call[u].at
  <2>1. ~\E s \in Sections : In(x, s)
    BY <1>2 DEF HandsApart
  <2>2. (CHOOSE t \in Threads : Holds(t, x)) = u
    BY <1>2 DEF OneHand
  <2> QED  BY <1>2, <2>1, <2>2 DEF StageOf
<1>3. ~Known(x) => StageOf(x) = "absent"
  BY DEF Known, StageOf
<1> QED  BY <1>1, <1>2, <1>3

LEMMA StageAtNext == IInv' => StagesAreRight'
BY StageAt, PTL

\* A case that stays listed, or is taken by a handler that remembers the list,
\* keeps its stage.
LEMMA SameStage ==
  ASSUME IInv, IInv', NEW x \in Escalations,
         \A s \in Sections : In(x, s) =>
           \/ In(x, s)'
           \/ \E u \in Threads : Holds(u, x)' /\ call'[u].at = s,
         \A u \in Threads : Holds(u, x) =>
           Holds(u, x)' /\ call'[u].at = call[u].at,
         ~Known(x) => ~Known(x)'
  PROVE  StageOf(x)' = StageOf(x)
<1>1. StagesAreRight /\ StagesAreRight'
  BY StageAt, StageAtNext
<1>2. CASE \E s \in Sections : In(x, s)
  <2> PICK s \in Sections : In(x, s)
    BY <1>2
  <2>1. StageOf(x) = s
    BY <1>1 DEF StagesAreRight
  <2>2. CASE In(x, s)'
    BY <1>1, <2>1, <2>2 DEF StagesAreRight
  <2>3. CASE \E u \in Threads : Holds(u, x)' /\ call'[u].at = s
    BY <1>1, <2>1, <2>3 DEF StagesAreRight
  <2> QED  BY <2>2, <2>3
<1>3. CASE \E u \in Threads : Holds(u, x)
  BY <1>1, <1>3 DEF StagesAreRight
<1>4. CASE ~Known(x)
  BY <1>1, <1>4 DEF StagesAreRight
<1> QED  BY <1>2, <1>3, <1>4 DEF Known

\* A step that changes neither stages nor agents is a stutter of the life cycle.
LEMMA QuietStep ==
  ASSUME IInv, IInv', item' = item,
         \A x \in Escalations : StageOf(x)' = StageOf(x)
  PROVE  UNCHANGED Lifecycle!cvars
BY DEF Lifecycle!cvars

\* A step of a handler that only looks, begins or ends is a stutter.
LEMMA LookStutters ==
  ASSUME IInv, IInv', NEW t \in Threads, inbox' = inbox, item' = item,
         pc[t] # "file", pc'[t] # "file",
         \A u \in Threads : u # t => pc'[u] = pc[u] /\ call'[u] = call[u]
  PROVE  UNCHANGED Lifecycle!cvars
<1>1. \A x, u : u \in Threads => (Holds(u, x)' <=> Holds(u, x))
  BY DEF Holds
<1>2. \A x, u : u \in Threads /\ Holds(u, x) => call'[u] = call[u]
  BY DEF Holds
<1>3. \A x, s : In(x, s)' <=> In(x, s)
  BY DEF In
<1>4. \A x \in Escalations : StageOf(x)' = StageOf(x)
  <2> TAKE x \in Escalations
  <2>1. ~Known(x) => ~Known(x)'
    BY <1>1, <1>3 DEF Known
  <2> QED  BY <1>1, <1>2, <1>3, <2>1, SameStage
<1> QED  BY <1>4, QuietStep

\* Filing a case moves it to section sec and changes no other stage.
LEMMA FileStages ==
  ASSUME IInv, IInv', NEW t \in Threads, NEW e \in Escalations, Holds(t, e),
         NEW sec \in {"My Chats", "Resolved"},
         inbox' = [inbox EXCEPT ![sec] = Append(@, e)],
         pc' = [pc EXCEPT ![t] = "idle"], call' = call
  PROVE  /\ StageOf(e) = call[t].at
         /\ StageOf(e)' = sec
         /\ \A x \in Escalations : x # e => StageOf(x)' = StageOf(x)
<1> USE DEF IInv
<1>1. \A x, s : s \in Sections =>
        (In(x, s)' <=> In(x, s) \/ (x = e /\ s = sec))
  <2>1. sec \in Sections
    BY DEF Sections
  <2>2. ~In(e, sec)
    BY <2>1 DEF Placed, HandsApart
  <2> QED  BY <2>1, <2>2, AppendEffect DEF Placed
<1>2. \A x, u : u \in Threads => (Holds(u, x)' <=> Holds(u, x) /\ u # t)
  BY DEF Holds, TypeOK
<1>3. StagesAreRight /\ StagesAreRight'
  BY StageAt, StageAtNext
<1>4. sec \in Sections /\ In(e, sec)'
  BY <1>1 DEF Sections
<1>5. ASSUME NEW x \in Escalations, x # e
      PROVE  StageOf(x)' = StageOf(x)
  <2>1. \A u \in Threads : Holds(u, x) => Holds(u, x)' /\ call'[u].at = call[u].at
    BY <1>2, <1>5 DEF Holds
  <2>2. ~Known(x) => ~Known(x)'
    BY <1>1, <1>2, <1>5 DEF Known
  <2>3. \A s \in Sections : In(x, s) => In(x, s)'
    BY <1>1
  <2> QED  BY <2>1, <2>2, <2>3, SameStage
<1> QED  BY <1>3, <1>4, <1>5 DEF StagesAreRight

LEMMA LifecycleStep ==
  IInv /\ IInv' /\ [PortalNext]_portalVars =>
    [Lifecycle!LifecycleNext]_(Lifecycle!cvars)
<1> SUFFICES ASSUME IInv, IInv', [PortalNext]_portalVars
             PROVE  Lifecycle!LifecycleNext \/ UNCHANGED Lifecycle!cvars
  OBVIOUS
<1>1. ASSUME NEW e \in Escalations, on_escalation_new(e)
      PROVE  Lifecycle!Arrive(e)
  <2>1. \A x, s : s \in Sections =>
          (In(x, s)' <=> In(x, s) \/ (x = e /\ s = "Unassigned"))
    <3>1. ~In(e, "Unassigned") /\ "Unassigned" \in Sections
      BY <1>1 DEF on_escalation_new, Known, Sections
    <3> QED  BY <1>1, <3>1, AppendEffect DEF on_escalation_new, IInv, Placed
  <2>2. \A x, t : Holds(t, x)' <=> Holds(t, x)
    BY <1>1 DEF on_escalation_new, Holds
  <2>3. ~Known(e) /\ item' = item /\ call' = call
    BY <1>1 DEF on_escalation_new
  <2>4. StageOf(e) = "absent" /\ StageOf(e)' = "Unassigned"
    <3>1. StagesAreRight /\ StagesAreRight'
      BY StageAt, StageAtNext
    <3>2. In(e, "Unassigned")' /\ "Unassigned" \in Sections
      BY <2>1 DEF Sections
    <3> QED  BY <2>3, <3>1, <3>2 DEF StagesAreRight
  <2>5. ASSUME NEW x \in Escalations, x # e
        PROVE  StageOf(x)' = StageOf(x)
    <3>1. ~Known(x) => ~Known(x)'
      BY <2>1, <2>2, <2>5 DEF Known
    <3>2. \A s \in Sections : In(x, s) => In(x, s)'
      BY <2>1
    <3>3. \A u \in Threads : Holds(u, x) => Holds(u, x)' /\ call'[u].at = call[u].at
      BY <2>2, <2>3
    <3> QED  BY <3>1, <3>2, <3>3, SameStage
  <2> QED  BY <2>3, <2>4, <2>5 DEF Lifecycle!Arrive
<1>2. ASSUME NEW t \in Threads, Request(t)
      PROVE  UNCHANGED Lifecycle!cvars
  <2>1. /\ inbox' = inbox /\ item' = item
        /\ pc[t] = "idle" /\ pc'[t] \in {"find", "scan"}
        /\ \A u \in Threads : u # t => pc'[u] = pc[u] /\ call'[u] = call[u]
    BY <1>2 DEF Request, BeginClaim, BeginResolve, Begin, IInv, TypeOK
  <2> QED  BY <2>1, LookStutters
<1>3. ASSUME NEW t \in Threads,
             FindUnassigned(t) \/ ScanHere(t) \/ ScanEnd(t) \/ TakeFails(t)
      PROVE  UNCHANGED Lifecycle!cvars
  <2>1. /\ inbox' = inbox /\ item' = item
        /\ pc[t] # "file" /\ pc'[t] # "file"
        /\ \A u \in Threads : u # t => pc'[u] = pc[u] /\ call'[u] = call[u]
    BY <1>3 DEF FindUnassigned, ScanHere, ScanEnd, TakeFails, Finish, IInv, TypeOK
  <2> QED  BY <2>1, LookStutters
<1>4. ASSUME NEW t \in Threads, Take(t)
      PROVE  UNCHANGED Lifecycle!cvars
  <2>1. PICK e \in Escalations, at \in {"Unassigned", "My Chats"} :
          e = call[t].esc /\ at = call[t].at /\ at \in Sections
    BY DEF IInv, TypeOK, Calls, Sections
  <2>2. PICK i \in DOMAIN inbox[at] :
          inbox[at][i] = e /\ inbox' = [inbox EXCEPT ![at] = RemoveAt(@, i)]
    BY <1>4, <2>1 DEF Take
  <2>3. pc[t] = "take" /\ pc' = [pc EXCEPT ![t] = "file"] /\ item' = item /\ call' = call
    BY <1>4 DEF Take
  <2>4. In(e, at)
    BY <2>2 DEF In
  <2>5. \A x, s : s \in Sections =>
          (In(x, s)' <=> In(x, s) /\ ~(x = e /\ s = at))
    BY <2>1, <2>2, RemoveEffect DEF IInv, Placed
  <2>6. \A x, u : u \in Threads =>
          (Holds(u, x)' <=> Holds(u, x) \/ (u = t /\ x = e))
    BY <2>1, <2>3 DEF Holds, IInv, TypeOK
  <2>7. \A x \in Escalations : StageOf(x)' = StageOf(x)
    <3> TAKE x \in Escalations
    <3>1. ~Known(x) => ~Known(x)'
      BY <2>1, <2>4, <2>5, <2>6 DEF Known
    <3>2. \A s \in Sections : In(x, s) =>
            In(x, s)' \/ \E u \in Threads : Holds(u, x)' /\ call'[u].at = s
      BY <2>1, <2>3, <2>5, <2>6
    <3>3. \A u \in Threads : Holds(u, x) => Holds(u, x)' /\ call'[u].at = call[u].at
      BY <2>3, <2>6
    <3> QED  BY <3>1, <3>2, <3>3, SameStage
  <2> QED  BY <2>3, <2>7, QuietStep
<1>5. ASSUME NEW t \in Threads, FileClaimed(t)
      PROVE  \E e \in Escalations, a \in Agents : Lifecycle!ClaimCase(e, a)
  <2>1. call[t].esc \in Escalations /\ Holds(t, call[t].esc)
        /\ call[t].by \in Agents /\ call[t].at = "Unassigned"
    BY <1>5 DEF FileClaimed, IInv, TypeOK, Calls, Holds, Locals
  <2>2. PICK e \in Escalations, a \in Agents : e = call[t].esc /\ a = call[t].by
    BY <2>1
  <2>3. /\ inbox' = [inbox EXCEPT !["My Chats"] = Append(@, e)]
        /\ pc' = [pc EXCEPT ![t] = "idle"] /\ call' = call
        /\ item' = [item EXCEPT ![e].assigned_agent = a]
    BY <1>5, <2>2 DEF FileClaimed, Finish
  <2>4. /\ StageOf(e) = "Unassigned" /\ StageOf(e)' = "My Chats"
        /\ \A x \in Escalations : x # e => StageOf(x)' = StageOf(x)
    BY <2>1, <2>2, <2>3, FileStages
  <2>5. \A x \in Escalations : item'[x].assigned_agent =
          IF x = e THEN a ELSE item[x].assigned_agent
    <3>1. item \in [Escalations -> Items]
      BY DEF IInv, TypeOK
    <3>2. item' = [item EXCEPT ![e] = [item[e] EXCEPT !.assigned_agent = a]]
      BY <2>3
    <3>3. [item[e] EXCEPT !.assigned_agent = a].assigned_agent = a
      BY <3>1 DEF Items
    <3> QED  BY <3>1, <3>2, <3>3
  <2>6. Lifecycle!ClaimCase(e, a)
    BY <2>4, <2>5 DEF Lifecycle!ClaimCase
  <2> QED  BY <2>6
<1>6. ASSUME NEW t \in Threads, FileResolved(t)
      PROVE  \E e \in Escalations : Lifecycle!ResolveCase(e)
  <2>1. call[t].esc \in Escalations /\ Holds(t, call[t].esc)
        /\ call[t].at \in {"Unassigned", "My Chats"}
    BY <1>6 DEF FileResolved, IInv, TypeOK, Calls, Holds
  <2>2. PICK e \in Escalations : e = call[t].esc
    BY <2>1
  <2>3. /\ inbox' = [inbox EXCEPT !["Resolved"] = Append(@, e)]
        /\ pc' = [pc EXCEPT ![t] = "idle"] /\ call' = call
        /\ item' = [item EXCEPT ![e].resolved_at = TRUE]
    BY <1>6, <2>2 DEF FileResolved, Finish
  <2>4. /\ StageOf(e) \in {"Unassigned", "My Chats"} /\ StageOf(e)' = "Resolved"
        /\ \A x \in Escalations : x # e => StageOf(x)' = StageOf(x)
    BY <2>1, <2>2, <2>3, FileStages
  <2>5. \A x \in Escalations : item'[x].assigned_agent = item[x].assigned_agent
    BY <2>3 DEF IInv, TypeOK, Items
  <2>6. Lifecycle!ResolveCase(e)
    BY <2>4, <2>5 DEF Lifecycle!ResolveCase
  <2> QED  BY <2>6
<1>7. CASE UNCHANGED portalVars
  <2>1. \A x, s : In(x, s)' <=> In(x, s)
    BY <1>7 DEF portalVars, In
  <2>2. \A x, t : Holds(t, x)' <=> Holds(t, x)
    BY <1>7 DEF portalVars, Holds
  <2>3. \A x \in Escalations : StageOf(x)' = StageOf(x)
    BY <1>7, <2>1, <2>2, SameStage DEF portalVars, Known
  <2> QED  BY <1>7, <2>3, QuietStep DEF portalVars
<1> QED
  BY <1>1, <1>2, <1>3, <1>4, <1>5, <1>6, <1>7
     DEF PortalNext, Handler, Lifecycle!LifecycleNext

LEMMA LifecycleStart == PortalInit => Lifecycle!LifecycleInit
<1> SUFFICES ASSUME PortalInit PROVE Lifecycle!LifecycleInit
  OBVIOUS
<1>1. IInv
  BY InitIInv
<1>2. \A e \in Escalations : ~Known(e)
  BY DEF PortalInit, Known, In, Holds
<1>3. \A e \in Escalations : StageOf(e) = "absent"
  BY <1>1, <1>2, StageAt DEF StagesAreRight
<1> QED  BY <1>3 DEF PortalInit, Lifecycle!LifecycleInit

\* For every set of cases, threads and agents, the unlocked claim and resolve
\* handlers implement the atomic life cycle of a case.
THEOREM Refinement == PortalSpec => ImplementsLifecycle
<1>1. PortalInit => Lifecycle!LifecycleInit
  BY LifecycleStart
<1>2. IInv /\ IInv' /\ [PortalNext]_portalVars =>
        [Lifecycle!LifecycleNext]_(Lifecycle!cvars)
  BY LifecycleStep
<1> QED
  BY Invariance, <1>1, <1>2, PTL
     DEF PortalSpec, ImplementsLifecycle, Lifecycle!LifecycleSpec

--------------------------------------------------------------------------------
(****************************************************************************)
(* The escalation queue in front of the inbox.  It drives the inbox by steps *)
(* of the inbox only, so everything above holds behind it; and a case whose *)
(* push waits for the loop is nowhere in the inbox yet.                     *)
(****************************************************************************)

Rows == [assigned_agent : Agents \union {NoAgent}, resolved_at : Int,
         sla_deadline : Int, priority : {0, 1, 2}]

QueueTypes == /\ rows \in [Escalations -> Rows]
              /\ pushes \subseteq Escalations
              /\ now \in Nat

RowsBehind == \A e \in Escalations : Known(e) \/ e \in pushes => HasRow(e)

ArrivesOnce == \A e \in pushes : ~Known(e)

QueueInv == QueueTypes /\ RowsBehind /\ ArrivesOnce

LEMMA RowMade ==
  ASSUME QueueTypes, NEW p \in {0, 1, 2}
  PROVE  MakeRow(p) \in Rows /\ MakeRow(p) # NoRow
<1>1. SLA_BY_PRIORITY[p] \in Nat
  BY DEF SLA_BY_PRIORITY
<1>2. now + SLA_BY_PRIORITY[p] \in Nat
  BY <1>1 DEF QueueTypes
<1> HIDE DEF SLA_BY_PRIORITY
<1>3. MakeRow(p) \in Rows
  BY <1>2 DEF MakeRow, Rows, NoTime
<1>4. MakeRow(p).sla_deadline # NoRow.sla_deadline
  BY <1>2 DEF MakeRow, NoRow, NoTime
<1> QED  BY <1>3, <1>4

LEMMA RowEnsured ==
  ASSUME QueueTypes, NEW e \in Escalations
  PROVE  EnsureRow(e) \in Rows
BY RowMade DEF EnsureRow, QueueTypes

\* What assign and resolve make of a row is a row, and not the missing one.
LEMMA RowStamped ==
  ASSUME QueueTypes, NEW r \in Rows, NEW a \in Agents
  PROVE  /\ [r EXCEPT !.assigned_agent = a] \in Rows
         /\ [r EXCEPT !.assigned_agent = a] # NoRow
         /\ [r EXCEPT !.resolved_at = now] \in Rows
         /\ [r EXCEPT !.resolved_at = now] # NoRow
<1>1. /\ [r EXCEPT !.assigned_agent = a] \in Rows
      /\ [r EXCEPT !.resolved_at = now] \in Rows
  BY DEF QueueTypes, Rows
<1>2. [r EXCEPT !.assigned_agent = a].assigned_agent # NoRow.assigned_agent
  BY NoAgentAssumption DEF Rows, NoRow
<1>3. [r EXCEPT !.resolved_at = now].resolved_at # NoRow.resolved_at
  BY DEF QueueTypes, Rows, NoRow, NoTime
<1> QED  BY <1>1, <1>2, <1>3

\* No handler conjures up a case.
LEMMA NoneAppears ==
  ASSUME IInv, NEW t \in Threads, Request(t) \/ Handler(t)
  PROVE  \A x : Known(x)' => Known(x)
<1>1. CASE Take(t)
  <2>1. PICK e \in Escalations, at \in {"Unassigned", "My Chats"} :
          e = call[t].esc /\ at = call[t].at /\ at \in Sections
    BY DEF IInv, TypeOK, Calls, Sections
  <2>2. PICK i \in DOMAIN inbox[at] :
          inbox[at][i] = e /\ inbox' = [inbox EXCEPT ![at] = RemoveAt(@, i)]
    BY <1>1, <2>1 DEF Take
  <2>3. \A x, s : s \in Sections => (In(x, s)' <=> In(x, s) /\ ~(x = e /\ s = at))
    BY <2>1, <2>2, RemoveEffect DEF IInv, Placed
  <2>4. In(e, at)
    BY <2>2 DEF In
  <2>5. \A x, u : u \in Threads => (Holds(u, x)' => Holds(u, x) \/ x = e)
    BY <1>1, <2>1 DEF Take, Holds, IInv, TypeOK
  <2> QED  BY <2>1, <2>3, <2>4, <2>5 DEF Known
<1>2. CASE FileClaimed(t) \/ FileResolved(t)
  <2>1. PICK e \in Escalations : e = call[t].esc
    BY DEF IInv, TypeOK, Calls
  <2>2. PICK sec \in Sections : inbox' = [inbox EXCEPT ![sec] = Append(@, e)]
    BY <1>2, <2>1 DEF FileClaimed, FileResolved, Sections
  <2>3. Holds(t, e)
    BY <1>2, <2>1 DEF FileClaimed, FileResolved, Holds
  <2>4. \A x, s : s \in Sections => (In(x, s)' <=> In(x, s) \/ (x = e /\ s = sec))
    <3>1. ~In(e, sec)
      BY <2>3 DEF IInv, Placed, HandsApart
    <3> QED  BY <2>2, <3>1, AppendEffect DEF IInv, Placed
  <2>5. \A x, u : u \in Threads => (Holds(u, x)' => Holds(u, x))
    BY <1>2 DEF FileClaimed, FileResolved, Finish, Holds, IInv, TypeOK
  <2> QED  BY <2>3, <2>4, <2>5 DEF Known
<1>3. CASE Request(t) \/ FindUnassigned(t) \/ ScanHere(t) \/ ScanEnd(t) \/ TakeFails(t)
  <2>1. /\ inbox' = inbox /\ pc'[t] # "file"
        /\ \A u \in Threads : u # t => pc'[u] = pc[u] /\ call'[u] = call[u]
    BY <1>3 DEF Request, BeginClaim, BeginResolve, Begin, FindUnassigned, ScanHere,
                ScanEnd, TakeFails, Finish, IInv, TypeOK
  <2>2. \A x, s : In(x, s)' <=> In(x, s)
    BY <2>1 DEF In
  <2>3. \A x, u : u \in Threads => (Holds(u, x)' => Holds(u, x))
    BY <2>1 DEF Holds
  <2> QED  BY <2>2, <2>3 DEF Known
<1> QED  BY <1>1, <1>2, <1>3 DEF Handler

LEMMA KnownUnchanged == UNCHANGED portalVars => \A x : Known(x)' <=> Known(x)
BY DEF portalVars, Known, In, Holds

LEMMA InitQueueInv == HandOffInit => QueueInv
<1> SUFFICES ASSUME HandOffInit PROVE QueueInv
  OBVIOUS
<1>1. \A e \in Escalations : ~Known(e)
  BY DEF HandOffInit, PortalInit, Known, In, Holds
<1>2. NoRow \in Rows
  BY DEF NoRow, NoTime, Rows
<1>3. QueueTypes
  BY <1>2 DEF HandOffInit, QueueTypes
<1> QED  BY <1>1, <1>3 DEF HandOffInit, QueueInv, RowsBehind, ArrivesOnce

\* A step that changes one row for another, and nothing in the inbox.
LEMMA RowStep ==
  ASSUME QueueInv, NEW e \in Escalations, NEW r \in Rows, r # NoRow,
         rows' = [rows EXCEPT ![e] = r], UNCHANGED <<portalVars, now>>,
         pushes' = pushes \/ (pushes' = pushes \union {e} /\ ~HasRow(e))
  PROVE  QueueInv'
<1>1. QueueTypes'
  BY DEF QueueInv, QueueTypes
<1>2. \A x : Known(x)' <=> Known(x)
  BY KnownUnchanged
<1>3. \A x \in Escalations : HasRow(x)' <=> HasRow(x) \/ x = e
  BY DEF QueueInv, QueueTypes, HasRow
<1>4. RowsBehind'
  BY <1>2, <1>3 DEF QueueInv, RowsBehind
<1>5. ArrivesOnce'
  BY <1>2 DEF QueueInv, RowsBehind, ArrivesOnce
<1> QED  BY <1>1, <1>4, <1>5 DEF QueueInv

LEMMA NextQueueInv == IInv /\ QueueInv /\ [HandOffNext]_handOffVars => QueueInv'
<1> SUFFICES ASSUME IInv, QueueInv, [HandOffNext]_handOffVars PROVE QueueInv'
  OBVIOUS
<1>1. ASSUME NEW e \in Escalations, NEW p \in Priorities, NEW onLoop \in BOOLEAN,
             create(e, p, onLoop)
      PROVE  QueueInv'
  <2>1. p \in {0, 1, 2}
    BY PrioritiesAssumption
  <2>2. MakeRow(p) \in Rows /\ MakeRow(p) # NoRow
    BY <2>1, RowMade DEF QueueInv
  <2> QED  BY <1>1, <2>2, RowStep DEF create
<1>2. ASSUME NEW e \in Escalations, publish(e) PROVE QueueInv'
  <2>1. \A x, s : s \in Sections =>
          (In(x, s)' <=> In(x, s) \/ (x = e /\ s = "Unassigned"))
    <3>1. ~In(e, "Unassigned") /\ "Unassigned" \in Sections
      BY <1>2 DEF publish, on_escalation_new, Known, Sections
    <3> QED  BY <1>2, <3>1, AppendEffect DEF publish, on_escalation_new, IInv, Placed
  <2>2. \A x, t : Holds(t, x)' <=> Holds(t, x)
    BY <1>2 DEF publish, on_escalation_new, Holds
  <2>3. \A x : Known(x)' => Known(x) \/ x = e
    BY <2>1, <2>2 DEF Known
  <2>4. pushes' = pushes \ {e} /\ rows' = rows /\ now' = now /\ e \in pushes
    BY <1>2 DEF publish
  <2> QED  BY <2>3, <2>4 DEF QueueInv, QueueTypes, RowsBehind, ArrivesOnce, HasRow
<1>3. ASSUME NEW e \in Escalations, NEW a \in Agents, assign(e, a) PROVE QueueInv'
  <2>1. EnsureRow(e) \in Rows
    BY RowEnsured DEF QueueInv
  <2>2. [EnsureRow(e) EXCEPT !.assigned_agent = a] \in Rows \ {NoRow}
    BY <2>1, RowStamped DEF QueueInv
  <2>3. PICK r \in Rows \ {NoRow} : rows' = [rows EXCEPT ![e] = r]
    BY <1>3, <2>2 DEF assign
  <2> QED  BY <1>3, <2>3, RowStep DEF assign
<1>4. ASSUME NEW e \in Escalations, resolve(e) PROVE QueueInv'
  <2>1. EnsureRow(e) \in Rows
    BY RowEnsured DEF QueueInv
  <2>2. [EnsureRow(e) EXCEPT !.resolved_at = now] \in Rows \ {NoRow}
    <3>1. [EnsureRow(e) EXCEPT !.resolved_at = now] \in Rows
      BY <2>1 DEF QueueInv, QueueTypes, Rows
    <3>2. [EnsureRow(e) EXCEPT !.resolved_at = now].resolved_at # NoRow.resolved_at
      BY <2>1 DEF QueueInv, QueueTypes, Rows, NoRow, NoTime
    <3> QED  BY <3>1, <3>2
  <2>3. PICK r \in Rows \ {NoRow} : rows' = [rows EXCEPT ![e] = r]
    BY <1>4, <2>2 DEF resolve
  <2> QED  BY <1>4, <2>3, RowStep DEF resolve
<1>5. CASE PortalThread
  <2>1. \A x : Known(x)' => Known(x)
    BY <1>5, NoneAppears DEF PortalThread
  <2> QED  BY <1>5, <2>1 DEF PortalThread, queueVars, QueueInv, QueueTypes, RowsBehind,
                              ArrivesOnce, HasRow
<1>6. CASE Tick
  <2>1. now' \in Nat
    BY <1>6 DEF Tick, QueueInv, QueueTypes
  <2> QED  BY <1>6, <2>1, KnownUnchanged DEF Tick, QueueInv, QueueTypes, RowsBehind,
                                              ArrivesOnce, HasRow
<1>7. CASE UNCHANGED handOffVars
  BY <1>7, KnownUnchanged DEF handOffVars, queueVars, QueueInv, QueueTypes, RowsBehind,
                              ArrivesOnce, HasRow
<1> QED  BY <1>1, <1>2, <1>3, <1>4, <1>5, <1>6, <1>7 DEF HandOffNext

\* The composition of queue, push tasks and inbox is an inbox: what is proved of
\* the inbox alone holds in the composition.
THEOREM HandOffIsAnInbox == HandOffSpec => PortalSpec
<1>1. HandOffInit => PortalInit
  BY DEF HandOffInit
<1>2. [HandOffNext]_handOffVars => [PortalNext]_portalVars
  BY DEF HandOffNext, handOffVars, create, publish, assign, resolve, Tick, PortalThread,
         PortalNext
<1> QED  BY <1>1, <1>2, PTL DEF HandOffSpec, PortalSpec

LEMMA QueueInvariance == HandOffSpec => []QueueInv
<1>1. PortalSpec => []IInv
  BY Invariance
<1> QED  BY <1>1, HandOffIsAnInbox, InitQueueInv, NextQueueInv, PTL DEF HandOffSpec

\* A case whose push has not run is not in the inbox: filing it a second time is
\* not a thing the inbox has to refuse.
THEOREM PushesAreNew == HandOffSpec => []ArrivesOnce
<1>1. QueueInv => ArrivesOnce
  BY DEF QueueInv
<1> QED  BY <1>1, QueueInvariance, PTL

\* Whatever is assigned or upserted, a breach is reported until the case is
\* resolved in the queue.
THEOREM BreachesStand == HandOffSpec => BreachStands
<1>1. QueueInv /\ [HandOffNext]_handOffVars =>
        [\A e \in Escalations :
           Breached(e) => Breached(e)' \/ rows'[e].resolved_at # NoTime]_handOffVars
  <2> SUFFICES ASSUME QueueInv, HandOffNext, NEW e \in Escalations, Breached(e)
               PROVE  Breached(e)' \/ rows'[e].resolved_at # NoTime
    OBVIOUS
  <2>1. /\ rows[e] \in Rows /\ now \in Nat /\ HasRow(e)
        /\ rows[e].resolved_at = NoTime /\ rows[e].sla_deadline < now
        /\ EnsureRow(e) = rows[e]
    BY DEF QueueInv, QueueTypes, Breached, EnsureRow
  <2>2. ASSUME NEW x \in Escalations, NEW p \in Priorities, NEW onLoop \in BOOLEAN,
               create(x, p, onLoop)
        PROVE  rows'[e] = rows[e] /\ now' = now
    BY <2>1, <2>2 DEF create, QueueInv, QueueTypes
  <2>3. ASSUME NEW x \in Escalations, publish(x)
        PROVE  rows'[e] = rows[e] /\ now' = now
    BY <2>3 DEF publish
  <2>4. ASSUME NEW x \in Escalations, NEW a \in Agents, assign(x, a)
        PROVE  Breached(e)'
    <3>1. CASE x # e
      BY <2>1, <2>4, <3>1 DEF assign, QueueInv, QueueTypes, Breached, HasRow
    <3>2. CASE x = e
      <4>1. /\ rows'[e] = [rows[e] EXCEPT !.assigned_agent = a] /\ now' = now
        BY <2>1, <2>4, <3>2 DEF assign, QueueInv, QueueTypes
      <4>2. /\ rows'[e].resolved_at = rows[e].resolved_at
            /\ rows'[e].sla_deadline = rows[e].sla_deadline
        BY <2>1, <4>1 DEF Rows
      <4>3. rows'[e] # NoRow
        BY <2>1, <4>1, RowStamped DEF QueueInv
      <4> QED  BY <2>1, <4>1, <4>2, <4>3 DEF Breached, HasRow
    <3> QED  BY <3>1, <3>2
  <2>5. ASSUME NEW x \in Escalations, resolve(x)
        PROVE  Breached(e)' \/ rows'[e].resolved_at # NoTime
    <3>1. CASE x # e
      BY <2>1, <2>5, <3>1 DEF resolve, QueueInv, QueueTypes, Breached, HasRow
    <3>2. CASE x = e
      <4>1. rows'[e] = [rows[e] EXCEPT !.resolved_at = now]
        BY <2>1, <2>5, <3>2 DEF resolve, QueueInv, QueueTypes
      <4> QED  BY <2>1, <4>1 DEF Rows, NoTime
    <3> QED  BY <3>1, <3>2
  <2>6. CASE PortalThread
    BY <2>1, <2>6 DEF PortalThread, queueVars, Breached, HasRow
  <2>7. CASE Tick
    BY <2>1, <2>7 DEF Tick, Breached, HasRow, Rows
  <2>8. ASSUME rows'[e] = rows[e] /\ now' = now
        PROVE  Breached(e)'
    BY <2>1, <2>8 DEF Breached, HasRow
  <2> QED  BY <2>2, <2>3, <2>4, <2>5, <2>6, <2>7, <2>8 DEF HandOffNext
<1> QED  BY <1>1, QueueInvariance, PTL DEF HandOffSpec, BreachStands
================================================================================
