------------------------------ MODULE WorkersProofs ------------------------------
(****************************************************************************)
(* The parts that hand work on, for any number of threads, files, children  *)
(* and requests: nothing called an injection is answered, an upload is      *)
(* stored as a whole or not at all, the resolver of the process is put      *)
(* back, a card is served while it is fresh, no child is left behind, a     *)
(* tool's handler is never found without the tool, and every finished span  *)
(* is kept once, below its parent.                                          *)
(****************************************************************************)
EXTENDS Paladin, MediaUpload, AgentCards, ChildProcess, ToolExecutor, Tracing,
        SequenceTheorems, FiniteSetTheorems, TLAPS

--------------------------------------------------------------------------------
(****************************************************************************)
(* The defence.                                                             *)
(****************************************************************************)
Harmful == {"injection", "odd injection", "other error"}

PaTypeOK ==
  /\ risk \in {"none", "low", "medium", "high", "critical", "unknown"}
  /\ layer4 \in {"idle", "running"} \union CallOutcomes
  /\ layer3 \in {"idle", "running", "answered", "raised"}

\* The classifier is not asked at low risk, the model at critical risk never.
NotAsked ==
  /\ risk \in {"none", "low", "critical"} => layer4 = "idle"
  /\ risk = "critical" => layer3 = "idle"

\* At high risk the model is asked after a verdict that lets the text pass.
VerdictFirst == risk = "high" /\ layer3 # "idle" => layer4 \in CallOutcomes \ Harmful

\* An answer is given when the classifier has nothing more to say.
AnsweredAfter ==
  result.kind = "answered" => layer4 \in {"idle"} \union (CallOutcomes \ Harmful)

PaInv == PaTypeOK /\ NotAsked /\ VerdictFirst /\ AnsweredAfter

LEMMA InitPaInv == PaInit => PaInv
BY DEF PaInit, Pending, PaInv, PaTypeOK, NotAsked, VerdictFirst, AnsweredAfter

\* Text that passes the verdict is not harmful.
LEMMA Passes ==
  ASSUME layer4 \in CallOutcomes
  PROVE  Verdict \in {"clean", "unverified"} <=> layer4 \notin Harmful
<1>1. CASE layer4 = "harmless"   BY <1>1 DEF Verdict, Harmful
<1>2. CASE layer4 \in {"injection", "odd injection"}   BY <1>2 DEF Verdict, Harmful
<1>3. CASE layer4 = "other error"   BY <1>3 DEF Verdict, Harmful
<1>4. CASE layer4 \in {"odd type", "timed out", "no connection", "ValueError"}
  BY <1>4 DEF Verdict, Harmful
<1> QED  BY <1>1, <1>2, <1>3, <1>4 DEF CallOutcomes

LEMMA StartPaInv ==
  ASSUME PaInv, NEW r \in {"low", "medium", "high", "critical", "unknown"}, process(r)
  PROVE  PaInv'
<1>1. /\ risk' = r
      /\ layer4' = IF r \in {"medium", "high"} THEN "running" ELSE "idle"
      /\ layer3' = IF r \in {"low", "medium"} THEN "running" ELSE "idle"
  BY DEF process
<1>2. result'.kind # "answered"
  BY DEF process, Result, Pending
<1> QED  BY <1>1, <1>2 DEF PaInv, PaTypeOK, NotAsked, VerdictFirst, AnsweredAfter

LEMMA CallsEndPaInv == ASSUME PaInv, classify \/ Tier3Ends PROVE PaInv'
<1>1. CASE classify
  BY <1>1 DEF classify, PaInv, PaTypeOK, NotAsked, VerdictFirst, AnsweredAfter, CallOutcomes
<1>2. CASE Tier3Ends
  BY <1>2 DEF Tier3Ends, PaInv, PaTypeOK, NotAsked, VerdictFirst, AnsweredAfter
<1> QED  BY <1>1, <1>2

LEMMA ReadVerdictPaInv == ASSUME PaInv, ReadVerdict PROVE PaInv'
<1>1. /\ risk = "high" /\ layer4 \in CallOutcomes /\ UNCHANGED <<risk, layer4>>
  BY DEF ReadVerdict, Ended, PaInv, PaTypeOK
<1>2. CASE result'.kind # "answered" /\ UNCHANGED layer3
  BY <1>1, <1>2 DEF PaInv, PaTypeOK, NotAsked, VerdictFirst, AnsweredAfter
<1>3. CASE layer3' = "running" /\ UNCHANGED result /\ layer4 \notin Harmful
  BY <1>1, <1>3 DEF PaInv, PaTypeOK, NotAsked, VerdictFirst, AnsweredAfter
<1> QED  BY <1>1, <1>2, <1>3, Passes DEF ReadVerdict, Result

LEMMA ResultPaInv == ASSUME PaInv, ReadAnswer \/ Gather PROVE PaInv'
<1>1. /\ UNCHANGED <<risk, layer4, layer3>>
      /\ risk \in {"low", "medium", "high"} /\ Ended(layer3)
  BY DEF ReadAnswer, Gather
<1>2. CASE ReadAnswer
  BY <1>1, <1>2 DEF ReadAnswer, Ended, PaInv, PaTypeOK, NotAsked, VerdictFirst, AnsweredAfter
<1>3. CASE Gather
  <2>1. layer4 \in CallOutcomes
    BY <1>3 DEF Gather, Ended, PaInv, PaTypeOK
  <2>2. Verdict \in {"clean", "unverified", "raised", "injection"}
    BY DEF Verdict
  <2>3. result'.kind = "answered" => Verdict \in {"clean", "unverified"}
    BY <1>3, <2>2 DEF Gather, Result
  <2>4. AnsweredAfter'
    BY <1>1, <2>1, <2>3, Passes DEF AnsweredAfter
  <2> QED  BY <1>1, <2>4 DEF PaInv, PaTypeOK, NotAsked, VerdictFirst
<1> QED  BY <1>2, <1>3

LEMMA NextPaInv == PaInv /\ [PaNext]_paVars => PaInv'
<1> SUFFICES ASSUME PaInv, [PaNext]_paVars PROVE PaInv'
  OBVIOUS
<1>1. CASE TakeResult
  BY <1>1 DEF TakeResult, Pending, PaInv, PaTypeOK, NotAsked, VerdictFirst, AnsweredAfter
<1>2. CASE UNCHANGED paVars
  BY <1>2 DEF paVars, PaInv, PaTypeOK, NotAsked, VerdictFirst, AnsweredAfter
<1> QED
  BY <1>1, <1>2, StartPaInv, CallsEndPaInv, ReadVerdictPaInv, ResultPaInv DEF PaNext

\* InjectionNeverAnswered, for any number of requests and whatever the two calls
\* come to, in either order.
THEOREM NeverAnswered == PaSpec => []InjectionNeverAnswered
<1>1. PaInv => InjectionNeverAnswered
  BY DEF PaInv, NotAsked, VerdictFirst, AnsweredAfter, InjectionNeverAnswered, Harmful,
         CallOutcomes
<1> QED  BY InitPaInv, NextPaInv, <1>1, PTL DEF PaSpec

--------------------------------------------------------------------------------
(****************************************************************************)
(* Child processes.                                                         *)
(****************************************************************************)

\* Whoever leaves with its child alive has a finally block that kills it.
CpInv ==
  /\ child \in {"none", "running", "exited", "killed"}
  /\ point = "idle" => child = "none"
  /\ point \notin {"idle", "returned"} => user \in ChildCalls
  /\ point \in {"idle", "grace"} => came = "none"
  /\ point = "leave" /\ Alive => user \in {"connect_stdio", "stdio_call"}
  /\ came \in {"ok", "tools"} => point \in {"leave", "returned"}
  /\ NoChildLeft

LEMMA InitCpInv == CpInit => CpInv
BY DEF CpInit, CpInv, NoChildLeft, Alive

LEMMA NextCpInv == CpInv /\ [CpNext]_cpVars => CpInv'
<1> SUFFICES ASSUME CpInv, [CpNext]_cpVars PROVE CpInv'
  OBVIOUS
<1> USE DEF CpInv, NoChildLeft, Alive, ChildCalls
<1>1. ASSUME NEW u \in ChildCalls, Popen(u) PROVE CpInv'
  BY <1>1 DEF Popen, End
<1>2. CASE Exits
  BY <1>2 DEF Exits
<1>3. CASE SendSignal
  BY <1>3 DEF SendSignal, End
<1>4. CASE Communicated
  BY <1>4 DEF Communicated
<1>5. CASE TimedOut
  BY <1>5 DEF TimedOut
<1>6. CASE PipeFails
  BY <1>6 DEF PipeFails
<1>7. CASE Leave
  BY <1>7 DEF Leave
<1>8. CASE NextChild
  BY <1>8 DEF NextChild
<1>9. CASE UNCHANGED cpVars
  BY <1>9 DEF cpVars
<1> QED  BY <1>1, <1>2, <1>3, <1>4, <1>5, <1>6, <1>7, <1>8, <1>9 DEF CpNext

\* NoChildLeft, for any number of calls, whenever the child ends and whatever fails.
THEOREM ChildrenEnd == CpSpec => []NoChildLeft
<1>1. CpInv => NoChildLeft
  BY DEF CpInv
<1> QED  BY InitCpInv, NextCpInv, <1>1, PTL DEF CpSpec

--------------------------------------------------------------------------------
(****************************************************************************)
(* Tools.                                                                   *)
(****************************************************************************)
TeTypeOK ==
  /\ tools \in BOOLEAN /\ handlers \in BOOLEAN
  /\ registrar \in {"idle", "second"}
  /\ state = [c \in Callers |-> state[c]]

\* The definition is there before the handler, and nothing takes it away.
ToolBeforeHandler ==
  /\ handlers => tools
  /\ registrar = "second" => tools

\* Who reads the definition has found the handler.
HandlerSeen == \A c \in Callers : state[c] = "read tool" => tools

TeInv == TeTypeOK /\ ToolBeforeHandler /\ HandlerSeen /\ HandlerHasTool

LEMMA InitTeInv == TeInit => TeInv
BY DEF TeInit, TeInv, TeTypeOK, ToolBeforeHandler, HandlerSeen, HandlerHasTool

\* A call that goes on, and not to the definition before there is one.
LEMMA BecomesTeInv ==
  ASSUME TeInv, NEW c \in Callers, NEW s, Becomes(c, s), s # "KeyError",
         s = "read tool" => tools, UNCHANGED <<tools, handlers, registrar>>
  PROVE  TeInv'
<1>1. state' = [state EXCEPT ![c] = s]
  BY DEF Becomes
<1>2. state'[c] = s /\ \A d \in Callers \ {c} : state'[d] = state[d]
  BY <1>1 DEF TeInv, TeTypeOK
<1>3. TeTypeOK'
  BY <1>1 DEF TeInv, TeTypeOK
<1> QED
  BY <1>2, <1>3 DEF TeInv, ToolBeforeHandler, HandlerSeen, HandlerHasTool

LEMMA NextTeInv == TeInv /\ [TeNext]_teVars => TeInv'
<1> SUFFICES ASSUME TeInv, [TeNext]_teVars PROVE TeInv'
  OBVIOUS
<1>1. CASE UNCHANGED teVars
  BY <1>1 DEF teVars, TeInv, TeTypeOK, ToolBeforeHandler, HandlerSeen, HandlerHasTool
<1>2. CASE Register
  <2>1. tools' = TRUE /\ handlers' \in BOOLEAN /\ registrar' \in {"idle", "second"} /\ state' = state
    BY <1>2 DEF Register, register, TeInv, TeTypeOK, ToolBeforeHandler
  <2> QED
    BY <2>1 DEF TeInv, TeTypeOK, ToolBeforeHandler, HandlerSeen, HandlerHasTool
<1>3. CASE TakeJob
  <2> DEFINE c == Head(submitted)
             s == IF state[c] = "queued" THEN "running" ELSE "nested"
  <2>1. state' = [state EXCEPT ![c] = s] /\ UNCHANGED <<tools, handlers, registrar>>
    BY <1>3 DEF TakeJob, Becomes
  <2>2. s # "KeyError" /\ s # "read tool"
    OBVIOUS
  <2> HIDE DEF c, s
  <2>3. TeTypeOK' /\ \A d \in Callers : state'[d] = state[d] \/ state'[d] = s
    BY <2>1 DEF TeInv, TeTypeOK
  <2> QED
    BY <2>1, <2>2, <2>3 DEF TeInv, ToolBeforeHandler, HandlerSeen, HandlerHasTool
<1>4. ASSUME NEW c \in Callers, ReadHandler(c) PROVE TeInv'
  <2> DEFINE s == IF handlers THEN "read tool" ELSE "failed"
  <2>1. Becomes(c, s) /\ UNCHANGED <<tools, handlers, registrar>>
    BY <1>4 DEF ReadHandler
  <2>2. s # "KeyError" /\ (s = "read tool" => tools)
    BY DEF TeInv, ToolBeforeHandler
  <2> QED  BY <2>1, <2>2, BecomesTeInv
<1>5. ASSUME NEW c \in Callers, ReadTool(c) PROVE TeInv'
  <2>1. tools
    BY <1>5 DEF ReadTool, TeInv, HandlerSeen
  <2>2. PICK s \in {"start", "failed"} : Becomes(c, s)
    BY <1>5, <2>1 DEF ReadTool
  <2>3. UNCHANGED <<tools, handlers, registrar>>
    BY <1>5 DEF ReadTool
  <2> QED  BY <2>2, <2>3, BecomesTeInv
<1>6. ASSUME NEW c \in Callers,
             Start(c) \/ Nest(c) \/ NestedEnds(c) \/ Run(c) \/ NextExecute(c)
      PROVE  TeInv'
  <2>1. UNCHANGED <<tools, handlers, registrar>>
    BY <1>6 DEF Start, Nest, NestedEnds, Run, NextExecute
  <2>2. PICK s \in {"queued", "running", "nest queued", "ok", "CancelledError", "failed", "idle"} :
          Becomes(c, s)
    BY <1>6 DEF Start, Nest, NestedEnds, Run, NextExecute
  <2> QED  BY <2>1, <2>2, BecomesTeInv
<1> QED  BY <1>1, <1>2, <1>3, <1>4, <1>5, <1>6 DEF TeNext, Progress

\* HandlerHasTool, for any number of threads that execute the tool while it is
\* registered, once or again.
THEOREM ToolFound == TeSpec => []HandlerHasTool
<1>1. TeInv => HandlerHasTool
  BY DEF TeInv
<1> QED  BY InitTeInv, NextTeInv, <1>1, PTL DEF TeSpec

--------------------------------------------------------------------------------
(****************************************************************************)
(* Files on their way in.                                                   *)
(****************************************************************************)
Rows == [kind : Kinds, scan : {"none", "ok", "infected", "unavailable", "timeout"}]

MuTypeOK ==
  /\ todo \in Seq(Kinds) /\ txn \in Seq(Rows)
  /\ status \in {"none", "ok", "infected", "unavailable", "timeout"}

\* There is a file in hand until the last is in the transaction.
FileInHand ==
  /\ step = "file" => todo # <<>> \/ txn # <<>>
  /\ step \in {"wait", "leave", "decide", "insert"} => todo # <<>>

\* Rows and answer are those of a call that has ended.
AtTheEnd ==
  /\ stored # <<>> => todo = <<>> /\ step = "answered"
  /\ answer = "media_ids" => stored = txn /\ stored # <<>> /\ step = "answered"

MuInv == MuTypeOK /\ FileInHand /\ AtTheEnd

LEMMA InitMuInv == MuInit => MuInv
BY DEF MuInit, MuInv, MuTypeOK, FileInHand, AtTheEnd

LEMMA UploadsAreFiles ==
  ASSUME NEW s \in BoundedSeq(Kinds, MaxFiles)
  PROVE  s \in Seq(Kinds)
<1>1. PICK n \in 0..MaxFiles : s \in [1..n -> Kinds]
  BY DEF BoundedSeq, SeqOf
<1>2. n \in Nat
  BY FileBound
<1> QED  BY <1>1, <1>2, SeqDef

LEMMA StartMuInv == ASSUME MuInv, upload \/ process_file PROVE MuInv'
<1>1. todo' \in Seq(Kinds) /\ todo' # <<>>
  <2>1. CASE upload
    BY <2>1, UploadsAreFiles DEF upload
  <2>2. CASE process_file
    <3>1. PICK k \in Kinds : todo' = <<k>>
      BY <2>2 DEF process_file
    <3> QED  BY <3>1
  <2> QED  BY <2>1, <2>2
<1>2. step = "idle" /\ step' = "file" /\ UNCHANGED <<status, txn, stored, answer>>
  BY DEF upload, process_file
<1> QED  BY <1>1, <1>2 DEF MuInv, MuTypeOK, FileInHand, AtTheEnd

\* An error leaves nothing stored, whatever it was.
LEMMA RejectMuInv ==
  ASSUME MuInv, NEW code, code # "media_ids", Reject(code),
         status' \in {"none", "ok", "infected", "unavailable", "timeout"}
  PROVE  MuInv'
<1>1. todo' = <<>> /\ txn' = <<>> /\ step' = "answered" /\ answer' = code
  BY DEF Reject
<1>2. <<>> \in Seq(Kinds) /\ <<>> \in Seq(Rows)
  OBVIOUS
<1> QED  BY <1>1, <1>2 DEF MuInv, MuTypeOK, FileInHand, AtTheEnd

\* Between a file and its row nothing of the database moves.
LEMMA OnwardMuInv ==
  ASSUME MuInv, todo # <<>>, step # "answered", UNCHANGED <<todo, txn, stored, answer>>,
         step' \in {"wait", "leave", "decide", "insert"},
         status' \in {"none", "ok", "infected", "unavailable", "timeout"}
  PROVE  MuInv'
BY DEF MuInv, MuTypeOK, FileInHand, AtTheEnd

LEMMA ScanMuInv == ASSUME MuInv, NextFile \/ ScanEnds \/ ScanReturns \/ ScanTimesOut \/ LeaveExecutor
                   PROVE  MuInv'
<1>1. status \in {"none", "ok", "infected", "unavailable", "timeout"}
  BY DEF MuInv, MuTypeOK
<1>2. CASE NextFile
  <2>1. status' = status /\ todo # <<>> /\ step = "file"
    BY <1>2 DEF NextFile
  <2>2. ASSUME NEW code \in {"413", "rejected", "503"}, Reject(code) PROVE MuInv'
    BY <1>1, <2>1, <2>2, RejectMuInv
  <2>3. ASSUME step' \in {"wait", "insert"}, UNCHANGED <<todo, txn, stored, answer>> PROVE MuInv'
    BY <1>1, <2>1, <2>3, OnwardMuInv
  <2> QED  BY <1>2, <2>2, <2>3 DEF NextFile
<1>3. CASE ScanEnds
  BY <1>3 DEF ScanEnds, MuInv, MuTypeOK, FileInHand, AtTheEnd
<1>4. CASE ScanReturns \/ ScanTimesOut \/ LeaveExecutor
  <2>1. /\ step \in {"wait", "leave"} /\ UNCHANGED <<todo, txn, stored, answer>>
        /\ step' \in {"leave", "decide"}
    BY <1>4 DEF ScanReturns, ScanTimesOut, LeaveExecutor
  <2>2. status' \in {"none", "ok", "infected", "unavailable", "timeout"}
    BY <1>1, <1>4 DEF ScanReturns, ScanTimesOut, LeaveExecutor, ScanStatus
  <2>3. todo # <<>>
    BY <2>1 DEF MuInv, FileInHand
  <2> QED  BY <2>1, <2>2, <2>3, OnwardMuInv
<1> QED  BY <1>2, <1>3, <1>4

LEMMA DecideMuInv == ASSUME MuInv, Decide PROVE MuInv'
<1>1. /\ step = "decide" /\ todo # <<>> /\ status' = status /\ stored' = stored
      /\ status \in {"none", "ok", "infected", "unavailable", "timeout"}
  BY DEF Decide, MuInv, MuTypeOK, FileInHand
<1>2. ASSUME NEW code \in {"503", "auto_escalate"}, Reject(code) PROVE MuInv'
  BY <1>1, <1>2, RejectMuInv
<1>3. CASE step' = "insert" /\ UNCHANGED <<txn, todo, answer>>
  BY <1>1, <1>3, OnwardMuInv
<1> QED  BY <1>2, <1>3 DEF Decide

LEMMA InsertMuInv == ASSUME MuInv, Insert PROVE MuInv'
<1>1. /\ step = "insert" /\ todo # <<>> /\ stored' = stored /\ todo \in Seq(Kinds) /\ txn \in Seq(Rows)
      /\ status \in {"none", "ok", "infected", "unavailable", "timeout"}
  BY DEF Insert, MuInv, MuTypeOK, FileInHand
<1>2. CASE Reject("500") /\ UNCHANGED status
  BY <1>1, <1>2, RejectMuInv
<1>3. CASE /\ txn' = Append(txn, [kind |-> Head(todo), scan |-> status])
           /\ todo' = Tail(todo) /\ step' = "file" /\ status' = "none"
           /\ UNCHANGED answer
  <2>1. Head(todo) \in Kinds /\ Tail(todo) \in Seq(Kinds)
    BY <1>1, HeadTailProperties
  <2>2. [kind |-> Head(todo), scan |-> status] \in Rows
    BY <1>1, <2>1 DEF Rows
  <2>3. txn' \in Seq(Rows) /\ Len(txn') = Len(txn) + 1
    BY <1>1, <1>3, <2>2, AppendProperties
  <2>4. txn' # <<>>
    <3>1. Len(txn) \in Nat
      BY <1>1, LenProperties
    <3>2. Len(txn') # 0
      BY <2>3, <3>1
    <3> QED  BY <3>2, EmptySeq
  <2>5. stored = <<>> /\ answer # "media_ids"
    BY <1>1 DEF MuInv, AtTheEnd
  <2> QED  BY <1>1, <1>3, <2>1, <2>3, <2>4, <2>5 DEF MuInv, MuTypeOK, FileInHand, AtTheEnd
<1> QED  BY <1>2, <1>3 DEF Insert

LEMMA CommitMuInv == ASSUME MuInv, Commit PROVE MuInv'
<1>1. /\ step = "file" /\ todo = <<>> /\ txn # <<>> /\ status' = status
      /\ status \in {"none", "ok", "infected", "unavailable", "timeout"}
  BY DEF Commit, MuInv, MuTypeOK, FileInHand
<1>2. CASE Reject("500")
  BY <1>1, <1>2, RejectMuInv
<1>3. CASE /\ stored' = txn /\ answer' = "media_ids" /\ step' = "answered"
           /\ UNCHANGED <<txn, todo>>
  BY <1>1, <1>3 DEF MuInv, MuTypeOK, FileInHand, AtTheEnd
<1> QED  BY <1>2, <1>3 DEF Commit

LEMMA NextMuInv == MuInv /\ [MuNext]_muVars => MuInv'
<1> SUFFICES ASSUME MuInv, [MuNext]_muVars PROVE MuInv'
  OBVIOUS
<1>1. CASE NextCall
  <2>1. <<>> \in Seq(Kinds) /\ <<>> \in Seq(Rows)
    OBVIOUS
  <2> QED  BY <1>1, <2>1 DEF NextCall, MuInv, MuTypeOK, FileInHand, AtTheEnd
<1>2. CASE UNCHANGED muVars
  BY <1>2 DEF muVars, MuInv, MuTypeOK, FileInHand, AtTheEnd
<1> QED
  BY <1>1, <1>2, StartMuInv, ScanMuInv, DecideMuInv, InsertMuInv, CommitMuInv DEF MuNext

\* AllOrNothing, for uploads of any number of files, whichever scan, row or commit
\* fails, and whether a failed commit was done or not.
THEOREM WholeUploads == MuSpec => []AllOrNothing
<1>1. MuInv => AllOrNothing
  BY DEF MuInv, AtTheEnd, AllOrNothing
<1> QED  BY InitMuInv, NextMuInv, <1>1, PTL DEF MuSpec

--------------------------------------------------------------------------------
(****************************************************************************)
(* The resolver and the cards.                                              *)
(****************************************************************************)

\* Who holds the lock is inside its request and has the real resolver to put back.
HolderRestores ==
  /\ dnsLock \in Clients \union {"free"}
  /\ \A c \in Clients : dnsLock = c => at[c] = "request" /\ original[c] = {}

AcShape == /\ at = [c \in Clients |-> at[c]] /\ original = [c \in Clients |-> original[c]]
           /\ began = [c \in Clients |-> began[c]]

AcInv == AcShape /\ HolderRestores /\ ResolverRestored

\* A card, or a failure, carries the time it was asked for.
Stamped == card.at = card.asked

LEMMA InitAcInv == AcInit => AcInv /\ Stamped
BY NoFreeClient
   DEF AcInit, NoCard, AcInv, AcShape, HolderRestores, ResolverRestored, Stamped

\* A step of a caller that holds nothing: the lock, the resolver and the others stay.
LEMMA OtherStepsAcInv ==
  ASSUME AcInv, NEW c \in Clients, NEW s, at[c] # "request", Go(c, s),
         UNCHANGED <<resolver, dnsLock>>,
         original' = original \/ original' = [original EXCEPT ![c] = {}],
         AcShape'
  PROVE  AcInv'
<1>1. dnsLock # c
  BY DEF AcInv, HolderRestores
<1>2. \A d \in Clients \ {c} : at'[d] = at[d] /\ original'[d] = original[d]
  BY DEF Go, AcInv, AcShape
<1> QED  BY <1>1, <1>2 DEF AcInv, HolderRestores, ResolverRestored

LEMMA PatchAcInv == ASSUME AcInv, NEW c \in Clients, Patch(c) PROVE AcInv'
<1>1. CASE /\ at[c] = "pin" /\ UNCHANGED <<resolver, dnsLock, original, began>>
           /\ \E s : Go(c, s)
  <2>1. PICK s : Go(c, s)
    BY <1>1
  <2>2. AcShape'
    BY <1>1, <2>1 DEF Go, AcInv, AcShape
  <2> QED  BY <1>1, <2>1, <2>2, OtherStepsAcInv
<1>2. CASE /\ dnsLock = "free" /\ dnsLock' = c
           /\ original' = [original EXCEPT ![c] = resolver]
           /\ Go(c, "request") /\ UNCHANGED began
  <2>1. resolver = {}
    BY <1>2 DEF AcInv, ResolverRestored
  <2>2. AcShape' /\ at'[c] = "request" /\ original'[c] = {}
    BY <1>2, <2>1 DEF Go, AcInv, AcShape
  <2> QED  BY <1>2, <2>2, NoFreeClient DEF AcInv, HolderRestores, ResolverRestored
<1> QED  BY <1>1, <1>2 DEF Patch

LEMMA StoreAcInv == ASSUME AcInv, NEW c \in Clients, Store(c) PROVE AcInv'
<1>1. /\ at[c] = "request" /\ Go(c, "done") /\ UNCHANGED <<began, original>>
      /\ IF dnsLock = c THEN dnsLock' = "free" /\ resolver' = original[c]
                        ELSE UNCHANGED <<dnsLock, resolver>>
  BY DEF Store, Answered
<1>2. /\ AcShape' /\ \A d \in Clients \ {c} : at'[d] = at[d]
  BY <1>1 DEF Go, AcInv, AcShape
<1>3. CASE dnsLock = c
  BY <1>1, <1>2, <1>3, NoFreeClient DEF AcInv, HolderRestores, ResolverRestored
<1>4. CASE dnsLock # c
  BY <1>1, <1>2, <1>4 DEF AcInv, HolderRestores, ResolverRestored
<1> QED  BY <1>3, <1>4

LEMMA NextAcInv == AcInv /\ [AcNext]_acVars => AcInv'
<1> SUFFICES ASSUME AcInv, [AcNext]_acVars PROVE AcInv'
  OBVIOUS
<1>1. CASE AcTick \/ DnsChanges \/ UNCHANGED acVars
  <2>1. UNCHANGED <<resolver, dnsLock, at, original, began>>
    BY <1>1 DEF AcTick, DnsChanges, acVars
  <2> QED  BY <2>1 DEF AcInv, AcShape, HolderRestores, ResolverRestored
<1>2. ASSUME NEW c \in Clients,
             list_tools(c) \/ execute(c) \/ Look(c) \/ Resolve(c) \/ Compare(c) \/ Return(c)
      PROVE  AcInv'
  <2>1. /\ at[c] # "request" /\ UNCHANGED <<resolver, dnsLock>>
        /\ original' = original \/ original' = [original EXCEPT ![c] = {}]
        /\ began' = began \/ \E b : began' = [began EXCEPT ![c] = b]
    BY <1>2 DEF list_tools, execute, Look, Resolve, Compare, Return
  <2>2. PICK s : Go(c, s)
    BY <1>2 DEF list_tools, execute, Look, Resolve, Compare, Return
  <2>3. AcShape'
    BY <2>1, <2>2 DEF Go, AcInv, AcShape
  <2> QED  BY <2>1, <2>2, <2>3, OtherStepsAcInv
<1> QED  BY <1>1, <1>2, PatchAcInv, StoreAcInv DEF AcNext

\* ResolverRestored, for any number of threads and however they interleave.
THEOREM Restored == AcSpec => []ResolverRestored
<1>1. AcInv => ResolverRestored
  BY DEF AcInv
<1> QED  BY InitAcInv, NextAcInv, <1>1, PTL DEF AcSpec

LEMMA NextStamped == Stamped /\ [AcNext]_acVars => Stamped'
<1> SUFFICES ASSUME Stamped, [AcNext]_acVars PROVE Stamped'
  OBVIOUS
<1>1. ASSUME NEW c \in Clients, Store(c) PROVE Stamped'
  <2>1. card' = card \/ \E k : card' = [kind |-> k, at |-> began[c], asked |-> began[c]]
    BY <1>1 DEF Store
  <2> QED  BY <2>1 DEF Stamped
<1>2. CASE UNCHANGED card
  BY <1>2 DEF Stamped
<1> QED
  BY <1>1, <1>2 DEF AcNext, acVars, AcTick, DnsChanges, list_tools, execute, Look, Resolve,
                    Compare, Patch, Return

\* Only a look finds a card, and it compares what it reads.
LEMMA LookedAt ==
  ASSUME AcInv, Stamped, [AcNext]_acVars, NEW c \in Clients, at[c] = "look", at'[c] = "cached"
  PROVE  began[c] - card.asked < Ttl
<1>1. Look(c)
  <2>1. ASSUME NEW d \in Clients, NEW s, Go(d, s) PROVE d = c /\ s = "cached"
    BY <2>1 DEF Go, AcInv, AcShape
  <2>2. at' # at
    OBVIOUS
  <2>3. PICK d \in Clients :
          \/ list_tools(d) \/ execute(d) \/ Look(d) \/ Resolve(d) \/ Compare(d) \/ Patch(d)
          \/ Store(d) \/ Return(d)
    BY <2>2 DEF AcNext, AcTick, DnsChanges, acVars
  <2>4. PICK s : Go(d, s)
    BY <2>3 DEF list_tools, execute, Look, Resolve, Compare, Patch, Store, Answered, Return
  <2>5. d = c
    BY <2>1, <2>4
  <2> QED
    BY <2>3, <2>5 DEF list_tools, execute, Look, Resolve, Compare, Patch, Store, Answered, Return
<1>2. card.kind # "absent" /\ began[c] - card.at < Ttl
  <2>1. at' = [at EXCEPT ![c] = IF card.kind # "absent" /\ began[c] - card.at < Ttl
                                THEN "cached" ELSE "resolve"]
    BY <1>1 DEF Look, Go
  <2> QED  BY <2>1 DEF AcInv, AcShape
<1> QED  BY <1>2 DEF Stamped

\* CardFresh, for any lifetimes and any number of threads.
THEOREM FreshCards == AcSpec => CardFresh
<1> DEFINE Fresh == \A c \in Clients :
                      at[c] = "look" /\ at'[c] = "cached" => began[c] - card.asked < Ttl
<1>1. AcInv /\ Stamped /\ [AcNext]_acVars => [Fresh]_acVars
  BY LookedAt
<1> QED
  BY InitAcInv, NextAcInv, NextStamped, <1>1, PTL DEF AcSpec, CardFresh

--------------------------------------------------------------------------------
(****************************************************************************)
(* Spans.                                                                   *)
(****************************************************************************)

TrTypeOK ==
  /\ stack \in Seq(Seq(Nat))
  /\ list \in [Tasks -> 0..Len(stack)]
  /\ spans \in Seq([task : Tasks, parent : Nat, trace : Nat])
  /\ nested \in [Tasks -> Seq(Nat)]
  /\ finished \in Seq(Nat)

\* A span is opened by one block and recorded once, and no list holds it twice.
Distinct ==
  /\ \A t \in Tasks : IsInjective(nested[t])
  /\ \A l \in DOMAIN stack : IsInjective(stack[l])
  /\ \A t, u \in Tasks : t # u => Range(nested[t]) \intersect Range(nested[u]) = {}
  /\ IsInjective(finished)

\* A span is on the list of the task whose block it is, and on no other.
NestedOnStack ==
  \A t \in Tasks : \A s \in Range(nested[t]) : list[t] # 0 /\ s \in Range(stack[list[t]])

OnStackNested ==
  \A l \in DOMAIN stack : \A s \in Range(stack[l]) :
    \E t \in Tasks : list[t] = l /\ s \in Range(nested[t])

\* A span has been opened, and is in the log when no block has it.
Logged ==
  /\ \A t \in Tasks : Range(nested[t]) \subseteq DOMAIN spans
  /\ Range(finished) \subseteq DOMAIN spans
  /\ \A s \in DOMAIN spans : s \in Range(finished) <=> \A t \in Tasks : s \notin Range(nested[t])

\* A task that is yet to be created has opened nothing.
Uncreated == \A t \in Tasks : creator[t] = "none" => nested[t] = <<>>

\* A span stays under its parent.
Traced ==
  \A s \in DOMAIN spans :
    spans[s].parent # 0 =>
      spans[s].parent \in DOMAIN spans /\ spans[spans[s].parent].trace = spans[s].trace

TrInv ==
  TrTypeOK /\ Distinct /\ NestedOnStack /\ OnStackNested /\ Logged /\ Uncreated /\ Traced

\* What is appended to a sequence, once.
LEMMA Appended ==
  ASSUME NEW q \in Seq(Nat), NEW x \in Nat, x \notin Range(q)
  PROVE  /\ Append(q, x) \in Seq(Nat)
         /\ Range(Append(q, x)) = Range(q) \union {x}
         /\ IsInjective(q) => IsInjective(Append(q, x))
<1>1. /\ Append(q, x) \in Seq(Nat) /\ Len(Append(q, x)) = Len(q) + 1
      /\ \A i \in 1..Len(q) : Append(q, x)[i] = q[i]
      /\ Append(q, x)[Len(q) + 1] = x
  BY AppendProperties
<1>2. /\ DOMAIN q = 1..Len(q) /\ DOMAIN Append(q, x) = 1..Len(Append(q, x))
      /\ Len(q) \in Nat
  BY <1>1, LenProperties
<1>3. DOMAIN Append(q, x) = DOMAIN q \union {Len(q) + 1}
  BY <1>1, <1>2
<1>4. \A i \in DOMAIN q : Append(q, x)[i] = q[i] /\ q[i] # x
  BY <1>1, <1>2 DEF Range
<1> QED BY <1>1, <1>3, <1>4 DEF Range, IsInjective

\* What is removed from a sequence of different things.
LEMMA Removed ==
  ASSUME NEW q \in Seq(Nat), NEW k \in DOMAIN q, IsInjective(q)
  PROVE  /\ RemoveAt(q, k) \in Seq(Nat)
         /\ Range(RemoveAt(q, k)) = Range(q) \ {q[k]}
         /\ IsInjective(RemoveAt(q, k))
<1> DEFINE n == Len(q)
           a == SubSeq(q, 1, k - 1)
           b == SubSeq(q, k + 1, n)
           r == RemoveAt(q, k)
<1>1. n \in Nat /\ DOMAIN q = 1..n /\ k \in 1..n /\ \A i \in 1..n : q[i] \in Nat
  BY LenProperties, ElementOfSeq
<1>2. a \in Seq(Nat) /\ Len(a) = k - 1 /\ \A i \in 1..(k - 1) : a[i] = q[i]
  <2> HIDE DEF n
  <2>1. 1 \in Int /\ k - 1 \in Int /\ \A i \in 1..(k - 1) : q[i] \in Nat
    BY <1>1
  <2>2. /\ a \in Seq(Nat) /\ Len(a) = IF 1 <= k - 1 THEN (k - 1) - 1 + 1 ELSE 0
        /\ \A i \in 1..((k - 1) - 1 + 1) : a[i] = q[1 + i - 1]
    BY <2>1, SubSeqProperties
  <2> HIDE DEF a
  <2> QED  BY <1>1, <2>2
<1>3. b \in Seq(Nat) /\ Len(b) = n - k /\ \A i \in 1..(n - k) : b[i] = q[k + i]
  <2> HIDE DEF n
  <2>1. k + 1 \in Int /\ n \in Int /\ \A i \in (k + 1)..n : q[i] \in Nat
    BY <1>1
  <2>2. /\ b \in Seq(Nat) /\ Len(b) = IF k + 1 <= n THEN n - (k + 1) + 1 ELSE 0
        /\ \A i \in 1..(n - (k + 1) + 1) : b[i] = q[(k + 1) + i - 1]
    BY <2>1, SubSeqProperties, SMTT(30)
  <2> HIDE DEF b
  <2>3. Len(b) = n - k /\ n - (k + 1) + 1 = n - k
    BY <1>1, <2>2
  <2>4. \A i \in 1..(n - k) : (k + 1) + i - 1 = k + i
    BY <1>1
  <2> QED  BY <2>2, <2>3, <2>4
<1>4. r = a \o b
  BY DEF RemoveAt
<1>5. /\ r \in Seq(Nat) /\ Len(r) = Len(a) + Len(b)
      /\ \A i \in 1..(Len(a) + Len(b)) : r[i] = IF i <= Len(a) THEN a[i] ELSE b[i - Len(a)]
  <2> HIDE DEF a, b, r
  <2> QED  BY <1>2, <1>3, <1>4, ConcatProperties
<1> HIDE DEF a, b, r, n
<1>6. DOMAIN r = 1..(n - 1)
  BY <1>1, <1>2, <1>3, <1>5, LenProperties
<1>7. \A i \in 1..(n - 1) : r[i] = IF i <= k - 1 THEN q[i] ELSE q[i + 1]
  <2> TAKE i \in 1..(n - 1)
  <2>1. CASE i <= k - 1
    BY <1>1, <1>2, <1>3, <1>5, <2>1, SMTT(30)
  <2>2. CASE ~(i <= k - 1)
    <3>1. i - (k - 1) \in 1..(n - k) /\ k + (i - (k - 1)) = i + 1
      BY <1>1, <2>2
    <3>2. i \in 1..(Len(a) + Len(b)) /\ ~(i <= Len(a)) /\ i - Len(a) = i - (k - 1)
      BY <1>1, <1>2, <1>3, <2>2
    <3>3. r[i] = b[i - (k - 1)]
      BY <1>5, <3>2
    <3> QED  BY <1>3, <2>2, <3>1, <3>3
  <2> QED  BY <2>1, <2>2
<1>8. IsInjective(r)
  <2> SUFFICES ASSUME NEW i \in 1..(n - 1), NEW j \in 1..(n - 1), r[i] = r[j] PROVE i = j
    BY <1>6 DEF IsInjective
  <2>1. \A x, y \in 1..n : q[x] = q[y] => x = y
    BY <1>1 DEF IsInjective
  <2> DEFINE from(x) == IF x <= k - 1 THEN x ELSE x + 1
  <2>2. from(i) \in 1..n /\ from(j) \in 1..n
    BY <1>1
  <2>3. r[i] = q[from(i)] /\ r[j] = q[from(j)]
    BY <1>7
  <2>4. from(i) = from(j)
    <3> HIDE DEF from
    <3> QED  BY <2>1, <2>2, <2>3
  <2> QED  BY <1>1, <2>4
<1>9. \A x : x \in Range(r) <=> x \in Range(q) /\ x # q[k]
  <2> TAKE x
  <2>1. ASSUME x \in Range(r) PROVE x \in Range(q) /\ x # q[k]
    <3>1. PICK i \in 1..(n - 1) : x = r[i]
      BY <1>6, <2>1 DEF Range
    <3>2. PICK j \in 1..n : x = q[j] /\ j # k
      BY <1>1, <1>7, <3>1, SMTT(30)
    <3> QED  BY <1>1, <3>2 DEF Range, IsInjective
  <2>2. ASSUME x \in Range(q), x # q[k] PROVE x \in Range(r)
    <3>1. PICK i \in 1..n : x = q[i]
      BY <1>1, <2>2 DEF Range
    <3>2. i # k
      BY <2>2, <3>1
    <3>3. \E j \in 1..(n - 1) : r[j] = q[i]
      <4>1. CASE i < k
        <5>1. i \in 1..(n - 1) /\ i <= k - 1
          BY <1>1, <4>1
        <5> QED  BY <1>7, <5>1
      <4>2. CASE i > k
        <5>1. i - 1 \in 1..(n - 1) /\ ~(i - 1 <= k - 1) /\ (i - 1) + 1 = i
          BY <1>1, <4>2
        <5> QED  BY <1>7, <5>1
      <4> QED  BY <1>1, <3>2, <4>1, <4>2
    <3> QED  BY <1>6, <3>1, <3>3 DEF Range
  <2> QED  BY <2>1, <2>2
<1> QED  BY <1>5, <1>8, <1>9 DEF r

\* The last of a sequence of different things, taken off.
LEMMA FrontRest ==
  ASSUME NEW q \in Seq(Nat), q # <<>>, IsInjective(q)
  PROVE  /\ Front(q) \in Seq(Nat) /\ IsInjective(Front(q))
         /\ Last(q) \in Range(q) /\ Last(q) \in Nat
         /\ Range(Front(q)) = Range(q) \ {Last(q)}
<1> DEFINE n == Len(q)
<1>1. n \in Nat \ {0} /\ DOMAIN q = 1..n /\ \A i \in 1..n : q[i] \in Nat
  BY EmptySeq, LenProperties, ElementOfSeq
<1>2. Last(q) = q[n] /\ n \in DOMAIN q /\ q[n] \in Nat
  BY <1>1 DEF Last
<1>3. Front(q) = SubSeq(q, 1, n - 1)
  BY DEF Front
<1>4. /\ SubSeq(q, 1, n - 1) \in Seq(Nat)
      /\ Len(SubSeq(q, 1, n - 1)) = IF 1 <= n - 1 THEN (n - 1) - 1 + 1 ELSE 0
      /\ \A i \in 1..((n - 1) - 1 + 1) : SubSeq(q, 1, n - 1)[i] = q[1 + i - 1]
  <2> HIDE DEF n
  <2>1. 1 \in Int /\ n - 1 \in Int /\ \A i \in 1..(n - 1) : q[i] \in Nat
    BY <1>1
  <2> QED  BY <2>1, SubSeqProperties
<1> DEFINE r == Front(q)
<1>5. r \in Seq(Nat) /\ Len(r) = n - 1 /\ \A i \in 1..(n - 1) : r[i] = q[i]
  <2> HIDE DEF n
  <2> QED  BY <1>1, <1>3, <1>4
<1> HIDE DEF r, n
<1>6. DOMAIN r = 1..(n - 1)
  BY <1>5, LenProperties
<1>7. IsInjective(r)
  BY <1>1, <1>5, <1>6, SMTT(30) DEF IsInjective
<1>8. \A x : x \in Range(r) <=> x \in Range(q) /\ x # q[n]
  <2> TAKE x
  <2>1. \A i \in 1..n : i # n <=> i \in 1..(n - 1)
    BY <1>1
  <2>2. x \in Range(r) <=> \E i \in 1..(n - 1) : x = q[i]
    BY <1>5, <1>6 DEF Range
  <2>3. x \in Range(q) <=> \E i \in 1..n : x = q[i]
    BY <1>1 DEF Range
  <2>4. \A i \in 1..n : q[i] = q[n] => i = n
    BY <1>1 DEF IsInjective
  <2>5. 1..(n - 1) \subseteq 1..n
    BY <1>1
  <2> QED  BY <2>1, <2>2, <2>3, <2>4, <2>5
<1>9. Last(q) \in Range(q)
  BY <1>2 DEF Range
<1> QED  BY <1>2, <1>5, <1>7, <1>8, <1>9 DEF r

LEMMA InitTrInv == TrInit => TrInv
<1> SUFFICES ASSUME TrInit PROVE TrInv
  OBVIOUS
<1>1. DOMAIN <<>> = {} /\ \A S : <<>> \in Seq(S) /\ Len(<<>>) = 0
  BY EmptySeq
<1>2. Range(<<>>) = {} /\ IsInjective(<<>>)
  BY <1>1 DEF Range, IsInjective
<1>3. TrTypeOK
  BY <1>1 DEF TrInit, TrTypeOK
<1> QED
  BY <1>1, <1>2, <1>3 DEF TrInit, TrInv, Distinct, NestedOnStack, OnStackNested, Logged,
                           Uncreated, Traced

LEMMA SpawnTrInv ==
  ASSUME TrInv, NEW t \in Tasks, NEW u \in Tasks, NEW copied \in BOOLEAN, Spawn(t, u, copied)
  PROVE  TrInv'
<1>1. /\ creator[t] # "none" /\ creator[u] = "none"
      /\ creator' = [creator EXCEPT ![u] = t]
      /\ list' = [list EXCEPT ![u] = IF copied THEN list[t] ELSE 0]
      /\ UNCHANGED <<stack, spans, nested, finished>>
  BY DEF Spawn
<1>2. nested[u] = <<>> /\ Range(nested[u]) = {}
  <2>1. DOMAIN <<>> = {}
    BY EmptySeq
  <2> QED  BY <1>1, <2>1 DEF TrInv, Uncreated, Range
<1>3. list' \in [Tasks -> 0..Len(stack)] /\ \A v \in Tasks : v # u => list'[v] = list[v]
  BY <1>1 DEF TrInv, TrTypeOK
<1>4. TrTypeOK' /\ Distinct' /\ Logged' /\ Traced'
  BY <1>1, <1>3 DEF TrInv, TrTypeOK, Distinct, Logged, Traced
<1>5. NestedOnStack'
  <2> SUFFICES ASSUME NEW v \in Tasks, NEW s \in Range(nested[v])
               PROVE  list'[v] # 0 /\ s \in Range(stack[list'[v]])
    BY <1>1 DEF NestedOnStack
  <2> QED  BY <1>2, <1>3 DEF TrInv, NestedOnStack
<1>6. OnStackNested'
  <2> SUFFICES ASSUME NEW l \in DOMAIN stack, NEW s \in Range(stack[l])
               PROVE  \E v \in Tasks : list'[v] = l /\ s \in Range(nested[v])
    BY <1>1 DEF OnStackNested
  <2>1. PICK v \in Tasks : list[v] = l /\ s \in Range(nested[v])
    BY DEF TrInv, OnStackNested
  <2> QED  BY <1>2, <1>3, <2>1
<1>7. Uncreated'
  <2> SUFFICES ASSUME NEW v \in Tasks, creator'[v] = "none" PROVE nested[v] = <<>>
    BY <1>1 DEF Uncreated
  <2>1. CASE v = u
    BY <1>2, <2>1
  <2>2. CASE v # u
    BY <1>1, <2>2 DEF TrInv, Uncreated
  <2> QED  BY <2>1, <2>2
<1> QED  BY <1>4, <1>5, <1>6, <1>7 DEF TrInv

LEMMA OpenTrInv == ASSUME TrInv, NEW t \in Tasks, Open(t) PROVE TrInv'
<1> DEFINE l == _get_active_spans(t)
           s == Len(spans) + 1
           old == IF list[t] = 0 THEN <<>> ELSE stack[l]
           parent == IF old = <<>> THEN 0 ELSE Last(old)
           span == [task |-> t, parent |-> parent,
                    trace |-> IF parent = 0 THEN s ELSE spans[parent].trace]
<1>1. /\ creator[t] # "none"
      /\ list' = [list EXCEPT ![t] = l]
      /\ stack' = IF list[t] = 0 THEN Append(stack, <<s>>) ELSE [stack EXCEPT ![l] = Append(@, s)]
      /\ spans' = Append(spans, span)
      /\ nested' = [nested EXCEPT ![t] = Append(@, s)]
      /\ creator' = creator /\ finished' = finished
  BY DEF Open
<1>2. /\ stack \in Seq(Seq(Nat)) /\ Len(stack) \in Nat /\ DOMAIN stack = 1..Len(stack)
      /\ spans \in Seq([task : Tasks, parent : Nat, trace : Nat])
      /\ Len(spans) \in Nat /\ DOMAIN spans = 1..Len(spans)
      /\ list \in [Tasks -> 0..Len(stack)]
      /\ nested \in [Tasks -> Seq(Nat)] /\ finished \in Seq(Nat)
  BY LenProperties DEF TrInv, TrTypeOK
<1>3. s \in Nat \ {0} /\ s \notin DOMAIN spans
  BY <1>2
<1>4. \A k \in DOMAIN stack : Range(stack[k]) \subseteq DOMAIN spans
  BY DEF TrInv, OnStackNested, Logged
<1>5. /\ old \in Seq(Nat) /\ s \notin Range(old) /\ IsInjective(old)
      /\ Range(old) \subseteq DOMAIN spans
  <2>1. CASE list[t] = 0
    <3>1. <<>> \in Seq(Nat) /\ DOMAIN <<>> = {}
      BY EmptySeq
    <3> QED  BY <2>1, <3>1 DEF Range, IsInjective
  <2>2. CASE list[t] # 0
    <3>1. l \in DOMAIN stack
      BY <1>2, <2>2 DEF _get_active_spans
    <3>2. stack[l] \in Seq(Nat)
      BY <1>2, <3>1, ElementOfSeq
    <3> QED  BY <1>3, <1>4, <2>2, <3>1, <3>2 DEF TrInv, Distinct
  <2> QED  BY <2>1, <2>2
<1>6. /\ stack' \in Seq(Seq(Nat)) /\ Len(stack) <= Len(stack') /\ Len(stack') \in Nat
      /\ DOMAIN stack' = DOMAIN stack \union {l}
      /\ l \in 1..Len(stack')
      /\ stack'[l] = Append(old, s)
      /\ \A k \in DOMAIN stack : k # l => stack'[k] = stack[k]
  <2>0. Append(old, s) \in Seq(Nat)
    BY <1>3, <1>5, AppendProperties
  <2>1. CASE list[t] = 0
    <3>1. Append(old, s) = <<s>> /\ l = Len(stack) + 1 /\ stack' = Append(stack, Append(old, s))
      BY <1>1, <2>1 DEF _get_active_spans
    <3> HIDE DEF l, s, old
    <3>2. /\ stack' \in Seq(Seq(Nat)) /\ Len(stack') = Len(stack) + 1
          /\ \A k \in 1..Len(stack) : stack'[k] = stack[k]
          /\ stack'[Len(stack) + 1] = Append(old, s)
      BY <1>2, <2>0, <3>1, AppendProperties
    <3>3. DOMAIN stack' = 1..Len(stack')
      BY <3>2, LenProperties
    <3> QED  BY <1>2, <3>1, <3>2, <3>3
  <2>2. CASE list[t] # 0
    <3>1. l \in 1..Len(stack) /\ stack' = [stack EXCEPT ![l] = Append(old, s)]
      BY <1>1, <1>2, <2>2 DEF _get_active_spans
    <3> HIDE DEF l, s, old
    <3>2. /\ stack' \in Seq(Seq(Nat)) /\ Len(stack') = Len(stack)
          /\ \A k \in 1..Len(stack) : stack'[k] = IF k = l THEN Append(old, s) ELSE stack[k]
      BY <1>2, <2>0, <3>1, ExceptSeq
    <3> QED  BY <1>2, <3>1, <3>2
  <2> QED  BY <2>1, <2>2
<1>7. /\ Range(stack'[l]) = Range(old) \union {s}
      /\ IsInjective(stack'[l])
  <2> HIDE DEF old, s, l
  <2> QED  BY <1>3, <1>5, <1>6, Appended
<1>8. \A k \in DOMAIN stack : k # l \/ stack[k] = old
  BY <1>2 DEF _get_active_spans
<1>9. /\ nested' \in [Tasks -> Seq(Nat)]
      /\ Range(nested'[t]) = Range(nested[t]) \union {s}
      /\ IsInjective(nested'[t])
      /\ \A u \in Tasks : u # t => nested'[u] = nested[u]
  <2> HIDE DEF s
  <2>1. nested[t] \in Seq(Nat) /\ s \notin Range(nested[t]) /\ IsInjective(nested[t])
    BY <1>2, <1>3 DEF TrInv, Logged, Distinct
  <2>2. nested'[t] = Append(nested[t], s)
    BY <1>1, <1>2
  <2>3. nested'[t] \in Seq(Nat)
    BY <1>3, <2>1, <2>2, Appended
  <2> QED  BY <1>1, <1>2, <1>3, <2>1, <2>2, <2>3, Appended
<1>10. parent \in Nat /\ (parent # 0 => parent \in DOMAIN spans)
  <2>1. ASSUME old # <<>> PROVE Last(old) \in DOMAIN spans
    <3> HIDE DEF old
    <3> QED  BY <1>5, <2>1, FrontRest
  <2> QED  BY <1>2, <2>1
<1>11. span \in [task : Tasks, parent : Nat, trace : Nat]
  <2>1. ASSUME parent # 0 PROVE spans[parent].trace \in Nat
    <3> HIDE DEF parent
    <3>1. spans[parent] \in [task : Tasks, parent : Nat, trace : Nat]
      BY <1>2, <1>10, <2>1, ElementOfSeq
    <3> QED  BY <3>1
  <2> HIDE DEF parent
  <2> QED  BY <1>3, <1>10, <2>1
<1>12. /\ spans' \in Seq([task : Tasks, parent : Nat, trace : Nat])
       /\ DOMAIN spans' = DOMAIN spans \union {s}
       /\ spans'[s] = span
       /\ \A x \in DOMAIN spans : spans'[x] = spans[x]
  <2> HIDE DEF span
  <2>1. /\ spans' \in Seq([task : Tasks, parent : Nat, trace : Nat])
        /\ Len(spans') = Len(spans) + 1
        /\ \A x \in 1..Len(spans) : spans'[x] = spans[x]
        /\ spans'[Len(spans) + 1] = span
    BY <1>1, <1>2, <1>11, AppendProperties
  <2>2. DOMAIN spans' = 1..Len(spans')
    BY <2>1, LenProperties
  <2>3. 1..(Len(spans) + 1) = 1..Len(spans) \union {Len(spans) + 1}
    BY <1>2
  <2>4. DOMAIN spans' = DOMAIN spans \union {s}
    BY <1>2, <2>1, <2>2, <2>3
  <2> QED  BY <1>2, <2>1, <2>4
<1>13. list' \in [Tasks -> 0..Len(stack')] /\ list'[t] = l
       /\ \A u \in Tasks : u # t => list'[u] = list[u]
  <2> HIDE DEF l
  <2> QED  BY <1>1, <1>2, <1>6
<1>14. /\ list[t] # 0 => l = list[t]
       /\ list[t] = 0 => Range(nested[t]) = {} /\ l \notin DOMAIN stack
  BY <1>2 DEF TrInv, NestedOnStack, _get_active_spans
<1>15. Range(nested[t]) \subseteq Range(old)
  BY <1>14 DEF TrInv, NestedOnStack
<1> HIDE DEF l, s, old, parent
<1>16. TrTypeOK'
  BY <1>1, <1>2, <1>6, <1>9, <1>12, <1>13 DEF TrTypeOK
<1>17. \A u \in Tasks : s \notin Range(nested[u])
  BY <1>3 DEF TrInv, Logged
<1>18. Distinct'
  <2>1. \A u \in Tasks : IsInjective(nested'[u])
    BY <1>9 DEF TrInv, Distinct
  <2>2. \A k \in DOMAIN stack' : IsInjective(stack'[k])
    BY <1>6, <1>7 DEF TrInv, Distinct
  <2>3. ASSUME NEW u \in Tasks, NEW v \in Tasks, u # v
        PROVE  Range(nested'[u]) \intersect Range(nested'[v]) = {}
    <3>1. Range(nested[u]) \intersect Range(nested[v]) = {}
      BY <2>3 DEF TrInv, Distinct
    <3>2. \A w \in Tasks : Range(nested'[w]) = IF w = t THEN Range(nested[w]) \union {s}
                                              ELSE Range(nested[w])
      BY <1>9
    <3> QED  BY <1>17, <2>3, <3>1, <3>2
  <2> QED  BY <1>1, <2>1, <2>2, <2>3 DEF TrInv, Distinct
<1>19. NestedOnStack'
  <2> SUFFICES ASSUME NEW u \in Tasks, NEW x \in Range(nested'[u])
               PROVE  list'[u] # 0 /\ x \in Range(stack'[list'[u]])
    BY DEF NestedOnStack
  <2>1. CASE u = t
    <3>1. x \in Range(nested[t]) \union {s}
      BY <1>9, <2>1
    <3>2. x \in Range(stack'[l])
      BY <1>7, <1>15, <3>1
    <3>3. list'[t] = l /\ l # 0
      BY <1>6, <1>13
    <3> QED  BY <2>1, <3>2, <3>3
  <2>2. CASE u # t
    <3>1. list[u] # 0 /\ x \in Range(stack[list[u]]) /\ list[u] \in DOMAIN stack
      BY <1>2, <1>9, <2>2 DEF TrInv, NestedOnStack
    <3> QED  BY <1>6, <1>7, <1>8, <1>13, <2>2, <3>1
  <2> QED  BY <2>1, <2>2
<1>20. OnStackNested'
  <2> SUFFICES ASSUME NEW k \in DOMAIN stack', NEW x \in Range(stack'[k])
               PROVE  \E u \in Tasks : list'[u] = k /\ x \in Range(nested'[u])
    BY DEF OnStackNested
  <2>1. CASE k = l /\ x = s
    BY <1>9, <1>13, <2>1
  <2>2. CASE ~(k = l /\ x = s)
    <3>1. k \in DOMAIN stack /\ x \in Range(stack[k])
      <4>1. CASE k # l
        BY <1>6, <4>1
      <4>2. CASE k = l
        <5>1. x \in Range(old)
          BY <1>7, <2>2, <4>2
        <5>2. list[t] # 0 /\ k \in DOMAIN stack
          <6>1. DOMAIN <<>> = {}
            BY EmptySeq
          <6>2. list[t] # 0
            BY <5>1, <6>1 DEF old, Range
          <6> QED  BY <1>2, <1>14, <4>2, <6>2
        <5> QED  BY <1>8, <4>2, <5>1, <5>2
      <4> QED  BY <4>1, <4>2
    <3>2. PICK u \in Tasks : list[u] = k /\ x \in Range(nested[u])
      BY <3>1 DEF TrInv, OnStackNested
    <3>3. list'[u] = k
      BY <1>2, <1>13, <1>14, <3>1, <3>2
    <3> QED  BY <1>9, <3>2, <3>3
  <2> QED  BY <2>1, <2>2
<1>21. Logged'
  <2>1. \A u \in Tasks : Range(nested'[u]) \subseteq DOMAIN spans'
    BY <1>9, <1>12 DEF TrInv, Logged
  <2>2. Range(finished') \subseteq DOMAIN spans /\ finished' = finished
    BY <1>1 DEF TrInv, Logged
  <2>3. ASSUME NEW x \in DOMAIN spans'
        PROVE  x \in Range(finished') <=> \A u \in Tasks : x \notin Range(nested'[u])
    <3>1. CASE x = s
      BY <1>3, <1>9, <2>2, <3>1
    <3>2. CASE x # s
      BY <1>9, <1>12, <2>2, <3>2 DEF TrInv, Logged
    <3> QED  BY <3>1, <3>2
  <2> QED  BY <1>12, <2>1, <2>2, <2>3 DEF Logged
<1>22. Uncreated'
  BY <1>1, <1>9 DEF TrInv, Uncreated
<1>23. Traced'
  <2> SUFFICES ASSUME NEW x \in DOMAIN spans', spans'[x].parent # 0
               PROVE  /\ spans'[x].parent \in DOMAIN spans'
                      /\ spans'[spans'[x].parent].trace = spans'[x].trace
    BY DEF Traced
  <2>1. CASE x = s
    <3>1. spans'[x].parent = parent /\ parent # 0 /\ spans'[x].trace = spans[parent].trace
      BY <1>12, <2>1
    <3> QED  BY <1>10, <1>12, <3>1
  <2>2. CASE x # s
    BY <1>12, <2>2 DEF TrInv, Traced
  <2> QED  BY <2>1, <2>2
<1> QED  BY <1>16, <1>18, <1>19, <1>20, <1>21, <1>22, <1>23 DEF TrInv

LEMMA CloseTrInv == ASSUME TrInv, NEW t \in Tasks, Close(t) PROVE TrInv'
<1> DEFINE s == Last(nested[t])
           l == list[t]
           open == stack[l]
           k == CHOOSE i \in DOMAIN open : open[i] = s
<1>1. /\ nested[t] # <<>>
      /\ IF s \in Range(open)
         THEN stack' = [stack EXCEPT ![l] = RemoveAt(open, k)] /\ finished' = Append(finished, s)
         ELSE UNCHANGED <<stack, finished>>
      /\ nested' = [nested EXCEPT ![t] = Front(@)]
      /\ UNCHANGED <<creator, list, spans>>
  BY DEF Close, Popped
<1>2. /\ stack \in Seq(Seq(Nat)) /\ Len(stack) \in Nat /\ DOMAIN stack = 1..Len(stack)
      /\ spans \in Seq([task : Tasks, parent : Nat, trace : Nat])
      /\ list \in [Tasks -> 0..Len(stack)]
      /\ nested \in [Tasks -> Seq(Nat)] /\ finished \in Seq(Nat)
  BY LenProperties DEF TrInv, TrTypeOK
<1>3. /\ Front(nested[t]) \in Seq(Nat) /\ IsInjective(Front(nested[t]))
      /\ s \in Range(nested[t]) /\ s \in Nat
      /\ Range(Front(nested[t])) = Range(nested[t]) \ {s}
  <2>1. nested[t] \in Seq(Nat) /\ IsInjective(nested[t])
    BY <1>2 DEF TrInv, Distinct
  <2> QED  BY <1>1, <2>1, FrontRest
<1>4. l \in DOMAIN stack /\ s \in Range(open) /\ open \in Seq(Nat) /\ IsInjective(open)
  <2>1. l # 0 /\ s \in Range(open)
    BY <1>3 DEF TrInv, NestedOnStack
  <2>2. l \in DOMAIN stack
    BY <1>2, <2>1
  <2>3. open \in Seq(Nat)
    BY <1>2, <2>2, ElementOfSeq
  <2> QED  BY <2>1, <2>2, <2>3 DEF TrInv, Distinct
<1>5. k \in DOMAIN open /\ open[k] = s
  BY <1>4 DEF Range
<1>6. /\ RemoveAt(open, k) \in Seq(Nat) /\ IsInjective(RemoveAt(open, k))
      /\ Range(RemoveAt(open, k)) = Range(open) \ {s}
  <2> HIDE DEF open, k, s
  <2> QED  BY <1>4, <1>5, Removed
<1>7. /\ stack' \in Seq(Seq(Nat)) /\ Len(stack') = Len(stack) /\ DOMAIN stack' = DOMAIN stack
      /\ stack'[l] = RemoveAt(open, k)
      /\ \A m \in DOMAIN stack : m # l => stack'[m] = stack[m]
  <2>1. stack' = [stack EXCEPT ![l] = RemoveAt(open, k)]
    BY <1>1, <1>4
  <2> HIDE DEF open, k, s, l
  <2>2. /\ stack' \in Seq(Seq(Nat)) /\ Len(stack') = Len(stack)
        /\ \A m \in 1..Len(stack) : stack'[m] = IF m = l THEN RemoveAt(open, k) ELSE stack[m]
    BY <1>2, <1>4, <1>6, <2>1, ExceptSeq
  <2>3. DOMAIN stack' = 1..Len(stack')
    BY <2>2, LenProperties
  <2> QED  BY <1>2, <1>4, <2>2, <2>3
<1>8. /\ nested' \in [Tasks -> Seq(Nat)]
      /\ IsInjective(nested'[t])
      /\ \A x : x \in Range(nested'[t]) <=> x \in Range(nested[t]) /\ x # s
      /\ \A u \in Tasks : u # t => nested'[u] = nested[u]
  <2>1. nested'[t] = Front(nested[t]) /\ nested'[t] \in Seq(Nat)
    BY <1>1, <1>2, <1>3
  <2> HIDE DEF s
  <2> QED  BY <1>1, <1>2, <1>3, <2>1
<1>9. s \in DOMAIN spans /\ s \notin Range(finished)
  BY <1>3 DEF TrInv, Logged
<1>10. /\ finished' \in Seq(Nat) /\ IsInjective(finished')
       /\ Range(finished') = Range(finished) \union {s}
  <2>1. finished' = Append(finished, s)
    BY <1>1, <1>4
  <2> HIDE DEF s
  <2> QED  BY <1>2, <1>3, <1>9, <2>1, Appended DEF TrInv, Distinct
<1>11. \A u \in Tasks : u # t => s \notin Range(nested[u])
  BY <1>3 DEF TrInv, Distinct
<1>12. \A m \in DOMAIN stack : m # l => s \notin Range(stack[m])
  <2> SUFFICES ASSUME NEW m \in DOMAIN stack, m # l, s \in Range(stack[m]) PROVE FALSE
    OBVIOUS
  <2>1. PICK u \in Tasks : list[u] = m /\ s \in Range(nested[u])
    BY DEF TrInv, OnStackNested
  <2> QED  BY <1>11, <2>1
<1>13. UNCHANGED <<creator, list, spans>>
  BY <1>1
<1>14. \A u \in Tasks : \A x : x \in Range(nested'[u]) <=> x \in Range(nested[u]) /\ x # s
  BY <1>8, <1>11
<1>15. \A m \in DOMAIN stack : \A x : x \in Range(stack'[m]) <=> x \in Range(stack[m]) /\ x # s
  BY <1>6, <1>7, <1>12
<1> HIDE DEF s, k, open
<1>16. TrTypeOK'
  BY <1>2, <1>7, <1>8, <1>10, <1>13 DEF TrTypeOK
<1>17. Distinct'
  <2>1. \A u \in Tasks : IsInjective(nested'[u])
    BY <1>8 DEF TrInv, Distinct
  <2>2. \A m \in DOMAIN stack' : IsInjective(stack'[m])
    BY <1>6, <1>7 DEF TrInv, Distinct
  <2>3. ASSUME NEW u \in Tasks, NEW v \in Tasks, u # v
        PROVE  Range(nested'[u]) \intersect Range(nested'[v]) = {}
    BY <1>14, <2>3 DEF TrInv, Distinct
  <2> QED  BY <1>10, <2>1, <2>2, <2>3 DEF Distinct
<1>18. NestedOnStack'
  <2> SUFFICES ASSUME NEW u \in Tasks, NEW x \in Range(nested'[u])
               PROVE  list[u] # 0 /\ x \in Range(stack'[list[u]])
    BY <1>13 DEF NestedOnStack
  <2>1. x \in Range(nested[u]) /\ x # s
    BY <1>14
  <2>2. list[u] # 0 /\ x \in Range(stack[list[u]]) /\ list[u] \in DOMAIN stack
    BY <1>2, <2>1 DEF TrInv, NestedOnStack
  <2> QED  BY <1>15, <2>1, <2>2
<1>19. OnStackNested'
  <2> SUFFICES ASSUME NEW m \in DOMAIN stack, NEW x \in Range(stack'[m])
               PROVE  \E u \in Tasks : list[u] = m /\ x \in Range(nested'[u])
    BY <1>7, <1>13 DEF OnStackNested
  <2>1. x \in Range(stack[m]) /\ x # s
    BY <1>15
  <2>2. PICK u \in Tasks : list[u] = m /\ x \in Range(nested[u])
    BY <2>1 DEF TrInv, OnStackNested
  <2> QED  BY <1>14, <2>1, <2>2
<1>20. Logged'
  <2>1. \A u \in Tasks : Range(nested'[u]) \subseteq DOMAIN spans
    BY <1>14 DEF TrInv, Logged
  <2>2. Range(finished') \subseteq DOMAIN spans
    BY <1>9, <1>10 DEF TrInv, Logged
  <2>3. ASSUME NEW x \in DOMAIN spans
        PROVE  x \in Range(finished') <=> \A u \in Tasks : x \notin Range(nested'[u])
    <3>1. CASE x = s
      BY <1>10, <1>14, <3>1
    <3>2. CASE x # s
      BY <1>10, <1>14, <3>2 DEF TrInv, Logged
    <3> QED  BY <3>1, <3>2
  <2> QED  BY <1>13, <2>1, <2>2, <2>3 DEF Logged
<1>21. Uncreated'
  <2> SUFFICES ASSUME NEW u \in Tasks, creator[u] = "none" PROVE nested'[u] = <<>>
    BY <1>13 DEF Uncreated
  <2>1. nested[u] = <<>>
    BY DEF TrInv, Uncreated
  <2>2. u # t
    BY <1>1, <2>1
  <2> QED  BY <1>8, <2>1, <2>2
<1>22. Traced'
  BY <1>13 DEF TrInv, Traced
<1> QED  BY <1>16, <1>17, <1>18, <1>19, <1>20, <1>21, <1>22 DEF TrInv

LEMMA NextTrInv == TrInv /\ [TrNext]_trVars => TrInv'
<1> SUFFICES ASSUME TrInv, [TrNext]_trVars PROVE TrInv'
  OBVIOUS
<1>1. ASSUME NEW t \in Tasks, NEW u \in Tasks, NEW copied \in BOOLEAN, Spawn(t, u, copied)
      PROVE  TrInv'
  BY <1>1, SpawnTrInv
<1>2. ASSUME NEW t \in Tasks, Open(t) PROVE TrInv'
  BY <1>2, OpenTrInv
<1>3. ASSUME NEW t \in Tasks, Close(t) PROVE TrInv'
  BY <1>3, CloseTrInv
<1>4. CASE UNCHANGED trVars
  <2>1. UNCHANGED <<creator, list, stack, spans, nested, finished>>
    BY <1>4 DEF trVars
  <2>2. TrTypeOK' /\ Distinct' /\ NestedOnStack' /\ OnStackNested'
    BY <2>1 DEF TrInv, TrTypeOK, Distinct, NestedOnStack, OnStackNested
  <2>3. Logged' /\ Uncreated' /\ Traced'
    BY <2>1 DEF TrInv, Logged, Uncreated, Traced
  <2> QED  BY <2>2, <2>3 DEF TrInv
<1> QED  BY <1>1, <1>2, <1>3, <1>4 DEF TrNext

\* Of a sequence of different things, each is there once or not at all.
LEMMA Once ==
  ASSUME NEW q, IsInjective(q), NEW x
  PROVE  Cardinality({i \in DOMAIN q : q[i] = x}) = IF x \in Range(q) THEN 1 ELSE 0
<1>1. CASE x \in Range(q)
  <2>1. PICK i \in DOMAIN q : q[i] = x
    BY <1>1 DEF Range
  <2>2. {j \in DOMAIN q : q[j] = x} = {i}
    BY <2>1 DEF IsInjective
  <2> QED  BY <1>1, <2>2, FS_Singleton
<1>2. CASE x \notin Range(q)
  <2>1. {j \in DOMAIN q : q[j] = x} = {}
    BY <1>2 DEF Range
  <2> QED  BY <1>2, <2>1, FS_EmptySet
<1> QED  BY <1>1, <1>2

LEMMA AccountedFor == TrInv => SpansAccounted
<1> SUFFICES ASSUME TrInv, NEW s \in DOMAIN spans
    PROVE LET running == \E t \in Tasks : s \in Range(nested[t])
          IN  /\ running <=> \E l \in DOMAIN stack : s \in Range(stack[l])
              /\ Cardinality({i \in DOMAIN finished : finished[i] = s}) = IF running THEN 0 ELSE 1
              /\ spans[s].parent # 0 => spans[spans[s].parent].trace = spans[s].trace
  BY DEF SpansAccounted
<1> DEFINE running == \E t \in Tasks : s \in Range(nested[t])
<1>1. ASSUME running PROVE \E l \in DOMAIN stack : s \in Range(stack[l])
  <2>1. PICK t \in Tasks : s \in Range(nested[t])
    BY <1>1
  <2>2. list[t] # 0 /\ s \in Range(stack[list[t]])
    BY <2>1 DEF TrInv, NestedOnStack
  <2>3. list[t] \in DOMAIN stack
    BY <2>2, LenProperties DEF TrInv, TrTypeOK
  <2> QED  BY <2>2, <2>3
<1>2. ASSUME NEW l \in DOMAIN stack, s \in Range(stack[l]) PROVE running
  BY <1>2 DEF TrInv, OnStackNested
<1>3. Cardinality({i \in DOMAIN finished : finished[i] = s}) = IF s \in Range(finished) THEN 1 ELSE 0
  BY Once DEF TrInv, Distinct
<1>4. s \in Range(finished) <=> ~running
  BY DEF TrInv, Logged
<1>5. spans[s].parent # 0 => spans[spans[s].parent].trace = spans[s].trace
  BY DEF TrInv, Traced
<1> HIDE DEF running
<1>6. Cardinality({i \in DOMAIN finished : finished[i] = s}) = IF running THEN 0 ELSE 1
  BY <1>3, <1>4
<1> QED  BY <1>1, <1>2, <1>5, <1>6 DEF running

\* SpansAccounted, for any tasks, spawned with or without their creator's context.
THEOREM SpansKept == TrSpec => []SpansAccounted
<1> QED  BY InitTrInv, NextTrInv, AccountedFor, PTL DEF TrSpec
================================================================================
