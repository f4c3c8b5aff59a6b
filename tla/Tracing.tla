-------------------------------- MODULE Tracing --------------------------------
(****************************************************************************)
(* Spans (infra/observability.py).  A stack of open spans per context, in a *)
(* context variable: a task starts with a copy of its creator's context,    *)
(* and the copy holds the same list once the creator has used it.           *)
(****************************************************************************)
EXTENDS Naturals, Sequences, SequencesExt

CONSTANTS Tasks,    \* asyncio tasks and threads
          Root,     \* the one that runs first
          MaxSpans  \* bound on spans opened

ASSUME RootIsTask == Root \in Tasks

VARIABLES creator,  \* who created each task, "none" while there is no such task
          list,     \* the list each task's context holds, 0 for _ACTIVE_SPANS_UNSET
          stack,    \* the lists made: spans by number
          spans,    \* spans opened: the task, its trace and the parent, 0 for none
          nested,   \* the with blocks each task is in
          finished  \* _finished_spans

trVars == <<creator, list, stack, spans, nested, finished>>

TrInit ==
  /\ creator = [t \in Tasks |-> IF t = Root THEN t ELSE "none"]
  /\ list = [t \in Tasks |-> 0] /\ stack = <<>>
  /\ spans = <<>> /\ nested = [t \in Tasks |-> <<>>] /\ finished = <<>>

--------------------------------------------------------------------------------
\* create_task copies the context; a thread of the executor starts with an empty one.
Spawn(t, u, copied) ==
  /\ creator[t] # "none" /\ creator[u] = "none"
  /\ creator' = [creator EXCEPT ![u] = t]
  /\ list' = [list EXCEPT ![u] = IF copied THEN list[t] ELSE 0]
  /\ UNCHANGED <<stack, spans, nested, finished>>

\* The list of the context, made at its first use.
_get_active_spans(t) == IF list[t] = 0 THEN Len(stack) + 1 ELSE list[t]

Open(t) ==
  /\ creator[t] # "none" /\ Len(spans) < MaxSpans
  /\ LET l == _get_active_spans(t)
         s == Len(spans) + 1
         open == IF list[t] = 0 THEN <<>> ELSE stack[l]
         parent == IF open = <<>> THEN 0 ELSE Last(open)
     IN  /\ list' = [list EXCEPT ![t] = l]
         /\ stack' = IF list[t] = 0 THEN Append(stack, <<s>>)
                     ELSE [stack EXCEPT ![l] = Append(@, s)]
         /\ spans' = Append(spans, [task |-> t, parent |-> parent,
                                    trace |-> IF parent = 0 THEN s ELSE spans[parent].trace])
         /\ nested' = [nested EXCEPT ![t] = Append(@, s)]
  /\ UNCHANGED <<creator, finished>>

\* Wrong on purpose: the last span of the stack is taken off, whoever opened it.
PoppedLast(open, s) == Front(open)

\* list.remove, of a span that is there.
Popped(open, s) == RemoveAt(open, CHOOSE i \in DOMAIN open : open[i] = s)

\* The innermost block of a task ends, normally or by an exception; a span that
\* is on the stack no more is not recorded.
Close(t) ==
  /\ nested[t] # <<>>
  /\ LET s == Last(nested[t])
         open == stack[list[t]]
     IN  /\ IF s \in Range(open)
            THEN /\ stack' = [stack EXCEPT ![list[t]] = Popped(open, s)]
                 /\ finished' = Append(finished, s)
            ELSE UNCHANGED <<stack, finished>>
         /\ nested' = [nested EXCEPT ![t] = Front(@)]
  /\ UNCHANGED <<creator, list, spans>>

TrNext ==
  \/ \E t, u \in Tasks, copied \in BOOLEAN : Spawn(t, u, copied)
  \/ \E t \in Tasks : Open(t) \/ Close(t)

TrSpec == TrInit /\ [][TrNext]_trVars

\* get_current_trace_id, and the header inject_trace_headers adds.
get_current_trace_id(t) ==
  IF list[t] = 0 \/ stack[list[t]] = <<>> THEN 0 ELSE spans[Last(stack[list[t]])].trace

--------------------------------------------------------------------------------
(****************************************************************************)
(* Properties.                                                              *)
(****************************************************************************)

\* Tasks that share a stack close their blocks in any order, and still no span is
\* lost or taken for open when it is not: a span is on a stack exactly while its
\* block runs and in the log exactly once after it, under the trace of its parent.
SpansAccounted ==
  \A s \in DOMAIN spans :
    LET running == \E t \in Tasks : s \in Range(nested[t])
    IN  /\ running <=> \E l \in DOMAIN stack : s \in Range(stack[l])
        /\ Cardinality({i \in DOMAIN finished : finished[i] = s}) = IF running THEN 0 ELSE 1
        /\ spans[s].parent # 0 => spans[spans[s].parent].trace = spans[s].trace

\* What _get_active_spans says of contexts: no two of them share a list, so a span
\* hangs under what its own task, or a task it descends from, had opened.
Ancestors(t) ==
  LET up[n \in 0..Cardinality(Tasks)] == IF n = 0 THEN t ELSE creator[up[n - 1]]
  IN  Range(up)

OwnStack ==
  \A s \in DOMAIN spans :
    spans[s].parent # 0 => spans[spans[s].parent].task \in Ancestors(spans[s].task)
================================================================================
