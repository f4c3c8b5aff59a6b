------------------------------ MODULE ToolExecutor ------------------------------
(****************************************************************************)
(* ToolExecutor (services/aee/tool_executor.py): one tool, registered at    *)
(* any time by one thread and executed by others.  Off a loop, asyncio.run  *)
(* runs the handler in place; on a running loop the call goes to the shared *)
(* thread pool and the caller blocks on it.  A coroutine handler may itself *)
(* execute a tool, and then blocks its pool thread in turn, and its loop:   *)
(* no time-out of that loop can end it.                                     *)
(****************************************************************************)
EXTENDS Sequences, FiniteSets, Integers

CONSTANTS Callers,  \* threads that execute the tool
          Workers   \* threads of _SHARED_EXECUTOR

ASSUME WorkersAssumption == Workers \in Nat \ {0}

VARIABLES tools,     \* whether _tools has the tool ...
          handlers,  \* ... and _handlers its handler
          registrar, \* the next step of register
          state,     \* of each call: its next step, or how it ended
          pooled,    \* the call was made on a running loop
          handler,   \* what the handler of the call does
          inner,     \* what the handler of the tool does that a handler executes
          submitted   \* jobs submitted to the pool and not yet taken

teVars == <<tools, handlers, registrar, state, pooled, handler, inner, submitted>>

\* A handler returns, raises, cancels itself, awaits what never comes, gets stuck, or
\* executes a tool.  A stuck one is a coroutine that blocks its loop, or a function
\* that never ends: its time-out raises, but asyncio.run then waits for the thread.
HandlerKinds == {"returns", "raises", "cancels", "awaits", "stuck", "nests"}
Outcomes == {"ok", "failed", "CancelledError", "KeyError"}

TeInit ==
  /\ tools = FALSE /\ handlers = FALSE /\ registrar = "idle"
  /\ state = [c \in Callers |-> "idle"]
  /\ pooled = [c \in Callers |-> FALSE]
  /\ handler = [c \in Callers |-> "returns"]
  /\ inner = [c \in Callers |-> "returns"]
  /\ submitted = <<>>

Becomes(c, s) == state' = [state EXCEPT ![c] = s]

\* Wrong on purpose: the handler is written first.
registerHandlerFirst ==
  \/ /\ registrar = "idle"
     /\ handlers' = TRUE /\ registrar' = "second"
     /\ UNCHANGED tools
  \/ /\ registrar = "second"
     /\ tools' = TRUE /\ registrar' = "idle"
     /\ UNCHANGED handlers

\* register writes two dictionaries, one after the other and without a lock.
register ==
  \/ /\ registrar = "idle"
     /\ tools' = TRUE /\ registrar' = "second"
     /\ UNCHANGED handlers
  \/ /\ registrar = "second"
     /\ handlers' = TRUE /\ registrar' = "idle"
     /\ UNCHANGED tools

Register == register /\ UNCHANGED <<state, pooled, handler, inner, submitted>>

\* execute reads the handler and then the definition ...
ReadHandler(c) ==
  /\ state[c] = "idle"
  /\ Becomes(c, IF handlers THEN "read tool" ELSE "failed")
  /\ UNCHANGED <<tools, handlers, registrar, pooled, handler, inner, submitted>>

\* ... and checks the arguments: JSON, an object, of the tool's schema.
ReadTool(c) ==
  /\ state[c] = "read tool"
  /\ IF tools THEN \/ Becomes(c, "start")
                   \/ Becomes(c, "failed")
              ELSE Becomes(c, "KeyError")
  /\ UNCHANGED <<tools, handlers, registrar, pooled, handler, inner, submitted>>

\* On a running loop the call is a job for the pool, otherwise it runs in place.
Start(c) ==
  /\ state[c] = "start"
  /\ \E k \in HandlerKinds : handler' = [handler EXCEPT ![c] = k]
  /\ \/ /\ pooled' = [pooled EXCEPT ![c] = TRUE]
        /\ submitted' = Append(submitted, c)
        /\ Becomes(c, "queued")
     \/ /\ Becomes(c, "running")
        /\ UNCHANGED <<pooled, submitted>>
  /\ UNCHANGED <<tools, handlers, registrar, inner>>

\* A thread of the pool is busy with a call, or with the call its handler made.
BusyWorkers ==
  Cardinality({c \in Callers : pooled[c] /\ state[c] \in {"running", "nest queued", "nested"}})
  + Cardinality({c \in Callers : state[c] = "nested"})

TakeJob ==
  /\ submitted # <<>> /\ BusyWorkers < Workers
  /\ LET c == Head(submitted)
     IN  Becomes(c, IF state[c] = "queued" THEN "running" ELSE "nested")
  /\ submitted' = Tail(submitted)
  /\ UNCHANGED <<tools, handlers, registrar, pooled, handler, inner>>

\* The handler executes a tool on the loop it runs on: a job for the pool, and
\* its own thread waits.
Nest(c) ==
  /\ state[c] = "running" /\ handler[c] = "nests"
  /\ Becomes(c, "nest queued")
  /\ submitted' = Append(submitted, c)
  /\ \E k \in {"returns", "stuck"} : inner' = [inner EXCEPT ![c] = k]
  /\ UNCHANGED <<tools, handlers, registrar, pooled, handler>>

NestedEnds(c) ==
  /\ state[c] = "nested" /\ inner[c] # "stuck"
  /\ Becomes(c, "running")
  /\ handler' = [handler EXCEPT ![c] = "returns"]
  /\ UNCHANGED <<tools, handlers, registrar, pooled, inner, submitted>>

\* Wrong on purpose: no time-out around the handler.
RunUnlimited(c) ==
  /\ state[c] = "running" /\ handler[c] \notin {"nests", "stuck", "awaits"}
  /\ Becomes(c, CASE handler[c] = "returns" -> "ok"
                  [] handler[c] = "cancels" -> "CancelledError"
                  [] OTHER -> "failed")
  /\ UNCHANGED <<tools, handlers, registrar, pooled, handler, inner, submitted>>

\* The handler ends, or its five seconds do while it awaits; a cancellation is passed
\* on, every other exception becomes a failed result.
Run(c) ==
  /\ state[c] = "running" /\ handler[c] \notin {"nests", "stuck"}
  /\ Becomes(c, CASE handler[c] = "returns" -> "ok"
                  [] handler[c] = "cancels" -> "CancelledError"
                  [] OTHER -> "failed")
  /\ UNCHANGED <<tools, handlers, registrar, pooled, handler, inner, submitted>>

NextExecute(c) ==
  /\ state[c] \in Outcomes
  /\ Becomes(c, "idle")
  /\ pooled' = [pooled EXCEPT ![c] = FALSE]
  /\ handler' = [handler EXCEPT ![c] = "returns"]
  /\ UNCHANGED <<tools, handlers, registrar, inner, submitted>>

Progress(c) == ReadTool(c) \/ Start(c) \/ Nest(c) \/ NestedEnds(c) \/ Run(c)

TeNext ==
  \/ Register \/ TakeJob
  \/ \E c \in Callers : ReadHandler(c) \/ Progress(c) \/ NextExecute(c)

\* Threads are scheduled and the pool serves its queue in order.
TeFairness ==
  /\ WF_teVars(TakeJob)
  /\ \A c \in Callers : WF_teVars(Progress(c))

TeSpec == TeInit /\ [][TeNext]_teVars /\ TeFairness

--------------------------------------------------------------------------------
(****************************************************************************)
(* Properties.                                                              *)
(****************************************************************************)

\* Whoever finds a handler finds the definition of its tool, whenever it is
\* registered: the comment above the second lookup of execute relies on it.
HandlerHasTool == \A c \in Callers : state[c] # "KeyError"

\* Threads of the pool that may be kept for ever: by handlers that are stuck, and by
\* those that execute tools.
Kept ==
  Cardinality({c \in Callers : pooled[c] /\ handler[c] \in {"nests", "stuck"}})
  + Cardinality({c \in Callers : inner[c] = "stuck"})

Stuck(c) == handler[c] = "stuck" \/ inner[c] = "stuck"

\* As long as such handlers leave a thread of the pool free, every call whose own
\* handlers do not get stuck returns or raises in the end, though the others' do and
\* the pool is small.
EveryExecuteReturns ==
  [](Kept < Workers) =>
    \A c \in Callers : (state[c] = "read tool") ~> (state[c] \in Outcomes \/ Stuck(c))

\* execute dispatches the call and returns a ToolExecutionResult (its docstring,
\* services/aee/tool_executor.py:253-271): where no handler gets stuck, every call
\* returns or raises, also those made by handlers.
PoolServes ==
  [](\A c \in Callers : ~Stuck(c)) =>
    \A c \in Callers : (state[c] = "read tool") ~> (state[c] \in Outcomes)
================================================================================
