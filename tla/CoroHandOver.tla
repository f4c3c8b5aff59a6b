------------------------------ MODULE CoroHandOver ------------------------------
(****************************************************************************)
(* _await_coro_from_sync (core/paladin.py): a synchronous caller on a thread *)
(* with a running loop gives a coroutine to a new thread with a loop of its *)
(* own, joins it with a time-out, and then tries to cancel and stop it from *)
(* outside.  (Without a running loop, asyncio.run does the same in place    *)
(* and there is no second thread.)  Both time-outs have the same length and *)
(* may expire in any order, so time itself is left out.                     *)
(****************************************************************************)

VARIABLES kind,      \* what the coroutine will do
          caller,    \* the caller's next step, or how its call ended
          taskSeen,  \* the caller read holder["task"]
          runner,    \* the new thread's next step
          posted,    \* callbacks given to call_soon_threadsafe
          holder     \* which of "v" and "e" is in holder, or "none"

coVars == <<kind, caller, taskSeen, runner, posted, holder>>

CoInit ==
  /\ kind = "none" /\ caller = "idle" /\ runner = "off"
  /\ taskSeen = FALSE /\ posted = {} /\ holder = "none"

\* A coroutine returns, raises, waits until it is cancelled, or goes on whatever
\* it is told.
HandOver ==
  /\ caller = "idle"
  /\ kind' \in {"returns", "raises", "waits", "stubborn"}
  /\ caller' = "join" /\ runner' = "start"
  /\ UNCHANGED <<taskSeen, posted, holder>>

LoopMade == runner \notin {"off", "start", "no loop"}
TaskMade == LoopMade /\ runner # "made"
LoopClosed == runner \in {"closed", "dead"}
ThreadEnded == runner \in {"dead", "no loop"}

\* The thread has ended: the caller gets the answer, or the error, or neither.
JoinEnds ==
  /\ caller = "join" /\ ThreadEnded
  /\ caller' = CASE holder = "v" -> "value"
                 [] holder = "e" -> "error"
                 [] OTHER -> "KeyError"
  /\ UNCHANGED <<kind, taskSeen, runner, posted, holder>>

JoinTimesOut ==
  /\ caller = "join" /\ ~ThreadEnded
  /\ caller' = "read loop"
  /\ UNCHANGED <<kind, taskSeen, runner, posted, holder>>

\* Two reads of holder, and the runner may come between them.
ReadLoop ==
  /\ caller = "read loop"
  /\ caller' = IF LoopMade THEN "read task" ELSE "TimeoutError"
  /\ UNCHANGED <<kind, taskSeen, runner, posted, holder>>

ReadTask ==
  /\ caller = "read task"
  /\ taskSeen' = TaskMade
  /\ caller' = IF LoopClosed THEN "TimeoutError"
               ELSE IF TaskMade THEN "cancel" ELSE "stop"
  /\ UNCHANGED <<kind, runner, posted, holder>>

\* Wrong on purpose: cancelled, and never stopped.
PostCancelOnly ==
  /\ caller \in {"cancel", "stop"}
  /\ posted' = posted \union (IF LoopClosed THEN {} ELSE {"cancel"})
  /\ caller' = "TimeoutError"
  /\ UNCHANGED <<kind, taskSeen, runner, holder>>

\* call_soon_threadsafe(task.cancel), then loop.stop: a loop that was closed
\* since raises RuntimeError, and the rest of the block is skipped.
Post ==
  /\ caller \in {"cancel", "stop"}
  /\ posted' = posted \union (IF LoopClosed THEN {} ELSE {caller})
  /\ caller' = IF caller = "cancel" /\ ~LoopClosed THEN "stop" ELSE "TimeoutError"
  /\ UNCHANGED <<kind, taskSeen, runner, holder>>

--------------------------------------------------------------------------------
(* The runner *)

\* new_event_loop; it may fail, and then the thread ends with nothing in holder.
MakeLoop ==
  /\ runner = "start"
  /\ runner' \in {"made", "no loop"}
  /\ UNCHANGED <<kind, caller, taskSeen, posted, holder>>

MakeTask ==
  /\ runner = "made"
  /\ runner' = "run"
  /\ UNCHANGED <<kind, caller, taskSeen, posted, holder>>

\* The coroutine ends by itself.
CoroEnds ==
  /\ runner = "run" /\ kind \in {"returns", "raises"}
  /\ holder' = IF kind = "returns" THEN "v" ELSE "e"
  /\ runner' = "ended"
  /\ UNCHANGED <<kind, caller, taskSeen, posted>>

\* wait_for expires and cancels the task; it then waits for the task to end.
Expire ==
  /\ runner = "run"
  /\ runner' = "expired"
  /\ UNCHANGED <<kind, caller, taskSeen, posted, holder>>

\* A cancelled task ends, by wait_for or by the posted callback, unless it is
\* stubborn.
Cancelled ==
  /\ runner = "expired" \/ (runner = "run" /\ "cancel" \in posted)
  /\ kind # "stubborn"
  /\ holder' = "e"
  /\ runner' = "ended"
  /\ UNCHANGED <<kind, caller, taskSeen, posted>>

\* A stopped loop leaves run_until_complete with a RuntimeError, whatever the
\* task is doing.
Stopped ==
  /\ runner \in {"run", "expired"} /\ "stop" \in posted
  /\ holder' = "e"
  /\ runner' = "ended"
  /\ UNCHANGED <<kind, caller, taskSeen, posted>>

CloseLoop ==
  /\ runner = "ended"
  /\ runner' = "closed"
  /\ UNCHANGED <<kind, caller, taskSeen, posted, holder>>

ThreadEnds ==
  /\ runner = "closed"
  /\ runner' = "dead"
  /\ UNCHANGED <<kind, caller, taskSeen, posted, holder>>

CallerStep == JoinEnds \/ JoinTimesOut \/ ReadLoop \/ ReadTask \/ Post
RunnerStep == MakeLoop \/ MakeTask \/ CoroEnds \/ Expire \/ Cancelled \/ Stopped
              \/ CloseLoop \/ ThreadEnds

CoNext == HandOver \/ CallerStep \/ RunnerStep

\* Threads are scheduled, and both time-outs expire.
CoFairness == WF_coVars(CallerStep) /\ WF_coVars(RunnerStep)

CoSpec == CoInit /\ [][CoNext]_coVars /\ CoFairness

--------------------------------------------------------------------------------
(****************************************************************************)
(* Properties.                                                              *)
(****************************************************************************)

\* The thread of a call that has returned ends, too, and closes its loop: a
\* coroutine that ignores cancellation is stopped with its loop.  The exception
\* is a stubborn coroutine whose caller gave up before the loop was made.
RunnerEnds ==
  (caller \in {"value", "error", "KeyError", "TimeoutError"})
    ~> (ThreadEnded \/ (kind = "stubborn" /\ posted = {}))
================================================================================
