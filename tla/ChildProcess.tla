------------------------------ MODULE ChildProcess ------------------------------
(****************************************************************************)
(* The child processes of the agent execution engine: CLIAdapter.run_script *)
(* with a time-out (subprocess.run) or with a signal sent to it             *)
(* (_run_with_external_kill), and MCPAdapter's servers on stdio             *)
(* (_connect_stdio, _execute_stdio_call).  Each call makes one child, feeds *)
(* it, waits with a time-out, and must not leave it behind.                 *)
(****************************************************************************)

VARIABLES user,   \* which of the calls this is
          child,  \* "none", "running", "exited", "killed"
          point,  \* the call's next step
          came    \* what the call returned

cpVars == <<user, child, point, came>>

ChildCalls == {"run_with_timeout", "external_kill", "connect_stdio", "stdio_call"}

CpInit ==
  /\ user = "none" /\ child = "none" /\ point = "idle" /\ came = "none"

Alive == child = "running"

End(r) == point' = "returned" /\ came' = r

\* Popen: the program may be missing, or anything else may fail.
Popen(u) ==
  /\ point = "idle"
  /\ user' = u
  /\ \/ /\ child' = "running"
        /\ point' = IF u = "external_kill" THEN "grace" ELSE "communicate"
        /\ UNCHANGED came
     \/ /\ End(IF u = "connect_stdio" THEN "[]" ELSE "fail")
        /\ UNCHANGED child

\* The child ends on its own, whenever it likes.
Exits ==
  /\ Alive
  /\ child' = "exited"
  /\ UNCHANGED <<user, point, came>>

\* After the grace period a signal is sent to a child that is still there; it
\* may ignore the signal, and it may have ended between poll and send_signal.
SendSignal ==
  /\ point = "grace"
  /\ \/ /\ ~Alive
        /\ End("fail")
        /\ UNCHANGED child
     \/ /\ Alive
        /\ child' \in {"running", "killed"}
        /\ point' = "communicate"
        /\ UNCHANGED came
  /\ UNCHANGED user

\* communicate returns with the child: its output, its error, or the signal.
Communicated ==
  /\ point = "communicate" /\ ~Alive
  /\ point' = "leave"
  /\ came' \in IF user = "connect_stdio" THEN {"tools", "[]"} ELSE {"ok", "fail"}
  /\ UNCHANGED <<user, child>>

\* Wrong on purpose: a child that was sent its signal is taken for dead.
TimedOutSignalled ==
  /\ point = "communicate" /\ Alive
  /\ came' = IF user = "connect_stdio" THEN "[]" ELSE "timeout"
  /\ child' = IF user \in {"run_with_timeout", "stdio_call"} THEN "killed" ELSE child
  /\ point' = "leave"
  /\ UNCHANGED user

\* The time-out: everybody but connect_stdio kills the child here; waiting for it
\* to go is bounded, and errors of the kill are ignored.
TimedOut ==
  /\ point = "communicate" /\ Alive
  /\ came' = IF user = "connect_stdio" THEN "[]" ELSE "timeout"
  /\ child' = IF user = "connect_stdio" THEN child ELSE "killed"
  /\ point' = "leave"
  /\ UNCHANGED user

\* Writing to the child or reading from it fails some other way: run kills and
\* raises, the stdio calls go to their finally blocks.  (The pipes of
\* external_kill are only read.)
PipeFails ==
  /\ point = "communicate" /\ user # "external_kill"
  /\ child' = IF user = "run_with_timeout" /\ Alive THEN "killed" ELSE child
  /\ came' = IF user = "connect_stdio" THEN "[]" ELSE "fail"
  /\ point' = "leave"
  /\ UNCHANGED user

\* The finally blocks of the stdio calls kill a child that is still running.
Leave ==
  /\ point = "leave"
  /\ child' = IF user \in {"connect_stdio", "stdio_call"} /\ Alive THEN "killed" ELSE child
  /\ point' = "returned"
  /\ UNCHANGED <<user, came>>

NextChild ==
  /\ point = "returned"
  /\ user' = "none" /\ child' = "none" /\ point' = "idle" /\ came' = "none"

CpNext ==
  \/ \E u \in ChildCalls : Popen(u)
  \/ Exits \/ SendSignal \/ Communicated \/ TimedOut \/ PipeFails \/ Leave
  \/ NextChild

CpSpec == CpInit /\ [][CpNext]_cpVars

--------------------------------------------------------------------------------
(****************************************************************************)
(* Properties.                                                              *)
(****************************************************************************)

\* No call leaves a child behind, whichever way it ends; and a result is only
\* read from a child that has ended by itself or by the signal.
NoChildLeft ==
  /\ point = "returned" => ~Alive
  /\ came \in {"ok", "tools"} => ~Alive
================================================================================
