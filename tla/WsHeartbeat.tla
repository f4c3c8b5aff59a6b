------------------------------ MODULE WsHeartbeat ------------------------------
(****************************************************************************)
(* The heartbeat of one connection: _ping_loop and the pong branch of the   *)
(* read loop in api/ws_router.py, with the periods of api/websocket.py.     *)
(* Time passes in ticks of five seconds; the ping task wakes on time and    *)
(* the client may answer at any moment, or never, or unasked.               *)
(*                                                                          *)
(* The ping is written to the client's socket before the age of the last    *)
(* pong is looked at.  The write ends at once, or waits for a client that   *)
(* does not read, for any time, or fails, which ends the task.              *)
(****************************************************************************)
EXTENDS Integers

CONSTANT MaxSilence  \* bound on the time without a pong

ASSUME MaxSilenceAssumption == MaxSilence \in Nat

\* PING_INTERVAL_SECONDS (30) and PONG_TIMEOUT_SECONDS (10), in ticks.
PING_INTERVAL == 6
PONG_TIMEOUT == 2

VARIABLES conn,       \* "open", "dropped" by the ping task, or "left"
          pinger,     \* what the ping task does: "sleep", "ping" (being written),
                      \* "bye" (the disconnect message being written), "gone"
          untilPing,  \* ticks until the ping task wakes
          writing,    \* ticks the write of the current ping has taken
          sincePong,  \* age of last_pong["t"]
          unanswered, \* age of the oldest ping without a pong since, or None
          everLate,   \* history: an answer once took more than PONG_TIMEOUT
          everHeld    \* history: a write of the ping task once waited or failed

hbVars == <<conn, pinger, untilPing, writing, sincePong, unanswered, everLate, everHeld>>

None == -1

HbInit ==
  /\ conn = "open" /\ pinger = "sleep"
  /\ untilPing = PING_INTERVAL
  /\ writing = 0
  /\ sincePong = 0
  /\ unanswered = None
  /\ everLate = FALSE /\ everHeld = FALSE

HbTick ==
  /\ conn = "open" /\ sincePong < MaxSilence /\ unanswered < MaxSilence
  /\ pinger = "sleep" => untilPing > 0
  /\ untilPing' = IF pinger = "sleep" THEN untilPing - 1 ELSE untilPing
  /\ writing' = IF pinger = "ping" THEN writing + 1 ELSE writing
  /\ sincePong' = sincePong + 1
  /\ unanswered' = IF unanswered = None THEN None ELSE unanswered + 1
  /\ everLate' = (everLate \/ unanswered' > PONG_TIMEOUT)
  /\ UNCHANGED <<conn, pinger, everHeld>>

\* A ping that is still being written is not answered by it.
Pong ==
  /\ conn = "open"
  /\ sincePong' = 0
  /\ unanswered' = IF pinger = "ping" THEN writing ELSE None
  /\ UNCHANGED <<conn, pinger, untilPing, writing, everLate, everHeld>>

\* The task wakes and hands its ping to the socket.
WakeUp ==
  /\ conn = "open" /\ pinger = "sleep" /\ untilPing = 0
  /\ unanswered' = IF unanswered = None THEN 0 ELSE unanswered
  /\ writing' = 0

\* Wrong on purpose: the window is the pong timeout alone.
CheckImpatient ==
  \/ /\ sincePong <= PONG_TIMEOUT
     /\ pinger' = "sleep" /\ untilPing' = PING_INTERVAL
     /\ UNCHANGED <<conn, everHeld>>
  \/ /\ sincePong > PONG_TIMEOUT
     /\ conn' = "dropped" /\ pinger' = "gone"
     /\ UNCHANGED <<untilPing, everHeld>>

\* Wrong on purpose: the window is a whole interval longer.
CheckPatient ==
  \/ /\ sincePong <= 2 * PING_INTERVAL + PONG_TIMEOUT
     /\ pinger' = "sleep" /\ untilPing' = PING_INTERVAL
     /\ UNCHANGED <<conn, everHeld>>
  \/ /\ sincePong > 2 * PING_INTERVAL + PONG_TIMEOUT
     /\ conn' = "dropped" /\ pinger' = "gone"
     /\ UNCHANGED <<untilPing, everHeld>>

\* Only then it looks how old the last pong is.  To a client silent for too long
\* it writes a last message, which may wait as well, and closes.
Check ==
  \/ /\ sincePong <= PING_INTERVAL + PONG_TIMEOUT
     /\ pinger' = "sleep" /\ untilPing' = PING_INTERVAL
     /\ UNCHANGED <<conn, everHeld>>
  \/ /\ sincePong > PING_INTERVAL + PONG_TIMEOUT
     /\ \/ conn' = "dropped" /\ pinger' = "gone" /\ UNCHANGED everHeld
        \/ pinger' = "bye" /\ everHeld' = TRUE /\ UNCHANGED conn
     /\ UNCHANGED untilPing

\* The write of the ping ends at once.
Ping ==
  /\ WakeUp /\ Check
  /\ UNCHANGED <<sincePong, everLate>>

\* It waits: the socket's buffer is full.
PingWaits ==
  /\ WakeUp
  /\ pinger' = "ping" /\ everHeld' = TRUE
  /\ UNCHANGED <<conn, untilPing, sincePong, everLate>>

\* The client reads again.
PingWritten ==
  /\ conn = "open" /\ pinger = "ping"
  /\ Check
  /\ UNCHANGED <<writing, sincePong, unanswered, everLate>>

\* A write of the task fails, at once or after waiting: the task returns, and
\* nobody looks at the pongs any more.
WriteFails ==
  /\ conn = "open"
  /\ pinger = "sleep" => untilPing = 0
  /\ pinger # "gone"
  /\ pinger' = "gone" /\ everHeld' = TRUE
  /\ UNCHANGED <<conn, untilPing, writing, sincePong, unanswered, everLate>>

\* The last message gets out; the socket is closed.
ByeWritten ==
  /\ conn = "open" /\ pinger = "bye"
  /\ conn' = "dropped" /\ pinger' = "gone"
  /\ UNCHANGED <<untilPing, writing, sincePong, unanswered, everLate, everHeld>>

\* The read loop is told that the client is gone, and cancels the ping task.
Leave ==
  /\ conn = "open"
  /\ conn' = "left" /\ pinger' = "gone"
  /\ UNCHANGED <<untilPing, writing, sincePong, unanswered, everLate, everHeld>>

HbNext ==
  \/ HbTick \/ Pong
  \/ Ping \/ PingWaits \/ PingWritten \/ WriteFails \/ ByeWritten
  \/ Leave

HbSpec == HbInit /\ [][HbNext]_hbVars

--------------------------------------------------------------------------------
(****************************************************************************)
(* Properties.                                                              *)
(****************************************************************************)

\* A client that answers every ping within PONG_TIMEOUT of when it was handed to
\* the socket is never dropped, wherever in the interval its pongs fall and
\* however long its socket takes for the pings.
PunctualStays == conn = "dropped" \/ pinger = "bye" => everLate

\* A silent client whose socket takes what is written to it is dropped two
\* intervals after the ping it did not answer, at the latest.
SilentIsDropped == conn = "open" /\ ~everHeld => unanswered <= 2 * PING_INTERVAL

\* Who sends no pong within ten seconds is to be disconnected (FR-59 in
\* 01-requirements/SRS.md:132): no client whose ping task runs stays silent for
\* longer than even the two intervals that the code takes to notice it.
SilentIsDisconnected ==
  conn = "open" /\ pinger # "gone" => unanswered <= 2 * PING_INTERVAL
================================================================================
