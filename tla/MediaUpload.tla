------------------------------ MODULE MediaUpload ------------------------------
(****************************************************************************)
(* Files on their way in: the upload route (api/media_router.py) and        *)
(* MediaPipeline.process_file, both through ClamAVScanner.scan              *)
(* (services/media.py).  A scan runs on a worker of its own; the caller     *)
(* waits for it with a time-out, and leaving the executor waits again.      *)
(* A route keeps the loop to itself while it scans, so uploads follow one   *)
(* another.                                                                 *)
(****************************************************************************)
EXTENDS SequencesExt, Naturals

CONSTANT MaxFiles   \* bound on the files of one upload

ASSUME FileBound == MaxFiles \in Nat

\* What a file is, and what a scan of it comes to: a slow one outlasts the
\* time-out, and a scan that raises or yields nothing counts as unavailable.
Kinds == {"image", "huge", "clean", "infected", "breaks", "slow"}
ScanStatus(k) ==
  CASE k = "infected" -> "infected"
    [] k = "breaks" -> "unavailable"
    [] OTHER -> "ok"

VARIABLES entry,   \* "upload", "process_file", or "none"
          step,    \* the next step of the call
          todo,    \* the files still to be handled
          worker,  \* the scan's thread: "none", "scanning", "ended"
          status,  \* what scan returned for the file in hand
          txn,     \* rows inserted, not yet committed
          stored,  \* rows committed, of this call
          answer   \* what the caller got

muVars == <<entry, step, todo, worker, status, txn, stored, answer>>

MuInit ==
  /\ entry = "none" /\ step = "idle" /\ todo = <<>>
  /\ worker = "none" /\ status = "none"
  /\ txn = <<>> /\ stored = <<>> /\ answer = "none"

upload ==
  /\ step = "idle"
  /\ entry' = "upload"
  /\ todo' \in {s \in BoundedSeq(Kinds, MaxFiles) : s # <<>>}
  /\ step' = "file"
  /\ UNCHANGED <<worker, status, txn, stored, answer>>

\* The other way in takes one file and keeps no row; its size and type are
\* looked at first.
process_file ==
  /\ step = "idle"
  /\ entry' = "process_file"
  /\ todo' \in {<<k>> : k \in Kinds}
  /\ step' = "file"
  /\ UNCHANGED <<worker, status, txn, stored, answer>>

\* The call ends with an error, and the session rolls back.
Reject(code) ==
  /\ answer' = code
  /\ step' = "answered"
  /\ txn' = <<>> /\ todo' = <<>>

\* The next file: its size, whether it is to be scanned at all, and whether the
\* scanner has been switched off (force_status).
NextFile ==
  /\ step = "file" /\ todo # <<>>
  /\ LET k == Head(todo) IN
       \/ /\ k = "huge" \/ (k = "image" /\ entry = "process_file")
          /\ Reject(IF entry = "upload" THEN "413" ELSE "rejected")
          /\ UNCHANGED <<worker, status>>
       \/ /\ k = "image" /\ entry = "upload"
          /\ step' = "insert"
          /\ UNCHANGED <<worker, status, txn, todo, answer>>
       \/ /\ k \notin {"huge", "image"}
          /\ Reject("503")
          /\ UNCHANGED <<worker, status>>
       \/ /\ k \notin {"huge", "image"}
          /\ step' = "wait" /\ worker' = "scanning"
          /\ UNCHANGED <<status, txn, todo, answer>>
  /\ UNCHANGED <<entry, stored>>

ScanEnds ==
  /\ worker = "scanning"
  /\ worker' = "ended"
  /\ UNCHANGED <<entry, step, todo, status, txn, stored, answer>>

ScanReturns ==
  /\ step = "wait" /\ worker = "ended"
  /\ status' = ScanStatus(Head(todo))
  /\ step' = "decide" /\ worker' = "none"
  /\ UNCHANGED <<entry, todo, txn, stored, answer>>

\* future.result gives up; shutdown does not wait, but the with block does.
ScanTimesOut ==
  /\ step = "wait" /\ worker = "scanning"
  /\ step' = "leave"
  /\ UNCHANGED <<entry, todo, worker, status, txn, stored, answer>>

LeaveExecutor ==
  /\ step = "leave" /\ worker = "ended"
  /\ status' = "timeout"
  /\ step' = "decide" /\ worker' = "none"
  /\ UNCHANGED <<entry, todo, txn, stored, answer>>

\* The route refuses a file whose scan was unavailable; process_file refuses
\* every file that is not ok.
Decide ==
  /\ step = "decide"
  /\ \/ /\ entry = "upload" /\ status = "unavailable"
        /\ Reject("503")
     \/ /\ entry = "upload" /\ status # "unavailable"
        /\ step' = "insert"
        /\ UNCHANGED <<txn, todo, answer>>
     \/ /\ entry = "process_file"
        /\ Reject(IF status = "ok" THEN "auto_escalate" ELSE "503")
  /\ UNCHANGED <<entry, worker, status, stored>>

\* Wrong on purpose: every row is committed by itself.
InsertAndCommit ==
  /\ step = "insert"
  /\ \/ /\ txn' = Append(txn, [kind |-> Head(todo), scan |-> status])
        /\ stored' = txn'
        /\ todo' = Tail(todo) /\ step' = "file" /\ status' = "none"
        /\ UNCHANGED answer
     \/ Reject("500") /\ UNCHANGED <<stored, status>>
  /\ UNCHANGED <<entry, worker>>

Insert ==
  /\ step = "insert"
  /\ \/ /\ txn' = Append(txn, [kind |-> Head(todo), scan |-> status])
        /\ todo' = Tail(todo) /\ step' = "file" /\ status' = "none"
        /\ UNCHANGED answer
     \/ Reject("500") /\ UNCHANGED status
  /\ UNCHANGED <<entry, worker, stored>>

\* One commit for the whole upload.  When it fails, the database may have done
\* it or not.
Commit ==
  /\ step = "file" /\ todo = <<>>
  /\ \/ /\ stored' = txn
        /\ answer' = "media_ids" /\ step' = "answered"
        /\ UNCHANGED <<txn, todo>>
     \/ stored' \in {<<>>, txn} /\ Reject("500")
  /\ UNCHANGED <<entry, worker, status>>

\* The next call; the rows of this one are forgotten.
NextCall ==
  /\ step = "answered"
  /\ entry' = "none" /\ step' = "idle" /\ todo' = <<>>
  /\ worker' = "none" /\ status' = "none"
  /\ txn' = <<>> /\ stored' = <<>> /\ answer' = "none"

MuNext ==
  \/ upload \/ process_file
  \/ NextFile
  \/ ScanEnds \/ ScanReturns \/ ScanTimesOut \/ LeaveExecutor
  \/ Decide \/ Insert \/ Commit
  \/ NextCall

MuSpec == MuInit /\ [][MuNext]_muVars

--------------------------------------------------------------------------------
(****************************************************************************)
(* Properties.                                                              *)
(****************************************************************************)

\* An upload is stored as a whole or not at all, and a caller who is given
\* media_ids finds every one of them in the database.
AllOrNothing ==
  /\ stored # <<>> => todo = <<>> /\ step = "answered"
  /\ answer = "media_ids" => stored = txn /\ stored # <<>>

\* "No unscanned files reach the system under any ClamAV failure mode"
\* (02-architecture/adr/ADR.md:285): what is stored is a picture or was found clean.
OnlyScannedStored ==
  \A i \in DOMAIN stored : stored[i].kind = "image" \/ stored[i].scan = "ok"
================================================================================
