------------------------------- MODULE M2MTokens -------------------------------
(****************************************************************************)
(* The machine-to-machine tokens of api/webhooks.py: a store in memory,     *)
(* under _TOKEN_LOCK, written as a whole to one file that the next start    *)
(* reads.  A write that fails is only logged; opening the file for writing  *)
(* empties it.  One process serves the file, and it may stop at any step.   *)
(****************************************************************************)
EXTENDS Naturals

CONSTANT ClientIds  \* client_ids, each given out once

VARIABLES store,    \* _TOKEN_STORE, "none" for a client that is not in it
          file,     \* what _TOKEN_FILE holds, or Damaged
          expired,  \* clients whose expires_at is past
          caller,   \* the call that holds _TOKEN_LOCK and how far it is
          told,     \* history: what the last answered call said of each client
          unsaved   \* history: clients an answered change of which never reached the file

m2Vars == <<store, file, expired, caller, told, unsaved>>

Damaged == [c \in ClientIds |-> "damaged"]
Nobody == [step |-> "none", client |-> "none", change |-> "none"]

M2Init ==
  /\ store = [c \in ClientIds |-> "none"] /\ file = store
  /\ expired = {} /\ caller = Nobody
  /\ told = store /\ unsaved = {}

--------------------------------------------------------------------------------
create_token(c) ==
  /\ caller = Nobody /\ told[c] = "none" /\ store[c] = "none"
  /\ store' = [store EXCEPT ![c] = "live"]
  /\ caller' = [step |-> "save", client |-> c, change |-> "live"]
  /\ UNCHANGED <<expired, file, told, unsaved>>

\* Wrong on purpose: a revocation is kept in memory only.
RevokedUnsaved(c) == [step |-> "answer", client |-> c, change |-> "revoked"]

Revoked(c) == [step |-> "save", client |-> c, change |-> "revoked"]

\* A client the store does not know is answered in the same way.
revoke_token(c) ==
  /\ caller = Nobody
  /\ IF store[c] = "none"
     THEN /\ told[c] # "none"
          /\ caller' = [step |-> "answer", client |-> c, change |-> "revoked"]
          /\ UNCHANGED store
     ELSE /\ store' = [store EXCEPT ![c] = "revoked"]
          /\ caller' = Revoked(c)
  /\ UNCHANGED <<expired, file, told, unsaved>>

Expire(c) ==
  /\ expired' = expired \union {c}
  /\ UNCHANGED <<store, file, caller, told, unsaved>>

\* The file is emptied before its lock is asked for.
SaveOpens ==
  /\ caller.step = "save"
  /\ file' = Damaged
  /\ caller' = [caller EXCEPT !.step = "dump"]
  /\ UNCHANGED <<expired, store, told, unsaved>>

SaveDumps ==
  /\ caller.step = "dump"
  /\ file' = store
  /\ unsaved' = {c \in unsaved : store[c] # told[c]}
  /\ caller' = [caller EXCEPT !.step = "answer"]
  /\ UNCHANGED <<expired, store, told>>

\* The error is logged and the call goes on: at the opening the old file is still
\* there, at the dump nothing that could be read.
SaveFails ==
  /\ caller.step \in {"save", "dump"}
  /\ unsaved' = IF caller.step = "save" THEN unsaved \union {caller.client} ELSE ClientIds
  /\ caller' = [caller EXCEPT !.step = "answer"]
  /\ UNCHANGED <<expired, store, file, told>>

Reply ==
  /\ caller.step = "answer"
  /\ told' = [told EXCEPT ![caller.client] = caller.change]
  /\ caller' = Nobody
  /\ UNCHANGED <<expired, store, file, unsaved>>

\* The process stops; the next one starts with _load_tokens, which takes a file it
\* cannot read for no file.  A change in progress was not answered, but may be kept.
_load_tokens ==
  /\ store' = IF file = Damaged THEN [c \in ClientIds |-> "none"] ELSE file
  /\ unsaved' = IF file = Damaged THEN ClientIds
                ELSE unsaved \union (IF caller = Nobody THEN {} ELSE {caller.client})
  /\ caller' = Nobody
  /\ UNCHANGED <<expired, file, told>>

M2Next ==
  \/ \E c \in ClientIds : create_token(c) \/ revoke_token(c) \/ Expire(c)
  \/ SaveOpens \/ SaveDumps \/ SaveFails \/ Reply \/ _load_tokens

M2Spec == M2Init /\ [][M2Next]_m2Vars

\* What validate_token says of a client's token, between two other calls.
validate_token(c) == store[c] = "live" /\ c \notin expired

--------------------------------------------------------------------------------
(****************************************************************************)
(* Properties.                                                              *)
(****************************************************************************)

\* What a call answered stays true over any number of restarts: a token that was
\* handed out is accepted until it expires and a revoked one is not, except for changes whose save
\* failed and after a stop in the middle of one.
TokensSurvive ==
  caller = Nobody =>
    \A c \in ClientIds \ unsaved : validate_token(c) <=> (told[c] = "live" /\ c \notin expired)
================================================================================
