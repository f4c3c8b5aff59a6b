----------------------------- MODULE IdentityProofs -----------------------------
(****************************************************************************)
(* For any clients, users and accounts, and any number of restarts: tokens  *)
(* survive a write that fails or is cut off at any step, a deletion erases  *)
(* exactly what its user had stored, and what is the administrator's is     *)
(* granted to the administrator of the moment only.                         *)
(****************************************************************************)
EXTENDS M2MTokens, Erasure, AccessControl, SequenceTheorems, TLAPS

--------------------------------------------------------------------------------
(****************************************************************************)
(* The tokens of other machines.                                            *)
(****************************************************************************)

Statuses == {"none", "live", "revoked", "damaged"}

\* The shape of the store and its file, and of the call in progress.
M2TypeOK ==
  /\ store \in [ClientIds -> Statuses] /\ file \in [ClientIds -> Statuses]
  /\ told \in [ClientIds -> Statuses]
  /\ unsaved \subseteq ClientIds

CallerOK ==
  \/ caller = Nobody
  \/ caller \in [step : {"save", "dump", "answer"}, client : ClientIds, change : Statuses]

\* The client whose change is on its way, if there is one.
Busy == IF caller.step = "none" THEN {} ELSE {caller.client}

\* The store is what the callers were told, but for the change on its way ...
StoreTold ==
  \A c \in (ClientIds \ unsaved) \ Busy : store[c] = "live" <=> told[c] = "live"

\* ... which is in the store already, as its answer will say.
StoreAhead ==
  caller.step # "none" => (store[caller.client] = "live" <=> caller.change = "live")

\* The file is the store, but for a change that is not written yet; while it is
\* being written the file is nothing.
FileFollows ==
  IF caller.step = "dump"
  THEN file = Damaged
  ELSE \A c \in ClientIds \ unsaved :
         c \notin Busy \/ caller.step = "answer"
           => (file[c] = "live" <=> store[c] = "live")

M2Inv == M2TypeOK /\ CallerOK /\ StoreTold /\ StoreAhead /\ FileFollows

--------------------------------------------------------------------------------
LEMMA InitM2Inv == M2Init => M2Inv
BY DEF M2Init, M2Inv, Statuses, M2TypeOK, CallerOK, StoreTold, StoreAhead, FileFollows, Busy, Nobody

\* A new token, or the revocation of a known one, is in the store and on its way.
LEMMA ChangeM2Inv ==
  ASSUME M2Inv, NEW c \in ClientIds, NEW status \in {"live", "revoked"},
         caller = Nobody,
         store' = [store EXCEPT ![c] = status],
         caller' = [step |-> "save", client |-> c, change |-> status],
         UNCHANGED <<file, told, unsaved>>
  PROVE  M2Inv'
<1>1. caller.step = "none"
  BY DEF Nobody
<1>2. M2TypeOK' /\ CallerOK'
  BY DEF M2Inv, M2TypeOK, CallerOK, Statuses
<1>3. Busy' = {c}
  BY DEF Busy
<1>4. \A d \in ClientIds \ {c} : store'[d] = store[d]
  BY DEF M2Inv, M2TypeOK
<1>5. StoreTold'
  BY <1>1, <1>3, <1>4 DEF M2Inv, StoreTold, Busy
<1>6. StoreAhead'
  <2>1. store'[c] = status
    BY DEF M2Inv, M2TypeOK
  <2> QED BY <2>1 DEF StoreAhead
<1>7. FileFollows'
  BY <1>1, <1>3, <1>4 DEF M2Inv, FileFollows, Busy
<1> QED BY <1>2, <1>5, <1>6, <1>7 DEF M2Inv

LEMMA CreateM2Inv ==
  ASSUME M2Inv, NEW c \in ClientIds, create_token(c)
  PROVE  M2Inv'
BY ChangeM2Inv DEF create_token

LEMMA RevokeM2Inv ==
  ASSUME M2Inv, NEW c \in ClientIds, revoke_token(c)
  PROVE  M2Inv'
<1>1. CASE store[c] # "none"
  BY <1>1, ChangeM2Inv DEF revoke_token, Revoked
<1>2. CASE store[c] = "none"
  <2>1. /\ caller = Nobody /\ UNCHANGED <<store, file, told, unsaved>>
        /\ caller' = [step |-> "answer", client |-> c, change |-> "revoked"]
    BY <1>2 DEF revoke_token
  <2>2. M2TypeOK' /\ CallerOK'
    BY <2>1 DEF M2Inv, M2TypeOK, CallerOK, Statuses
  <2>3. caller.step = "none"
    BY <2>1 DEF Nobody
  <2>4. StoreTold' /\ StoreAhead' /\ FileFollows'
    BY <1>2, <2>1, <2>3 DEF M2Inv, StoreTold, StoreAhead, FileFollows, Busy
  <2> QED BY <2>2, <2>4 DEF M2Inv
<1> QED BY <1>1, <1>2

\* The save: emptied, written, or failed on the way.
LEMMA SaveOpensM2Inv ==
  ASSUME M2Inv, SaveOpens
  PROVE  M2Inv'
<1>1. /\ caller.step = "save" /\ caller'.step = "dump"
      /\ caller'.client = caller.client /\ caller'.change = caller.change
      /\ file' = Damaged /\ UNCHANGED <<store, told, unsaved>>
  BY DEF SaveOpens, M2Inv, CallerOK, Nobody
<1>2. M2TypeOK'
  BY <1>1 DEF M2Inv, M2TypeOK, CallerOK, Nobody, Damaged, Statuses
<1>3. CallerOK'
  BY <1>1 DEF SaveOpens, M2Inv, CallerOK, Nobody
<1>4. StoreTold' /\ StoreAhead' /\ FileFollows'
  BY <1>1 DEF M2Inv, StoreTold, StoreAhead, FileFollows, Busy, Damaged
<1> QED BY <1>2, <1>3, <1>4 DEF M2Inv

LEMMA SaveDumpsM2Inv ==
  ASSUME M2Inv, SaveDumps
  PROVE  M2Inv'
<1>1. /\ caller.step = "dump" /\ caller'.step = "answer"
      /\ caller'.client = caller.client /\ caller'.change = caller.change
      /\ file' = store /\ UNCHANGED <<store, told>>
      /\ unsaved' = {c \in unsaved : store[c] # told[c]}
  BY DEF SaveDumps, M2Inv, CallerOK, Nobody
<1>2. M2TypeOK'
  BY <1>1 DEF M2Inv, M2TypeOK, CallerOK, Nobody
<1>3. CallerOK'
  BY <1>1 DEF SaveDumps, M2Inv, CallerOK, Nobody
<1>4. StoreTold' /\ StoreAhead' /\ FileFollows'
  BY <1>1 DEF M2Inv, StoreTold, StoreAhead, FileFollows, Busy
<1> QED BY <1>2, <1>3, <1>4 DEF M2Inv

LEMMA SaveFailsM2Inv ==
  ASSUME M2Inv, SaveFails
  PROVE  M2Inv'
<1>1. /\ caller.step \in {"save", "dump"} /\ caller'.step = "answer"
      /\ caller'.client = caller.client /\ caller'.change = caller.change
      /\ UNCHANGED <<store, file, told>>
      /\ unsaved' = IF caller.step = "save" THEN unsaved \union {caller.client} ELSE ClientIds
  BY DEF SaveFails, M2Inv, CallerOK, Nobody
<1>2. M2TypeOK'
  BY <1>1 DEF M2Inv, M2TypeOK, CallerOK, Nobody
<1>3. CallerOK'
  BY <1>1 DEF SaveFails, M2Inv, CallerOK, Nobody
<1>4. StoreTold' /\ StoreAhead' /\ FileFollows'
  BY <1>1 DEF M2Inv, StoreTold, StoreAhead, FileFollows, Busy
<1> QED BY <1>2, <1>3, <1>4 DEF M2Inv

LEMMA ReplyM2Inv ==
  ASSUME M2Inv, Reply
  PROVE  M2Inv'
<1> DEFINE c == caller.client
<1>1. /\ caller.step = "answer" /\ c \in ClientIds /\ caller'.step = "none"
      /\ told' = [told EXCEPT ![c] = caller.change]
      /\ UNCHANGED <<store, file, unsaved>>
  BY DEF Reply, M2Inv, CallerOK, Nobody
<1>2. M2TypeOK' /\ CallerOK'
  <2>1. caller.change \in Statuses
    BY <1>1 DEF M2Inv, CallerOK, Nobody
  <2> QED BY <1>1, <2>1 DEF Reply, M2Inv, M2TypeOK, CallerOK
<1>3. /\ told'[c] = caller.change
      /\ \A d \in ClientIds \ {c} : told'[d] = told[d]
  BY <1>1 DEF M2Inv, M2TypeOK
<1>4. StoreTold' /\ StoreAhead' /\ FileFollows'
  BY <1>1, <1>3 DEF M2Inv, StoreTold, StoreAhead, FileFollows, Busy
<1> QED BY <1>2, <1>4 DEF M2Inv

\* A restart reads the file: what it cannot read was never promised to survive.
LEMMA LoadM2Inv ==
  ASSUME M2Inv, _load_tokens
  PROVE  M2Inv'
<1>1. caller' = Nobody /\ caller'.step = "none" /\ UNCHANGED <<file, told>>
  BY DEF _load_tokens, Nobody
<1>2. CASE file = Damaged
  <2>1. unsaved' = ClientIds /\ store' = [c \in ClientIds |-> "none"]
    BY <1>2 DEF _load_tokens
  <2> QED
    BY <1>1, <2>1 DEF M2Inv, Statuses, M2TypeOK, CallerOK, StoreTold, StoreAhead, FileFollows, Busy
<1>3. CASE file # Damaged
  <2>1. /\ store' = file
        /\ unsaved' = unsaved \union (IF caller = Nobody THEN {} ELSE {caller.client})
    BY <1>3 DEF _load_tokens
  <2>2. caller.step # "dump" /\ unsaved' = unsaved \union Busy
    BY <1>3, <2>1 DEF M2Inv, CallerOK, FileFollows, Busy, Nobody
  <2>3. M2TypeOK' /\ CallerOK'
    <3>1. Busy \subseteq ClientIds
      BY DEF M2Inv, CallerOK, Busy, Nobody
    <3> QED BY <1>1, <2>1, <2>2, <3>1 DEF M2Inv, M2TypeOK, CallerOK
  <2>4. \A c \in ClientIds \ unsaved' : store'[c] = "live" <=> told'[c] = "live"
    BY <1>1, <2>1, <2>2 DEF M2Inv, StoreTold, FileFollows
  <2> QED BY <1>1, <2>1, <2>3, <2>4 DEF M2Inv, StoreTold, StoreAhead, FileFollows, Busy
<1> QED BY <1>2, <1>3

LEMMA NextM2Inv == M2Inv /\ [M2Next]_m2Vars => M2Inv'
<1> SUFFICES ASSUME M2Inv, [M2Next]_m2Vars PROVE M2Inv'
  OBVIOUS
<1>1. CASE UNCHANGED <<store, file, caller, told, unsaved>>
  BY <1>1 DEF M2Inv, M2TypeOK, CallerOK, StoreTold, StoreAhead, FileFollows, Busy
<1>2. CASE UNCHANGED m2Vars
  BY <1>1, <1>2 DEF m2Vars
<1>3. ASSUME NEW c \in ClientIds, Expire(c) PROVE M2Inv'
  BY <1>1, <1>3 DEF Expire
<1> QED
  BY <1>2, <1>3, CreateM2Inv, RevokeM2Inv, SaveOpensM2Inv, SaveDumpsM2Inv, SaveFailsM2Inv,
     ReplyM2Inv, LoadM2Inv DEF M2Next

--------------------------------------------------------------------------------
\* TokensSurvive: between two calls the store says what the callers were told, after
\* any restarts, but for changes whose save failed or was cut off.
THEOREM Survival == M2Spec => []TokensSurvive
<1>1. M2Inv => TokensSurvive
  <2> SUFFICES ASSUME M2Inv, caller = Nobody, NEW c \in ClientIds \ unsaved
               PROVE  validate_token(c) <=> (told[c] = "live" /\ c \notin expired)
    BY DEF TokensSurvive
  <2>1. store[c] = "live" <=> told[c] = "live"
    BY DEF M2Inv, StoreTold, Busy, Nobody
  <2> QED BY <2>1 DEF validate_token
<1>2. M2Spec => []M2Inv
  BY InitM2Inv, NextM2Inv, PTL DEF M2Spec
<1> QED BY <1>1, <1>2, PTL

--------------------------------------------------------------------------------
(****************************************************************************)
(* Erasure.                                                                 *)
(****************************************************************************)

\* The shape of the tables.
ErTypeOK ==
  /\ entry_user \in Seq(Users)
  /\ by_user \in [Users -> Seq(Nat)]
  /\ erased \subseteq DOMAIN entry_user
  /\ profile \in [Users -> {"unknown", "kept", "deleted"}]
  /\ audit \in Seq(Users)

\* The vault holds what was stored and not erased.
VaultIsLive == vault = DOMAIN entry_user \ erased

\* The index of a user lists the user's entries that are in the vault, and no others.
IndexComplete ==
  \A u \in Users : Range(by_user[u]) = {e \in vault : entry_user[e] = u}

\* Whose profile is deleted is in the audit log, and the other way round.
Audited == \A u \in Users : profile[u] = "deleted" <=> u \in Range(audit)

ErInv == ErTypeOK /\ VaultIsLive /\ IndexComplete /\ Audited

--------------------------------------------------------------------------------
LEMMA RangeAppend ==
  ASSUME NEW S, NEW s \in Seq(S), NEW x \in S
  PROVE  Append(s, x) \in Seq(S) /\ Range(Append(s, x)) = Range(s) \union {x}
<1>1. /\ Append(s, x) \in Seq(S) /\ Len(Append(s, x)) = Len(s) + 1
      /\ \A i \in 1..Len(s) : Append(s, x)[i] = s[i]
      /\ Append(s, x)[Len(s) + 1] = x
  BY AppendProperties
<1>2. /\ DOMAIN s = 1..Len(s) /\ DOMAIN Append(s, x) = 1..Len(Append(s, x))
      /\ Len(s) \in Nat
  BY <1>1, LenProperties
<1>3. DOMAIN Append(s, x) = DOMAIN s \union {Len(s) + 1}
  BY <1>1, <1>2
<1>4. \A i \in DOMAIN s : Append(s, x)[i] = s[i]
  BY <1>1, <1>2
<1> QED BY <1>1, <1>3, <1>4 DEF Range

LEMMA InitErInv == ErInit => ErInv
<1> SUFFICES ASSUME ErInit PROVE ErInv
  OBVIOUS
<1>1. <<>> \in Seq(Users) /\ <<>> \in Seq(Nat) /\ DOMAIN <<>> = {}
  OBVIOUS
<1>2. Range(<<>>) = {}
  BY <1>1 DEF Range
<1>3. ErTypeOK
  BY <1>1 DEF ErInit, ErTypeOK
<1>4. VaultIsLive /\ IndexComplete /\ Audited
  BY <1>1, <1>2 DEF ErInit, VaultIsLive, IndexComplete, Audited
<1> QED BY <1>3, <1>4 DEF ErInv

LEMMA StoreErInv ==
  ASSUME ErInv, NEW u \in Users, store_pii_entry(u)
  PROVE  ErInv'
<1> DEFINE e == Len(entry_user) + 1
<1>1. /\ entry_user \in Seq(Users) /\ by_user \in [Users -> Seq(Nat)]
      /\ erased \subseteq DOMAIN entry_user
      /\ DOMAIN entry_user = 1..Len(entry_user) /\ Len(entry_user) \in Nat
  BY LenProperties DEF ErInv, ErTypeOK
<1>2. /\ entry_user' = Append(entry_user, u) /\ vault' = vault \union {e}
      /\ by_user' = [by_user EXCEPT ![u] = Append(by_user[u], e)]
      /\ UNCHANGED <<erased, profile, messages, audit>>
  BY DEF store_pii_entry, Indexed
<1>3. /\ entry_user' \in Seq(Users) /\ Len(entry_user') = e
      /\ \A i \in DOMAIN entry_user : entry_user'[i] = entry_user[i]
      /\ entry_user'[e] = u
  BY <1>1, <1>2, AppendProperties
<1>4. DOMAIN entry_user' = DOMAIN entry_user \union {e} /\ e \notin DOMAIN entry_user
  <2>1. DOMAIN entry_user' = 1..e
    BY <1>3, LenProperties
  <2> QED BY <1>1, <2>1
<1>5. /\ by_user' \in [Users -> Seq(Nat)]
      /\ Range(by_user'[u]) = Range(by_user[u]) \union {e}
      /\ \A v \in Users \ {u} : by_user'[v] = by_user[v]
  <2>1. e \in Nat
    BY <1>1
  <2>2. by_user[u] \in Seq(Nat)
    BY <1>1
  <2>3. /\ Append(by_user[u], e) \in Seq(Nat)
        /\ Range(Append(by_user[u], e)) = Range(by_user[u]) \union {e}
    BY <2>1, <2>2, RangeAppend
  <2> QED BY <1>1, <1>2, <2>3
<1> HIDE DEF e
<1>6. ErTypeOK'
  BY <1>1, <1>2, <1>3, <1>4, <1>5 DEF ErInv, ErTypeOK
<1>7. VaultIsLive'
  BY <1>1, <1>2, <1>4 DEF ErInv, VaultIsLive
<1>8. IndexComplete'
  <2>1. vault \subseteq DOMAIN entry_user
    BY DEF ErInv, VaultIsLive
  <2> SUFFICES ASSUME NEW v \in Users
               PROVE  Range(by_user'[v]) = {x \in vault' : entry_user'[x] = v}
    BY DEF IndexComplete, Range
  <2>2. Range(by_user[v]) = {x \in vault : entry_user[x] = v}
    BY DEF ErInv, IndexComplete
  <2>3. CASE v = u
    BY <1>2, <1>3, <1>5, <2>1, <2>2, <2>3
  <2>4. CASE v # u
    BY <1>2, <1>3, <1>5, <2>1, <2>2, <2>4
  <2> QED BY <2>3, <2>4
<1>9. Audited'
  BY <1>2 DEF ErInv, Audited, Range
<1> QED BY <1>6, <1>7, <1>8, <1>9 DEF ErInv

LEMMA RecordErInv ==
  ASSUME ErInv, NEW u \in Users, Record(u)
  PROVE  ErInv'
<1>1. /\ profile' = [profile EXCEPT ![u] = IF @ = "unknown" THEN "kept" ELSE @]
      /\ UNCHANGED <<entry_user, erased, vault, by_user, audit>>
  BY DEF Record
<1>2. ErTypeOK'
  BY <1>1 DEF ErInv, ErTypeOK
<1>3. (VaultIsLive /\ IndexComplete)'
  BY <1>1 DEF ErInv, VaultIsLive, IndexComplete, Range
<1>4. \A v \in Users : profile'[v] = "deleted" <=> profile[v] = "deleted"
  BY <1>1 DEF ErInv, ErTypeOK
<1>5. Audited'
  BY <1>1, <1>4 DEF ErInv, Audited, Range
<1> QED BY <1>2, <1>3, <1>5 DEF ErInv

LEMMA DeleteErInv ==
  ASSUME ErInv, NEW u \in Users, delete_user_data(u)
  PROVE  ErInv'
<1> DEFINE gone == {e \in DOMAIN entry_user : entry_user[e] = u}
<1>1. /\ entry_user \in Seq(Users) /\ by_user \in [Users -> Seq(Nat)]
      /\ erased \subseteq DOMAIN entry_user /\ audit \in Seq(Users)
      /\ profile \in [Users -> {"unknown", "kept", "deleted"}]
  BY DEF ErInv, ErTypeOK
<1>2. /\ audit' = Append(audit, u) /\ profile' = [profile EXCEPT ![u] = "deleted"]
      /\ vault' = vault \ Range(by_user[u])
      /\ by_user' = [by_user EXCEPT ![u] = <<>>]
      /\ erased' = erased \union gone
      /\ UNCHANGED entry_user
  BY DEF delete_user_data
<1>3. audit' \in Seq(Users) /\ Range(audit') = Range(audit) \union {u}
  BY <1>1, <1>2, RangeAppend
<1>4. ErTypeOK'
  <2>1. by_user' \in [Users -> Seq(Nat)]
    BY <1>1, <1>2
  <2> QED BY <1>1, <1>2, <1>3, <2>1 DEF ErTypeOK
<1>5. Range(by_user[u]) = {e \in vault : entry_user[e] = u}
  BY DEF ErInv, IndexComplete
<1>6. VaultIsLive'
  BY <1>2, <1>5 DEF ErInv, VaultIsLive
<1>7. IndexComplete'
  <2> SUFFICES ASSUME NEW v \in Users
               PROVE  Range(by_user'[v]) = {e \in vault' : entry_user[e] = v}
    BY <1>2 DEF IndexComplete, Range
  <2>1. CASE v = u
    <3>1. Range(by_user'[v]) = {}
      BY <1>1, <1>2, <2>1 DEF Range
    <3> QED BY <1>2, <1>5, <2>1, <3>1
  <2>2. CASE v # u
    <3>1. Range(by_user[v]) = {e \in vault : entry_user[e] = v}
      BY DEF ErInv, IndexComplete
    <3>2. by_user'[v] = by_user[v]
      BY <1>1, <1>2, <2>2
    <3> QED BY <1>2, <1>5, <2>2, <3>1, <3>2
  <2> QED BY <2>1, <2>2
<1>8. Audited'
  <2> SUFFICES ASSUME NEW v \in Users
               PROVE  profile'[v] = "deleted" <=> v \in Range(audit')
    BY DEF Audited, Range
  <2> QED BY <1>1, <1>2, <1>3 DEF ErInv, Audited
<1> QED BY <1>4, <1>6, <1>7, <1>8 DEF ErInv

LEMMA NextErInv == ErInv /\ [ErNext]_erVars => ErInv'
<1> SUFFICES ASSUME ErInv, [ErNext]_erVars PROVE ErInv'
  OBVIOUS
<1>1. CASE UNCHANGED erVars
  BY <1>1 DEF erVars, ErInv, ErTypeOK, VaultIsLive, IndexComplete, Audited, Range
<1>2. CASE ErNext
  BY <1>2, StoreErInv, RecordErInv, DeleteErInv DEF ErNext
<1> QED BY <1>1, <1>2

--------------------------------------------------------------------------------
\* Stores and deletions of any number of users in any order: what was stored before
\* its user asked for deletion cannot be decrypted any more, all the rest can, and
\* every deletion is in the audit log.
THEOREM Exact == ErSpec => []ErasureIsExact
<1>1. ErInv => ErasureIsExact
  BY DEF ErInv, VaultIsLive, Audited, ErasureIsExact, decrypt_pii_entry
<1> QED BY <1>1, InitErInv, NextErInv, PTL DEF ErSpec

--------------------------------------------------------------------------------
(****************************************************************************)
(* Access: tokens name nobody but guests and accounts, and what is the      *)
(* administrator's is granted to a token of the account of the moment.      *)
(****************************************************************************)

\* What a token that was given out may say, whoever is the administrator now.
Says(t) ==
  /\ t.exp \in Nat /\ t.sub # "" /\ t.by \in {"login", "guest"}
  /\ t.by = "login" \/ t.sub = "guest"

Given ==
  /\ wall \in Nat /\ admin_user \in Names \union {""}
  /\ \A t \in tokens : Says(t)

AuInv == Given /\ GrantedByRole

LEMMA InitAuInv == AuInit => AuInv
<1> SUFFICES ASSUME AuInit PROVE AuInv
  OBVIOUS
<1>1. Given
  BY DEF AuInit, Given
<1>2. request.status = 0
  BY DEF AuInit, NoRequest
<1> QED  BY <1>1, <1>2 DEF AuInv, GrantedByRole

\* Anonymous gets nothing the routes ask for, a customer knowledge to read and cases
\* to claim or resolve.
LEMMA RolesGrant ==
  ASSUME NEW role \in {"anonymous", "customer", "admin"}, NEW a \in Asked,
         enforce(role, a[1], a[2]) = 200
  PROVE  /\ role # "anonymous"
         /\ role = "customer" =>
              <<a[1], a[2]>> \in {<<"knowledge", "read">>, <<"escalate", "write">>}
<1>1. \A r, op : enforce("anonymous", r, op) = 403
  BY DEF enforce, ROLE_PERMISSIONS
<1>2. \A r, op : r \notin {"knowledge", "escalate"} => enforce("customer", r, op) = 403
  BY DEF enforce, ROLE_PERMISSIONS
<1>3. \A op : op # "read" => enforce("customer", "knowledge", op) = 403
  BY DEF enforce, ROLE_PERMISSIONS
<1>4. \A op : op # "write" => enforce("customer", "escalate", op) = 403
  BY DEF enforce, ROLE_PERMISSIONS
<1> QED  BY <1>1, <1>2, <1>3, <1>4

\* A role comes from a signed token within its lifetime, the administrator's from one
\* that names the account, and a guest is not called that.
LEMMA RolesAreGiven ==
  ASSUME AuInv, NEW t \in Shown, get_current_user_role(t) # "anonymous"
  PROVE  /\ t.by \in {"login", "guest"} /\ t.exp >= wall
         /\ get_current_user_role(t) = "admin" => t.by = "login" /\ t.sub = admin_user
<1>1. /\ t.signed /\ ~(t.exp < wall)
      /\ get_current_user_role(t) = "admin" => t.sub = admin_user
  BY DEF get_current_user_role
<1>2. PICK s \in tokens : t = [sub |-> s.sub, exp |-> s.exp, by |-> s.by, signed |-> TRUE]
  BY <1>1 DEF Shown
<1>3. /\ s.exp \in Nat /\ s.sub # "" /\ s.by \in {"login", "guest"}
      /\ s.by = "login" \/ s.sub = "guest"
      /\ wall \in Nat /\ admin_user \in Names \union {""}
  BY DEF AuInv, Given, Says
<1>4. t.sub = s.sub /\ t.exp = s.exp /\ t.by = s.by
  BY <1>2
<1>5. admin_user # "guest"
  BY <1>3, AccountNames
<1>6. t.exp >= wall
  <2>1. PICK e \in Nat : e = t.exp
    BY <1>3, <1>4
  <2>2. ~(e < wall) /\ wall \in Nat
    BY <1>1, <1>3, <2>1
  <2>3. e >= wall
    BY <2>2
  <2> QED  BY <2>1, <2>3
<1> QED  BY <1>1, <1>3, <1>4, <1>5, <1>6

LEMMA RequestAuInv ==
  ASSUME AuInv, NEW t \in Shown, NEW a \in Asked, Request(t, a[1], a[2])
  PROVE  AuInv'
<1> DEFINE role == get_current_user_role(t)
<1>1. /\ UNCHANGED <<wall, admin_user, tokens>>
      /\ request' = [sub |-> t.sub, exp |-> t.exp, by |-> t.by, resource |-> a[1],
                     action |-> a[2], admin |-> admin_user, at |-> wall,
                     status |-> enforce(role, a[1], a[2])]
  BY DEF Request
<1>2. role \in {"anonymous", "customer", "admin"}
  BY DEF get_current_user_role
<1>3. role # "anonymous" =>
        /\ t.by \in {"login", "guest"} /\ t.exp >= wall
        /\ role = "admin" => t.by = "login" /\ t.sub = admin_user
  BY RolesAreGiven
<1> HIDE DEF role
<1>4. enforce(role, a[1], a[2]) = 200 =>
        /\ role # "anonymous"
        /\ role = "customer" =>
             <<a[1], a[2]>> \in {<<"knowledge", "read">>, <<"escalate", "write">>}
  BY <1>2, RolesGrant
<1>5. GrantedByRole'
  BY <1>1, <1>2, <1>3, <1>4 DEF GrantedByRole
<1> QED  BY <1>1, <1>5 DEF AuInv, Given

\* A token is given out: a login's names the administrator, the others a guest.
LEMMA GivenAuInv ==
  ASSUME AuInv, NEW n, login(n) \/ create_guest_session
  PROVE  AuInv'
<1>1. PICK k \in Nat : k = wall + TokenTtl
  <2>1. wall \in Nat
    BY DEF AuInv, Given
  <2>2. TokenTtl \in Nat
    BY AccountNames
  <2> QED  BY <2>1, <2>2
<1>2. PICK sub, by : /\ tokens' = tokens \union {[sub |-> sub, exp |-> k, by |-> by]}
                     /\ sub # "" /\ by \in {"login", "guest"}
                     /\ by = "login" \/ sub = "guest"
  <2>1. CASE login(n)
    <3>1. n # ""
      BY <2>1 DEF login
    <3> QED  BY <1>1, <2>1, <3>1 DEF login, _make_jwt
  <2>2. CASE ~login(n)
    BY <1>1, <2>2 DEF create_guest_session, _make_jwt
  <2> QED  BY <2>1, <2>2
<1>3. UNCHANGED <<wall, admin_user, request>>
  BY DEF login, create_guest_session
<1>4. Given'
  <2> DEFINE t == [sub |-> sub, exp |-> k, by |-> by]
  <2>1. Says(t)
    BY <1>2 DEF Says
  <2>2. tokens' = tokens \union {t}
    BY <1>2
  <2> HIDE DEF t
  <2> QED  BY <1>3, <2>1, <2>2 DEF AuInv, Given
<1> QED  BY <1>3, <1>4 DEF AuInv, GrantedByRole

LEMMA NextAuInv == AuInv /\ [AuNext]_auVars => AuInv'
<1> SUFFICES ASSUME AuInv, [AuNext]_auVars PROVE AuInv'
  OBVIOUS
<1>1. ASSUME NEW n \in Names, Reconfigure(n) PROVE AuInv'
  BY <1>1 DEF Reconfigure, AuInv, Given, GrantedByRole
<1>2. CASE create_guest_session
  BY <1>2, GivenAuInv
<1>3. CASE AuTick
  <2>0. wall \in Nat /\ wall' = wall + 1
    BY <1>3 DEF AuTick, AuInv, Given
  <2>1. wall' \in Nat
    BY <2>0
  <2> QED  BY <1>3, <2>1 DEF AuTick, AuInv, Given, GrantedByRole
<1>4. CASE UNCHANGED auVars
  BY <1>4 DEF auVars, AuInv, Given, GrantedByRole
<1> QED  BY <1>1, <1>2, <1>3, <1>4, GivenAuInv, RequestAuInv DEF AuNext

\* GrantedByRole: with any accounts, lifetimes and changes of account, what is the
\* administrator's is granted only to a token that login gave to the administrator of
\* the moment, and cases are handled only with a token of this service.
THEOREM Administered == AuSpec => []GrantedByRole
<1>1. AuInv => GrantedByRole
  BY DEF AuInv
<1> QED  BY InitAuInv, NextAuInv, <1>1, PTL DEF AuSpec
================================================================================
