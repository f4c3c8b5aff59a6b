-------------------------------- MODULE Erasure --------------------------------
(****************************************************************************)
(* The GDPR functions of admin/gdpr.py: the vault of encrypted texts, its   *)
(* index by user, the user's records, and the deletion that must find them  *)
(* all.  No route calls them yet; calls come one after the other, in any    *)
(* order and number.                                                        *)
(****************************************************************************)
EXTENDS Naturals, Sequences, SequencesExt

CONSTANTS Users,      \* user ids
          MaxEntries  \* bound on texts stored in the vault

VARIABLES entry_user, \* history: the user of each entry_id ever given
          erased,     \* history: entries and messages whose user has asked for deletion since
          vault,      \* _VAULT: entry_ids in it
          by_user,    \* _VAULT_BY_USER
          profile,    \* _USERS: "unknown", "kept" or "deleted"
          messages,   \* _MESSAGES: of each user, what is left of each message
          audit       \* _PII_AUDIT_LOG: users, in order

erVars == <<entry_user, erased, vault, by_user, profile, messages, audit>>

ErInit ==
  /\ entry_user = <<>> /\ erased = {} /\ vault = {}
  /\ by_user = [u \in Users |-> <<>>]
  /\ profile = [u \in Users |-> "unknown"]
  /\ messages = [u \in Users |-> <<>>]
  /\ audit = <<>>

--------------------------------------------------------------------------------
\* Wrong on purpose: the index keeps the last entry of a user only.
IndexedLast(u, e) == <<e>>

Indexed(u, e) == Append(by_user[u], e)

store_pii_entry(u) ==
  /\ Len(entry_user) < MaxEntries
  /\ LET entry_id == Len(entry_user) + 1
     IN  /\ entry_user' = Append(entry_user, u)
         /\ vault' = vault \union {entry_id}
         /\ by_user' = [by_user EXCEPT ![u] = Indexed(u, entry_id)]
  /\ UNCHANGED <<erased, profile, messages, audit>>

\* The rest of the service fills the user's records.
Record(u) ==
  /\ Len(messages[u]) < MaxEntries
  /\ messages' = [messages EXCEPT ![u] = Append(@, "text")]
  /\ profile' = [profile EXCEPT ![u] = IF @ = "unknown" THEN "kept" ELSE @]
  /\ UNCHANGED <<entry_user, erased, vault, by_user, audit>>

\* The messages stay, without their text; conversations and emotions go with the profile.
delete_user_data(u) ==
  /\ Len(audit) < MaxEntries
  /\ audit' = Append(audit, u)
  /\ profile' = [profile EXCEPT ![u] = "deleted"]
  /\ messages' = [messages EXCEPT ![u] = [i \in DOMAIN @ |-> "[REDACTED]"]]
  /\ vault' = vault \ Range(by_user[u])
  /\ by_user' = [by_user EXCEPT ![u] = <<>>]
  /\ erased' = erased \union {e \in DOMAIN entry_user : entry_user[e] = u}
  /\ UNCHANGED entry_user

ErNext == \E u \in Users : store_pii_entry(u) \/ Record(u) \/ delete_user_data(u)

ErSpec == ErInit /\ [][ErNext]_erVars

\* Only a role that may decrypt is answered; an entry that is gone is a KeyError.
decrypt_pii_entry(e, permitted) ==
  IF ~permitted THEN "PermissionError" ELSE IF e \in vault THEN "text" ELSE "KeyError"

--------------------------------------------------------------------------------
(****************************************************************************)
(* Properties.                                                              *)
(****************************************************************************)

\* However stores and deletions of several users follow one another, nothing that
\* was stored before its user asked for deletion can be decrypted after it, and
\* everything else still can; each deletion is in the audit log.
ErasureIsExact ==
  /\ \A e \in DOMAIN entry_user : decrypt_pii_entry(e, TRUE) = "text" <=> e \notin erased
  /\ \A u \in Users : profile[u] = "deleted" <=> u \in Range(audit)
================================================================================
