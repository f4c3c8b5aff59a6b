----------------------------- MODULE AccessControl -----------------------------
(****************************************************************************)
(* Who may do what: ROLE_PERMISSIONS and enforce (admin/rbac.py), tokens    *)
(* and roles (api/auth.py), and the guest sessions of api/adapters/web.py,  *)
(* whose tokens carry the same signature.  The account of the administrator *)
(* is an environment variable, read anew for each request.                  *)
(****************************************************************************)
EXTENDS Naturals, FiniteSets

CONSTANTS TokenTtl,   \* lifetime of a token, in ticks
          MaxTime,    \* bound on the clock
          MaxIssued,  \* bound on tokens given out
          Names       \* account names; the environment's may be "" as well

\* A guest is "guest-" and random digits, which no administrator is called.
ASSUME AccountNames == {"", "guest"} \intersect Names = {} /\ {TokenTtl, MaxTime, MaxIssued} \subseteq Nat

VARIABLES wall,        \* the clock
          admin_user,  \* OMNIBOT_ADMIN_USER, "" for not set
          tokens,      \* tokens given out: sub, exp, and by what
          request      \* the last request: the token shown, what it asked, when, and the answer

auVars == <<wall, admin_user, tokens, request>>

NoRequest ==
  [sub |-> "", exp |-> 0, by |-> "none", resource |-> "none", action |-> "none", admin |-> "",
   at |-> 0, status |-> 0]

AuInit == wall = 0 /\ admin_user \in Names \union {""} /\ tokens = {} /\ request = NoRequest

--------------------------------------------------------------------------------
(****************************************************************************)
(* Permissions.                                                             *)
(****************************************************************************)
_FULL_CRUD == {"read", "write", "delete"}

ROLE_PERMISSIONS ==
  LET rows ==
    [customer |-> [knowledge |-> {"read"}, escalate |-> {"write"}],
     agent    |-> [knowledge |-> {"read"}, escalate |-> {"write"}],
     editor   |-> [knowledge |-> {"read", "write"}, escalate |-> {"read"},
                   experiment |-> {"read"}],
     admin    |-> [r \in {"knowledge", "escalate", "audit", "experiment", "system", "pii"} |->
                     _FULL_CRUD],
     auditor  |-> [r \in {"knowledge", "escalate", "audit", "experiment", "system"} |-> {"read"}],
     dpo      |-> [knowledge |-> {"read"}, escalate |-> {"read"}, audit |-> {"read"},
                   experiment |-> {"read"}, system |-> {"read"}, pii |-> {"decrypt"}]]
  IN  rows

\* An unknown role, resource or action is refused; anonymous has no grants.
enforce(role, resource, action) ==
  IF role \in DOMAIN ROLE_PERMISSIONS
     /\ resource \in DOMAIN ROLE_PERMISSIONS[role]
     /\ action \in ROLE_PERMISSIONS[role][resource]
  THEN 200 ELSE 403

--------------------------------------------------------------------------------
(****************************************************************************)
(* Tokens and roles.                                                        *)
(****************************************************************************)
_make_jwt(sub, by) == [sub |-> sub, exp |-> wall + TokenTtl, by |-> by]

\* Both names must match; without an account in the environment none does.
login(username) ==
  /\ username = admin_user /\ admin_user # ""
  /\ Cardinality(tokens) < MaxIssued
  /\ tokens' = tokens \union {_make_jwt(username, "login")}
  /\ UNCHANGED <<wall, admin_user, request>>

\* Anybody gets a guest session; its name is one no account has.
create_guest_session ==
  /\ Cardinality(tokens) < MaxIssued
  /\ tokens' = tokens \union {_make_jwt("guest", "guest")}
  /\ UNCHANGED <<wall, admin_user, request>>

\* Wrong on purpose: what the token says is believed without its signature.
RoleUnsigned(t) ==
  IF t.exp < wall THEN "anonymous" ELSE IF t.sub = admin_user THEN "admin" ELSE "customer"

\* One failure after the other means anonymous.
get_current_user_role(t) ==
  IF ~t.signed \/ t.exp < wall THEN "anonymous"
  ELSE IF t.sub = admin_user THEN "admin" ELSE "customer"

\* A request with a token that was given out, or with one made elsewhere.
Shown ==
  {[sub |-> t.sub, exp |-> t.exp, by |-> t.by, signed |-> TRUE] : t \in tokens}
    \union [sub : Names \union {"guest"}, exp : {MaxTime}, by : {"nobody"}, signed : {FALSE}]

Request(t, resource, action) ==
  /\ LET role == get_current_user_role(t)
     IN  request' = [sub |-> t.sub, exp |-> t.exp, by |-> t.by, resource |-> resource,
                     action |-> action, admin |-> admin_user, at |-> wall,
                     status |-> enforce(role, resource, action)]
  /\ UNCHANGED <<wall, admin_user, tokens>>

\* A restart with another account.
Reconfigure(name) ==
  /\ admin_user' = name
  /\ UNCHANGED <<wall, tokens, request>>

AuTick ==
  /\ wall < MaxTime /\ wall' = wall + 1
  /\ UNCHANGED <<admin_user, tokens, request>>

\* What the routes of the administration, the management and the portal ask for.
Asked ==
  ({"knowledge"} \X _FULL_CRUD) \union ({"escalate"} \X {"read", "write"})
    \union {<<"experiment", "write">>, <<"system", "write">>}

AuNext ==
  \/ \E n \in Names : login(n) \/ Reconfigure(n)
  \/ create_guest_session \/ AuTick
  \/ \E t \in Shown, a \in Asked : Request(t, a[1], a[2])

AuSpec == AuInit /\ [][AuNext]_auVars

--------------------------------------------------------------------------------
(****************************************************************************)
(* Properties.                                                              *)
(****************************************************************************)

\* Knowledge, experiments and roles change, and the inbox is read, only for a token
\* login gave to the account that is the administrator's at that moment; a case is
\* claimed or resolved by anybody with a token of this service, a guest's too, within
\* its lifetime (FR-61 grants customers escalate:write); expired tokens and those of
\* an earlier account get nothing that is the administrator's.
GrantedByRole ==
  request.status = 200 =>
    /\ request.by \in {"login", "guest"} /\ request.exp >= request.at
    /\ <<request.resource, request.action>> \notin
         {<<"knowledge", "read">>, <<"escalate", "write">>} =>
         request.by = "login" /\ request.sub = request.admin
================================================================================
