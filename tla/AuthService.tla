----------------------------- MODULE AuthService -----------------------------
(***************************************************************************)
(* Organizations, users and their tokens: auth_service.py with the /auth   *)
(* endpoints, which write the audit event in a transaction of its own, and *)
(* seed.py.  Rows become visible when committed; a name inserted and not   *)
(* yet committed makes another insert of it wait on the unique index.      *)
(***************************************************************************)
EXTENDS Naturals, FiniteSets

CONSTANTS
  Req,          \* requests and runs of the seed script, each made once
  Org,          \* organization names
  Email,        \* e-mail addresses as typed
  Lower,        \* str.lower on them
  Password,
  Staff,        \* users an operator put into the tables beforehand
  Seed,         \* settings: [org, email, pw] of the seed user
  Kinds,        \* the operations of this instance
  Nil

Roles == {"org_admin", "recruiter", "viewer"}
AccountKinds == {"register", "login", "refresh", "seed"}
EndpointKinds == {"list_users", "create_vacancy", "get_vacancy"}
User == [org : Org, email : Email, pw : Password, role : Roles, active : BOOLEAN]

\* What identifies a user; tokens carry the user's id, and an access token also the
\* role the user had, which the backend does not read.
Key(u) == [org |-> u.org, email |-> u.email]
UserKey == [org : Org, email : Email]
Token == [type : {"access", "refresh"}, user : UserKey, role : Roles \cup {Nil}]

\* A user is unique in organization and e-mail; an organization an operator put into
\* the tables has at most one founder.
ASSUME AccountAssumption ==
  /\ Lower \in [Email -> Email] /\ \A e \in Email : Lower[Lower[e]] = Lower[e]
  /\ Staff \subseteq {u \in User : Lower[u.email] = u.email}
  /\ Seed \in [org : Org, email : Email, pw : Password]
  /\ \A u, w \in Staff : Key(u) = Key(w) => u = w
  /\ \A u, w \in Staff : u.role = "org_admin" /\ w.role = "org_admin" /\ u.org = w.org => u = w
  /\ Kinds \subseteq AccountKinds \cup EndpointKinds
  /\ Nil \notin Org \cup Email \cup Password \cup Req \cup UserKey \cup Token \cup Roles

VARIABLES
  orgs,       \* organizations
  users,      \* users, unique in organization and e-mail
  vacancies,  \* vacancies: the request that created each one, and its organization
  log,        \* audit_logs rows about logins
  tokens,     \* tokens ever answered
  req         \* the requests

vars == <<orgs, users, vacancies, log, tokens, req>>
rows == <<orgs, users, vacancies, log>>

Named(k) == {u \in users : Key(u) = k}

\* barred and viewers remember who was inactive, and who a viewer, when the request
\* arrived; no step reads them.
Idle == [kind |-> "none", org |-> Nil, email |-> Nil, pw |-> Nil, token |-> Nil,
         vacancy |-> Nil, pc |-> "idle", inserted |-> FALSE, user |-> Nil, role |-> Nil,
         resp |-> "none", barred |-> {}, viewers |-> {}]

Request ==
  [kind : AccountKinds \cup EndpointKinds \cup {"none"}, org : Org \cup {Nil},
   email : Email \cup {Nil}, pw : Password \cup {Nil}, token : Token \cup {Nil},
   vacancy : Req \cup {Nil},
   pc : {"idle", "begin", "find_org", "insert_org", "commit", "audit", "audit_failed",
         "act", "done"},
   inserted : BOOLEAN, user : UserKey \cup {Nil}, role : Roles \cup {Nil},
   resp : {"none", "ok", "401", "403", "404", "409", "500", "failed"},
   barred : SUBSET UserKey, viewers : SUBSET UserKey]

Become(r, q) == req' = [req EXCEPT ![r] = q]
Goto(r, p) == Become(r, [req[r] EXCEPT !.pc = p])
Answered(q, code) ==
  [q EXCEPT !.pc = "done", !.inserted = FALSE, !.role = Nil, !.resp = code]
Answer(r, code) == Become(r, Answered(req[r], code))
At(r, kinds, p) == req[r].kind \in kinds /\ req[r].pc = p
Write(e, k, r) == log' = log \cup {[event |-> e, user |-> k, by |-> r]}

TokenPair(k, role) == {[type |-> "access", user |-> k, role |-> role],
                       [type |-> "refresh", user |-> k, role |-> Nil]}

\* The answer carries a pair of tokens of the user.
AnswerTokens(r, k, role) ==
  /\ Answer(r, "ok")
  /\ tokens' = tokens \cup TokenPair(k, role)

\* The handler has a user's row at hand.
WithUser(q, p, u) == [q EXCEPT !.pc = p, !.user = Key(u), !.role = u.role]

Init ==
  /\ users = Staff
  /\ orgs = {u.org : u \in Staff}
  /\ vacancies = {} /\ log = {} /\ tokens = {}
  /\ req = [r \in Req |-> Idle]

-----------------------------------------------------------------------------
(* POST /auth/register and the seed script.                                 *)

RegisterCheck(r) ==
  /\ At(r, {"register"}, "begin")
  /\ IF req[r].org \in orgs THEN Answer(r, "409") ELSE Goto(r, "insert_org")
  /\ UNCHANGED <<rows, tokens>>

SeedCheck(r) ==
  /\ At(r, {"seed"}, "begin")
  /\ IF \E u \in users : Lower[u.email] = Lower[req[r].email]
       THEN Answer(r, "ok") ELSE Goto(r, "find_org")
  /\ UNCHANGED <<rows, tokens>>

SeedFindOrg(r) ==
  /\ At(r, {"seed"}, "find_org")
  /\ Goto(r, IF req[r].org \in orgs THEN "commit" ELSE "insert_org")
  /\ UNCHANGED <<rows, tokens>>

\* Variant: the organization is committed on its own.
InsertOrgCommitted(r) ==
  /\ At(r, {"register", "seed"}, "insert_org")
  /\ IF req[r].org \in orgs THEN Answer(r, "500") /\ UNCHANGED orgs
     ELSE Goto(r, "commit") /\ orgs' = orgs \cup {req[r].org}
  /\ UNCHANGED <<users, vacancies, log, tokens>>

\* Variant: no unique index on the name.
InsertOrgAnyway(r) ==
  /\ At(r, {"register", "seed"}, "insert_org")
  /\ Become(r, [req[r] EXCEPT !.pc = "commit", !.inserted = TRUE])
  /\ UNCHANGED <<rows, tokens>>

\* The flush that inserts the organization, held back by an uncommitted one.
InsertOrg(r) ==
  /\ At(r, {"register", "seed"}, "insert_org")
  /\ \A s \in Req : ~(req[s].inserted /\ req[s].org = req[r].org)
  /\ IF req[r].org \in orgs THEN Answer(r, "500")
     ELSE Become(r, [req[r] EXCEPT !.pc = "commit", !.inserted = TRUE])
  /\ UNCHANGED <<rows, tokens>>

NewUser(q) ==
  [org |-> q.org, email |-> Lower[q.email], pw |-> q.pw, active |-> TRUE,
   role |-> IF q.kind = "register" THEN "org_admin" ELSE "recruiter"]

\* Variant: no unique constraint on organization and e-mail.
CreateUserAnyway(r) ==
  /\ At(r, {"register", "seed"}, "commit")
  /\ users' = users \cup {NewUser(req[r])}
  /\ orgs' = orgs \cup {req[r].org}
  /\ IF req[r].kind = "seed" THEN Answer(r, "ok")
     ELSE Become(r, [WithUser(req[r], "audit", NewUser(req[r])) EXCEPT !.inserted = FALSE])
  /\ UNCHANGED <<vacancies, log, tokens>>

\* The user is inserted and both rows are committed.
CreateUser(r) ==
  /\ At(r, {"register", "seed"}, "commit")
  /\ LET u == NewUser(req[r])
     IN \/ /\ Named(Key(u)) # {}
           /\ Answer(r, "500")
           /\ UNCHANGED <<orgs, users>>
        \/ /\ Named(Key(u)) = {}
           /\ users' = users \cup {u}
           /\ orgs' = orgs \cup {u.org}
           /\ IF req[r].kind = "seed" THEN Answer(r, "ok")
              ELSE Become(r, [WithUser(req[r], "audit", u) EXCEPT !.inserted = FALSE])
  /\ UNCHANGED <<vacancies, log, tokens>>

-----------------------------------------------------------------------------
(* POST /auth/login and /auth/refresh.                                      *)

\* Variant: the password is compared with any user's of that address.
AuthenticateAny(r) ==
  /\ At(r, {"login"}, "begin")
  /\ LET found == {u \in users : Lower[u.email] = Lower[req[r].email]}
     IN \/ Goto(r, "audit_failed")
        \/ \E u \in found, w \in found :
             /\ u.active /\ w.pw = req[r].pw
             /\ Become(r, WithUser(req[r], "audit", u))
  /\ UNCHANGED <<rows, tokens>>

\* Variant: an address nobody has is not refused.
AuthenticateUnfound(r) ==
  /\ At(r, {"login"}, "begin")
  /\ LET found == {u \in users : Lower[u.email] = Lower[req[r].email]}
     IN \/ found = {} /\ Goto(r, "audit")
        \/ \E u \in found : u.pw = req[r].pw /\ Become(r, WithUser(req[r], "audit", u))
  /\ UNCHANGED <<rows, tokens>>

\* One row of that address, in whichever organization, is compared.
Authenticate(r) ==
  /\ At(r, {"login"}, "begin")
  /\ LET found == {u \in users : Lower[u.email] = Lower[req[r].email]}
         valid == {u \in found : u.active /\ u.pw = req[r].pw}
     IN \/ found = {} /\ Goto(r, "audit_failed")
        \/ found \ valid # {} /\ Goto(r, "audit_failed")
        \/ \E u \in valid : Become(r, WithUser(req[r], "audit", u))
  /\ UNCHANGED <<rows, tokens>>

\* Variant: the event is added and never committed.
LoginAuditUncommitted(r) ==
  /\ At(r, {"register", "login"}, "audit")
  /\ AnswerTokens(r, req[r].user, req[r].role)
  /\ UNCHANGED rows

\* The login event is committed, then the tokens are answered.
LoginAudit(r) ==
  /\ At(r, {"register", "login"}, "audit")
  /\ Write("login_success", req[r].user, r)
  /\ AnswerTokens(r, req[r].user, req[r].role)
  /\ UNCHANGED <<orgs, users, vacancies>>

LoginFailedAudit(r) ==
  /\ At(r, {"login"}, "audit_failed")
  /\ Write("login_failed", Nil, r)
  /\ Answer(r, "401")
  /\ UNCHANGED <<orgs, users, vacancies, tokens>>

\* Who a token of the expected type names, when still there and active.
Bearer(r, type) ==
  {u \in users : req[r].token.type = type /\ req[r].token.user = Key(u) /\ u.active}

\* Variant: a refresh does not look at is_active.
RefreshBlindly(r) ==
  /\ At(r, {"refresh"}, "begin")
  /\ \/ Answer(r, "401") /\ UNCHANGED tokens
     \/ /\ req[r].token.type = "refresh"
        /\ \E u \in Named(req[r].token.user) : AnswerTokens(r, Key(u), u.role)
  /\ UNCHANGED rows

\* Any token may have expired by now.
Refresh(r) ==
  /\ At(r, {"refresh"}, "begin")
  /\ \/ Answer(r, "401") /\ UNCHANGED tokens
     \/ \E u \in Bearer(r, "refresh") : AnswerTokens(r, Key(u), u.role)
  /\ UNCHANGED rows
=============================================================================
