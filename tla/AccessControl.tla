---------------------------- MODULE AccessControl ----------------------------
(***************************************************************************)
(* What a token opens: get_current_user (core/deps.py), require_role       *)
(* (rbac.py), and the endpoints on users and vacancies behind them.        *)
(***************************************************************************)
EXTENDS AuthService

\* The _writer dependency of the routers, and what list_users requires.
Allowed(kind) ==
  CASE kind = "list_users" -> {"org_admin"}
    [] kind = "create_vacancy" -> {"org_admin", "recruiter"}
    [] kind = "get_vacancy" -> Roles

\* Variant: the role is the one in the token.
AuthorizeByToken(r) ==
  /\ At(r, EndpointKinds, "begin")
  /\ \/ Answer(r, "401")
     \/ \E u \in Bearer(r, "access") :
          IF req[r].token.role \in Allowed(req[r].kind)
            THEN Become(r, WithUser(req[r], "act", u))
            ELSE Answer(r, "403")
  /\ UNCHANGED <<rows, tokens>>

\* The user is read from the table, with the role it has now.
Authorize(r) ==
  /\ At(r, EndpointKinds, "begin")
  /\ \/ Answer(r, "401")
     \/ \E u \in Bearer(r, "access") :
          IF u.role \in Allowed(req[r].kind)
            THEN Become(r, WithUser(req[r], "act", u))
            ELSE Answer(r, "403")
  /\ UNCHANGED <<rows, tokens>>

ListUsers(r) ==
  /\ At(r, {"list_users"}, "act")
  /\ Answer(r, "ok")
  /\ UNCHANGED <<rows, tokens>>

CreateVacancy(r) ==
  /\ At(r, {"create_vacancy"}, "act")
  /\ vacancies' = vacancies \cup {[id |-> r, org |-> req[r].user.org]}
  /\ Answer(r, "ok")
  /\ UNCHANGED <<orgs, users, log, tokens>>

GetVacancy(r) ==
  /\ At(r, {"get_vacancy"}, "act")
  /\ Answer(r, IF [id |-> req[r].vacancy, org |-> req[r].user.org] \in vacancies
               THEN "ok" ELSE "404")
  /\ UNCHANGED <<rows, tokens>>

-----------------------------------------------------------------------------

\* A call of kind k arrives with what its client or operator gives.
Call(r, k, p) ==
  /\ k \in Kinds
  /\ Become(r, [p EXCEPT !.kind = k, !.pc = "begin",
                         !.barred = {Key(u) : u \in {w \in users : ~w.active}},
                         !.viewers = {Key(u) : u \in {w \in users : w.role = "viewer"}}])

Arrive(r) ==
  /\ req[r].pc = "idle"
  /\ \/ \E o \in Org, e \in Email, w \in Password :
          Call(r, "register", [Idle EXCEPT !.org = o, !.email = e, !.pw = w])
     \/ \E e \in Email, w \in Password : Call(r, "login", [Idle EXCEPT !.email = e, !.pw = w])
     \/ Call(r, "seed", [Idle EXCEPT !.org = Seed.org, !.email = Seed.email, !.pw = Seed.pw])
     \/ \E k \in {"refresh", "list_users", "create_vacancy"}, t \in tokens :
          Call(r, k, [Idle EXCEPT !.token = t])
     \/ \E t \in tokens, v \in vacancies :
          Call(r, "get_vacancy", [Idle EXCEPT !.token = t, !.vacancy = v.id])
  /\ UNCHANGED <<rows, tokens>>

Advance(r) ==
  \/ RegisterCheck(r) \/ SeedCheck(r) \/ SeedFindOrg(r) \/ InsertOrg(r) \/ CreateUser(r)
  \/ Authenticate(r) \/ LoginAudit(r) \/ LoginFailedAudit(r) \/ Refresh(r)
  \/ Authorize(r) \/ ListUsers(r) \/ CreateVacancy(r) \/ GetVacancy(r)

\* A handler dies; what it had not committed is rolled back.
Fail(r) ==
  /\ req[r].pc \notin {"idle", "done"}
  /\ Answer(r, "failed")
  /\ UNCHANGED <<rows, tokens>>

\* No endpoint does it: an operator clears is_active in the database.
Deactivate ==
  /\ \E u \in users : /\ u.active
                      /\ users' = (users \ {u}) \cup {[u EXCEPT !.active = FALSE]}
  /\ UNCHANGED <<orgs, vacancies, log, tokens, req>>

\* Nor this: the operator makes somebody a viewer.
Demote ==
  /\ \E u \in users : /\ u.role # "viewer"
                      /\ users' = (users \ {u}) \cup {[u EXCEPT !.role = "viewer"]}
  /\ UNCHANGED <<orgs, vacancies, log, tokens, req>>

Next == Deactivate \/ Demote \/ \E r \in Req : Arrive(r) \/ Advance(r) \/ Fail(r)

Spec == Init /\ [][Next]_vars

-----------------------------------------------------------------------------

\* The tables, tokens and requests are of their types; only a request about to commit
\* holds an inserted organization or user.
TypeOK ==
  /\ orgs \subseteq Org
  /\ users \subseteq User
  /\ vacancies \subseteq [id : Req, org : Org]
  /\ log \subseteq [event : {"login_success", "login_failed"},
                    user : UserKey \cup {Nil}, by : Req]
  /\ tokens \subseteq Token
  /\ req \in [Req -> Request]
  /\ \A r \in Req : req[r].inserted => req[r].pc = "commit"

\* The request gave the password of that very user.
Proves(q, k) ==
  \E u \in Named(k) :
    /\ q.kind \in {"register", "login"}
    /\ Lower[q.email] = u.email /\ q.pw = u.pw
    /\ q.kind = "register" => q.org = u.org
Proved(k) == \E s \in Req : Proves(req[s], k)

\* Behind every token, however often refreshed, stands its user's password,
\* although login compares only one of the rows of an address.
TokensEarned == \A t \in tokens : Proved(t.user)

\* Viewers are read-only: who created a vacancy belongs to its organization, gave the
\* password once and was no viewer when the call arrived, whatever role the token, issued
\* long before, was issued with.
VacanciesByWriters ==
  \A v \in vacancies : LET q == req[v.id] IN
    /\ q.user \notin q.viewers
    /\ Named(q.user) # {} /\ q.user.org = v.org
    /\ Proved(q.user)

\* Organization and founder are created together, and each organization once:
\* no name is taken by an organization that nobody belongs to.
OrganizationsFounded ==
  \A o \in orgs : {u \in users : u.org = o} # {}

\* However many registrations of a name race, one of them founds the organization.
OneFounder ==
  \A o \in orgs : Cardinality({u \in users : u.org = o /\ u.role = "org_admin"}) <= 1

\* "Idempotent": however many seed scripts run, at once or one after another,
\* the seed organization has one user of the seed's address.
SeededOnce ==
  Cardinality({u \in users : u.org = Seed.org /\ u.email = Lower[Seed.email]}) <= 1

\* Tokens and refusals of a login are in the audit log when they are answered.
LoginsAudited ==
  \A r \in Req : req[r].kind \in {"register", "login"} =>
    /\ req[r].resp = "ok" =>
         [event |-> "login_success", user |-> req[r].user, by |-> r] \in log
    /\ req[r].resp = "401" =>
         [event |-> "login_failed", user |-> Nil, by |-> r] \in log

\* A request that starts after its user was deactivated gets no token and no
\* access, whatever tokens it has; one under way may still finish.
InactiveShutOut ==
  \A r \in Req : req[r].resp = "ok" =>
    /\ req[r].user \notin req[r].barred
    /\ req[r].token # Nil => req[r].token.user \notin req[r].barred

\* What others see of a user.
Profile(u) == [org |-> u.org, email |-> u.email, role |-> u.role, active |-> u.active]

\* The requests that were let through to create a vacancy.
Writing == {r \in Req : At(r, {"create_vacancy"}, "act")}

Promise == INSTANCE AccountRegistry WITH
  Poster <- Req,
  Staff <- {Profile(u) : u \in Staff},
  members <- {Profile(u) : u \in users},
  admitted <- {t.user : t \in tokens},
  granted <- {[id |-> r, org |-> req[r].user.org] : r \in Writing},
  posts <- vacancies

\* Registrations, seed scripts, logins and postings, interleaved statement by
\* statement, are atomic operations of the registry: nobody becomes the admin of an
\* organization that is there already, and no lost race leaves half an account.
ImplementsRegistry == Promise!Spec

\* AuthError: "Raised on invalid credentials or tokens".
ValidCredentialsAccepted ==
  [][\A r \in Req :
       At(r, {"login"}, "begin")
       /\ (\E u \in users : u.active /\ u.email = Lower[req[r].email] /\ u.pw = req[r].pw)
       => req'[r].pc # "audit_failed"]_vars
=============================================================================
