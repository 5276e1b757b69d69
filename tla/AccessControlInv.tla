-------------------------- MODULE AccessControlInv --------------------------
(***************************************************************************)
(* The inductive invariant behind the safety properties of AccessControl:  *)
(* what the tables hold, what a request has shown or read at each point of *)
(* its handler, and which organizations are being inserted.                *)
(***************************************************************************)
EXTENDS AccessControl

\* The unique indexes, and what a user row implies.
Tables ==
  /\ \A u, w \in users : Key(u) = Key(w) => u = w
  /\ \A u \in users : Lower[u.email] = u.email /\ u.org \in orgs
  /\ \A u, w \in users :
       u.role = "org_admin" /\ w.role = "org_admin" /\ u.org = w.org => u = w

\* What a request has from its caller, and no answer before its end.
Filled(q) ==
  /\ q.pc = "idle" <=> q.kind = "none"
  /\ q.kind \in {"register", "login", "seed"} => q.email \in Email /\ q.pw \in Password
  /\ q.kind \in {"register", "seed"} => q.org \in Org
  /\ q.kind \in EndpointKinds \cup {"refresh"} => q.token \in tokens
  /\ q.kind \in {"register", "login", "seed"} => q.token = Nil
  /\ q.kind = "seed" \/ q.pc = "begin" => q.user = Nil
  /\ q.pc # "done" => q.resp = "none"

\* What a request has found out is still so, except that its user may be deactivated
\* or demoted.
Granted(q) ==
  /\ q.pc = "commit" => q.kind \in {"register", "seed"}
  /\ q.pc = "commit" /\ ~q.inserted => q.kind = "seed" /\ q.org \in orgs
  /\ q.pc = "audit" => Proves(q, q.user)
  /\ q.pc = "act" =>
       /\ q.kind \in EndpointKinds
       /\ Named(q.user) # {} /\ q.token.user = q.user
       /\ q.kind = "create_vacancy" => q.user \notin q.viewers

\* Nobody is activated or promoted again, and who was inactive gets nowhere.
ShutOut(q) ==
  /\ \A k \in q.barred : \E u \in Named(k) : ~u.active
  /\ \A k \in q.viewers : \E u \in Named(k) : u.role = "viewer"
  /\ q.pc \in {"audit", "act"} => q.user \notin q.barred
  /\ q.resp = "ok" => /\ q.user \notin q.barred
                      /\ q.token # Nil => q.token.user \notin q.barred

Sound(q) == Filled(q) /\ Granted(q) /\ ShutOut(q)

\* An inserted organization is nowhere else, committed or not.
InsertedOnce ==
  \A r \in Req : req[r].inserted =>
    /\ req[r].org \notin orgs
    /\ \A s \in Req \ {r} : req[s].inserted => req[s].org # req[r].org

\* A vacancy is there when its request is over.
Posted == \A v \in vacancies : req[v.id].pc = "done"

\* The inductive invariant.
AccountsInv ==
  /\ TypeOK
  /\ Tables
  /\ \A r \in Req : Sound(req[r])
  /\ InsertedOnce
  /\ Posted
  /\ TokensEarned
  /\ VacanciesByWriters
  /\ OrganizationsFounded
  /\ LoginsAudited
=============================================================================
