----------------------------- MODULE MCAccounts -----------------------------
(* Small instances of AccessControl for TLC.                                *)
EXTENDS AccessControlInv, TLC

CONSTANTS o1, o2, e1, e2, p1, p2

\* "E1" is another spelling of e1.
Spelling == [e \in Email |-> IF e = "E1" THEN e1 ELSE e]

\* A viewer the operator added.
Viewer == {[org |-> o1, email |-> e1, pw |-> p1, role |-> "viewer", active |-> TRUE]}
SeedUser == [org |-> o2, email |-> e2, pw |-> p2]

All == AccountKinds \cup EndpointKinds
Founding == {"register", "seed", "login"}

Symmetry == Permutations(Req)

\* Who else was inactive, or a viewer, when a request arrived matters to nothing; nor
\* does a request that is over and left neither tokens nor a vacancy, nor what it asked.
Concerns(q, k) ==
  \/ q.token # Nil /\ k = q.token.user
  \/ q.email # Nil /\ k.email = Lower[q.email]
Recalled(q) ==
  [q EXCEPT !.barred = {k \in q.barred : Concerns(q, k)},
            !.viewers = {k \in q.viewers : q.kind = "create_vacancy" /\ Concerns(q, k)}]
OfConcern(q) ==
  IF q.pc # "done" THEN Recalled(q)
  ELSE IF q.kind \in {"register", "login"} THEN [Recalled(q) EXCEPT !.email = Lower[@]]
  ELSE IF q.kind = "seed" \/ q.resp # "ok" THEN [Idle EXCEPT !.pc = "done"]
  ELSE [Recalled(q) EXCEPT !.kind = "none", !.vacancy = Nil, !.token = Nil,
                           !.user = {q.user, q.token.user}]
Concerned == <<rows, tokens, [r \in Req |-> OfConcern(req[r])]>>
=============================================================================
