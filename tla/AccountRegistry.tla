--------------------------- MODULE AccountRegistry ---------------------------
(***************************************************************************)
(* What the accounts promise, as atomic operations: an organization comes  *)
(* with its founder, members are added, suspended and demoted and never    *)
(* removed, promoted or reinstated, and only members are admitted, and     *)
(* only writers among them are granted to post.                            *)
(***************************************************************************)
CONSTANTS
  Org, Email,
  Poster,       \* what identifies a posted vacancy
  Staff         \* members there were beforehand

VARIABLES
  orgs,         \* organizations
  members,      \* their members: [org, email, role, active]
  admitted,     \* organization and e-mail of who was given access
  granted,      \* postings that were granted and not made yet: [id, org]
  posts         \* vacancies: [id, org]

registry == <<orgs, members, admitted, granted, posts>>

Name(m) == [org |-> m.org, email |-> m.email]
Member(o, e, role) == [org |-> o, email |-> e, role |-> role, active |-> TRUE]

Init ==
  /\ members = Staff
  /\ orgs = {m.org : m \in Staff}
  /\ admitted = {}
  /\ granted = {}
  /\ posts = {}

Found(o, e) ==
  /\ o \notin orgs
  /\ orgs' = orgs \cup {o}
  /\ members' = members \cup {Member(o, e, "org_admin")}
  /\ UNCHANGED <<admitted, granted, posts>>

Enrol(o, e) ==
  /\ \A m \in members : Name(m) # [org |-> o, email |-> e]
  /\ orgs' = orgs \cup {o}
  /\ members' = members \cup {Member(o, e, "recruiter")}
  /\ UNCHANGED <<admitted, granted, posts>>

Suspend(m) ==
  /\ m.active
  /\ members' = (members \ {m}) \cup {[m EXCEPT !.active = FALSE]}
  /\ UNCHANGED <<orgs, admitted, granted, posts>>

Demote(m) ==
  /\ m.role # "viewer"
  /\ members' = (members \ {m}) \cup {[m EXCEPT !.role = "viewer"]}
  /\ UNCHANGED <<orgs, admitted, granted, posts>>

Admit(m) ==
  /\ admitted' = admitted \cup {Name(m)}
  /\ UNCHANGED <<orgs, members, granted, posts>>

\* Whoever is a writer now may post, and is not asked again.
Grant(m, p) ==
  /\ Name(m) \in admitted /\ m.role # "viewer" /\ m.active
  /\ granted' = granted \cup {[id |-> p, org |-> m.org]}
  /\ UNCHANGED <<orgs, members, admitted, posts>>

Post(g) ==
  /\ posts' = posts \cup {g}
  /\ granted' = granted \ {g}
  /\ UNCHANGED <<orgs, members, admitted>>

Lapse(g) ==
  /\ granted' = granted \ {g}
  /\ UNCHANGED <<orgs, members, admitted, posts>>

Next ==
  \/ \E o \in Org, e \in Email : Found(o, e) \/ Enrol(o, e)
  \/ \E m \in members :
       Suspend(m) \/ Demote(m) \/ Admit(m) \/ \E p \in Poster : Grant(m, p)
  \/ \E g \in granted : Post(g) \/ Lapse(g)

Spec == Init /\ [][Next]_registry
=============================================================================
