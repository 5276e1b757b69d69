---------------------------- MODULE AccessProofs ----------------------------
(***************************************************************************)
(* For any number of requests, organizations, addresses and passwords:     *)
(* AccountsInv is inductive, and with it the safety of accounts and access *)
(* and that every step is an operation of AccountRegistry or a stutter.    *)
(***************************************************************************)
EXTENDS AccessControlInv, FiniteSetTheorems, TLAPS

\* The tables only grow; a user row may at most be deactivated or demoted.
Grows ==
  /\ orgs \subseteq orgs' /\ log \subseteq log' /\ tokens \subseteq tokens'
  /\ \A u \in users : \E w \in users' :
       /\ Key(w) = Key(u) /\ w.email = u.email /\ w.org = u.org
       /\ w.role \in {u.role, "viewer"} /\ w.pw = u.pw /\ (w.active => u.active)

\* What a request was called with does not change any more.
Kept(p, q) ==
  p.kind # "none" =>
    /\ q.kind = p.kind /\ q.org = p.org /\ q.email = p.email /\ q.pw = p.pw

\* What a request q that created the vacancy v had shown, and still has.
Posts(q, v) ==
  /\ q.user \notin q.viewers
  /\ Named(q.user) # {} /\ q.user.org = v.org
  /\ Proved(q.user)

\* The login of a request is in the audit log when it is answered.
Audited(q, r) ==
  q.kind \in {"register", "login"} =>
    /\ q.resp = "ok" => [event |-> "login_success", user |-> q.user, by |-> r] \in log
    /\ q.resp = "401" => [event |-> "login_failed", user |-> Nil, by |-> r] \in log

\* A user found under a key is found there later, with its password.
LEMMA NamedStays ==
  ASSUME Grows, NEW k, NEW u \in Named(k)
  PROVE  \E w \in Named(k)' :
           /\ w.email = u.email /\ w.org = u.org /\ w.pw = u.pw
           /\ w.role \in {u.role, "viewer"} /\ (w.active => u.active)
BY DEF Grows, Named

\* A password that was proved stays proved.
LEMMA ProvesStays ==
  ASSUME Grows, NEW q, NEW k, Proves(q, k)
  PROVE  Proves(q, k)'
<1>1. PICK u \in Named(k) :
        /\ q.kind \in {"register", "login"}
        /\ Lower[q.email] = u.email /\ q.pw = u.pw
        /\ q.kind = "register" => q.org = u.org
  BY DEF Proves
<1>2. PICK w \in Named(k)' :
        w.email = u.email /\ w.org = u.org /\ w.pw = u.pw
  BY NamedStays
<1> QED
  BY <1>1, <1>2 DEF Proves

\* A request that does not move stays sound when the tables grow.
LEMMA SoundStays ==
  ASSUME Grows, NEW q \in Request, Sound(q)
  PROVE  Sound(q)'
<1>1. Filled(q)'
  BY DEF Sound, Filled, Grows
<1>2. Granted(q)'
  <2>1. q.pc = "audit" => Proves(q, q.user)'
    BY ProvesStays DEF Sound, Granted
  <2>2. q.pc = "act" => Named(q.user)' # {}
    <3> SUFFICES ASSUME q.pc = "act" PROVE Named(q.user)' # {}
      OBVIOUS
    <3>1. PICK u : u \in Named(q.user)
      BY DEF Sound, Granted
    <3> QED
      BY <3>1, NamedStays
  <2> QED
    BY <2>1, <2>2 DEF Sound, Granted, Grows
<1>3. ShutOut(q)'
  <2>1. \A k \in q.barred : \E u \in Named(k)' : ~u.active
    <3> TAKE k \in q.barred
    <3>1. PICK u \in Named(k) : ~u.active
      BY DEF Sound, ShutOut
    <3> QED
      BY <3>1, NamedStays
  <2>2. \A k \in q.viewers : \E u \in Named(k)' : u.role = "viewer"
    <3> TAKE k \in q.viewers
    <3>1. PICK u \in Named(k) : u.role = "viewer"
      BY DEF Sound, ShutOut
    <3> QED
      BY <3>1, NamedStays
  <2> QED
    BY <2>1, <2>2 DEF Sound, ShutOut
<1> QED
  BY <1>1, <1>2, <1>3 DEF Sound

\* The passwords proved by all requests stay proved while one of them moves.
LEMMA ProvedStays ==
  ASSUME TypeOK, Grows, NEW r \in Req, NEW q \in Request, Become(r, q), Kept(req[r], q),
         NEW k, Proved(k)
  PROVE  Proved(k)'
<1>1. PICK s \in Req : Proves(req[s], k)
  BY DEF Proved
<1>2. PICK p \in Request : p = req[s]
  BY DEF TypeOK
<1>3. Proves(p, k)'
  BY <1>1, <1>2, ProvesStays
<1>4. PICK n : n = req'[s]
  OBVIOUS
<1>5. n.kind = p.kind /\ n.org = p.org /\ n.email = p.email /\ n.pw = p.pw
  BY <1>1, <1>2, <1>4 DEF TypeOK, Become, Kept, Proves
<1>6. Proves(n, k)'
  BY <1>3, <1>5 DEF Proves
<1> QED
  BY <1>4, <1>6 DEF Proved

\* A step of one request keeps the invariant when the tables grow soundly and the
\* request itself stays sound.
LEMMA StepInvariant ==
  ASSUME AccountsInv, Grows, Tables', OrganizationsFounded',
         NEW r \in Req, NEW q \in Request, Become(r, q), Kept(req[r], q),
         req[r].pc # "done",
         orgs' \subseteq Org, users' \subseteq User,
         vacancies' \subseteq [id : Req, org : Org],
         log' \subseteq [event : {"login_success", "login_failed"},
                         user : UserKey \cup {Nil}, by : Req],
         tokens' \subseteq Token,
         q.inserted => q.pc = "commit",
         Sound(q)', Audited(q, r)', InsertedOnce',
         \A t \in tokens' : t \in tokens \/ Proved(t.user)',
         \A v \in vacancies' : v \in vacancies \/ (v.id = r /\ q.pc = "done" /\ Posts(q, v))
  PROVE  AccountsInv'
<1>1. TypeOK'
  BY DEF AccountsInv, TypeOK, Become
<1>2. \A s \in Req : Sound(req[s])'
  <2> SUFFICES ASSUME NEW s \in Req PROVE Sound(req[s])'
    OBVIOUS
  <2>1. PICK p \in Request : p = req[s]
    BY DEF AccountsInv, TypeOK
  <2>2. Sound(p)'
    BY <2>1, SoundStays DEF AccountsInv
  <2>3. req'[s] = IF s = r THEN q ELSE p
    BY <2>1 DEF AccountsInv, TypeOK, Become
  <2> QED
    BY <2>2, <2>3
<1>3. TokensEarned'
  <2> SUFFICES ASSUME NEW t \in tokens' PROVE Proved(t.user)'
    BY DEF TokensEarned
  <2>1. CASE t \in tokens
    BY <2>1, ProvedStays DEF AccountsInv, TokensEarned
  <2> QED
    BY <2>1
<1>4. VacanciesByWriters'
  <2> SUFFICES ASSUME NEW v \in vacancies' PROVE Posts(req[v.id], v)'
    BY DEF VacanciesByWriters, Posts
  <2>1. PICK p \in Request : p = IF v \in vacancies THEN req[v.id] ELSE q
    BY DEF AccountsInv, TypeOK
  <2>2. Posts(p, v) /\ p = req'[v.id]
    <3>1. v.id \in Req
      BY DEF TypeOK
    <3>2. CASE v \in vacancies
      <4>1. v.id # r
        BY <3>2 DEF AccountsInv, Posted
      <4> QED
        BY <2>1, <3>1, <3>2, <4>1 DEF AccountsInv, TypeOK, Become, VacanciesByWriters, Posts
    <3>3. CASE v \notin vacancies
      BY <2>1, <3>1, <3>3 DEF AccountsInv, TypeOK, Become
    <3> QED
      BY <3>2, <3>3
  <2>3. PICK k : k = p.user
    OBVIOUS
  <2>4. Proved(k)'
    BY <2>2, <2>3, ProvedStays DEF AccountsInv, Posts
  <2>5. PICK u : u \in Named(k)
    BY <2>2, <2>3 DEF Posts
  <2>6. Named(k)' # {}
    BY <2>5, NamedStays
  <2> QED
    BY <2>2, <2>3, <2>4, <2>6 DEF Posts
<1>5. Posted'
  <2> SUFFICES ASSUME NEW v \in vacancies' PROVE req'[v.id].pc = "done"
    BY DEF Posted
  <2>1. v.id \in Req
    OBVIOUS
  <2>2. v.id = r => v \notin vacancies
    BY DEF AccountsInv, Posted
  <2> QED
    BY <2>1, <2>2 DEF AccountsInv, TypeOK, Become, Posted
<1>6. LoginsAudited'
  <2> SUFFICES ASSUME NEW s \in Req, req'[s].kind \in {"register", "login"}
               PROVE  /\ req'[s].resp = "ok" =>
                           [event |-> "login_success", user |-> req'[s].user, by |-> s] \in log'
                      /\ req'[s].resp = "401" =>
                           [event |-> "login_failed", user |-> Nil, by |-> s] \in log'
    BY DEF LoginsAudited
  <2>1. CASE s = r
    <3>1. req'[s] = q
      BY <2>1 DEF AccountsInv, TypeOK, Become
    <3> QED
      BY <2>1, <3>1 DEF Audited
  <2>2. CASE s # r
    <3>1. req'[s] = req[s]
      BY <2>2 DEF AccountsInv, TypeOK, Become
    <3> QED
      BY <3>1 DEF AccountsInv, LoginsAudited, Grows
  <2> QED
    BY <2>1, <2>2
<1> QED
  BY <1>1, <1>2, <1>3, <1>4, <1>5, <1>6 DEF AccountsInv

\* A step that changes no table and answers no token.
LEMMA QuietStep ==
  ASSUME AccountsInv, NEW r \in Req, NEW q \in Request, Become(r, q), Kept(req[r], q),
         req[r].pc # "done", UNCHANGED <<rows, tokens>>, Sound(q), Audited(q, r),
         q.inserted =>
           /\ q.pc = "commit" /\ q.org \notin orgs
           /\ \A s \in Req \ {r} : req[s].inserted => req[s].org # q.org
  PROVE  AccountsInv'
<1>1. /\ orgs' = orgs /\ users' = users /\ vacancies' = vacancies /\ log' = log
      /\ tokens' = tokens
  BY DEF rows
<1>2. Grows
  BY <1>1 DEF Grows
<1>3. Sound(q)'
  BY <1>2, SoundStays
<1>4. Audited(q, r)'
  BY <1>1 DEF Audited
<1>5. Tables' /\ OrganizationsFounded'
  BY <1>1 DEF AccountsInv, Tables, OrganizationsFounded
<1>6. InsertedOnce'
  <2> SUFFICES ASSUME NEW s \in Req, req'[s].inserted
               PROVE  /\ req'[s].org \notin orgs'
                      /\ \A z \in Req \ {s} : req'[z].inserted => req'[z].org # req'[s].org
    BY DEF InsertedOnce
  <2>1. \A z \in Req : req'[z] = IF z = r THEN q ELSE req[z]
    BY DEF AccountsInv, TypeOK, Become
  <2> QED
    BY <1>1, <2>1 DEF AccountsInv, InsertedOnce
<1> QED
  BY <1>1, <1>2, <1>3, <1>4, <1>5, <1>6, StepInvariant DEF AccountsInv, TypeOK

\* The answers of handlers.
Codes == {"ok", "401", "403", "404", "409", "500", "failed"}

\* What is left of a request p that was answered.
Ended(q, p, code) ==
  /\ q \in Request
  /\ q.kind = p.kind /\ q.org = p.org /\ q.email = p.email /\ q.pw = p.pw
  /\ q.token = p.token /\ q.user = p.user /\ q.barred = p.barred /\ q.viewers = p.viewers
  /\ q.pc = "done" /\ q.inserted = FALSE /\ q.resp = code

\* A request that is answered keeps its other fields.
LEMMA AnsweredFields ==
  ASSUME NEW p \in Request, NEW code \in Codes
  PROVE  Ended(Answered(p, code), p, code)
<1>0. PICK q : q = Answered(p, code)
  OBVIOUS
<1>1. code \in {"none", "ok", "401", "403", "404", "409", "500", "failed"}
  BY DEF Codes
<1>2. PICK x : x = [p EXCEPT !.pc = "done"]
  OBVIOUS
<1>3. PICK y : y = [x EXCEPT !.inserted = FALSE]
  OBVIOUS
<1>4. PICK z : z = [y EXCEPT !.role = Nil]
  OBVIOUS
<1>5. q = [z EXCEPT !.resp = code]
  BY <1>0, <1>2, <1>3, <1>4 DEF Answered
<1>6. x \in Request
  BY <1>2 DEF Request
<1>7. y \in Request
  BY <1>3, <1>6 DEF Request
<1>8. z \in Request
  BY <1>4, <1>7 DEF Request
<1>9. q \in Request
  BY <1>1, <1>5, <1>8 DEF Request
<1>10. /\ q.kind = p.kind /\ q.org = p.org /\ q.email = p.email /\ q.pw = p.pw
      /\ q.token = p.token /\ q.user = p.user /\ q.barred = p.barred /\ q.viewers = p.viewers
      /\ q.pc = "done" /\ q.inserted = FALSE /\ q.resp = code
  BY <1>2, <1>3, <1>4, <1>5 DEF Request
<1> QED
  BY <1>0, <1>9, <1>10 DEF Ended

\* A request that is answered without a token.
LEMMA AnswerStep ==
  ASSUME AccountsInv, NEW r \in Req, NEW code \in Codes, Answer(r, code),
         req[r].pc \notin {"idle", "done"}, UNCHANGED <<rows, tokens>>,
         code \in {"ok", "401"} => req[r].kind \notin {"register", "login"},
         code = "ok" => /\ req[r].user \notin req[r].barred
                        /\ req[r].token # Nil => req[r].token.user \notin req[r].barred
  PROVE  AccountsInv'
<1>1. PICK p \in Request : p = req[r]
  BY DEF AccountsInv, TypeOK
<1>2. PICK q : q = Answered(p, code)
  OBVIOUS
<1>3. Ended(q, p, code)
  BY <1>1, <1>2, AnsweredFields
<1>4. /\ q \in Request
      /\ q.kind = p.kind /\ q.org = p.org /\ q.email = p.email /\ q.pw = p.pw
      /\ q.token = p.token /\ q.user = p.user /\ q.barred = p.barred /\ q.viewers = p.viewers
      /\ q.pc = "done" /\ q.inserted = FALSE /\ q.resp = code
  BY <1>3 DEF Ended
<1>5. Become(r, q)
  BY <1>1, <1>2 DEF Answer
<1>6. Sound(p)
  BY <1>1 DEF AccountsInv
<1>7. Sound(q)
  <2>1. Filled(q)
    BY <1>1, <1>4, <1>6 DEF Sound, Filled
  <2>2. Granted(q)
    BY <1>4 DEF Granted
  <2>3. ShutOut(q)
    BY <1>1, <1>4, <1>6 DEF Sound, ShutOut
  <2> QED
    BY <2>1, <2>2, <2>3 DEF Sound
<1>8. Kept(req[r], q) /\ Audited(q, r)
  BY <1>1, <1>4 DEF Kept, Audited
<1> QED
  BY <1>3, <1>4, <1>5, <1>7, <1>8, QuietStep

\* A request that goes on, with what it has.
LEMMA GotoStep ==
  ASSUME AccountsInv, NEW r \in Req,
         NEW pc \in {"find_org", "insert_org", "commit", "audit_failed"}, Goto(r, pc),
         req[r].pc \notin {"idle", "done", "commit"}, UNCHANGED <<rows, tokens>>,
         pc = "commit" => req[r].kind = "seed" /\ req[r].org \in orgs
  PROVE  AccountsInv'
<1>1. PICK p \in Request : p = req[r]
  BY DEF AccountsInv, TypeOK
<1>2. PICK q : q = [p EXCEPT !.pc = pc]
  OBVIOUS
<1>3. q \in Request
  BY <1>1, <1>2 DEF Request
<1>4. /\ q.kind = p.kind /\ q.org = p.org /\ q.email = p.email /\ q.pw = p.pw
      /\ q.token = p.token /\ q.user = p.user /\ q.barred = p.barred /\ q.viewers = p.viewers
      /\ q.pc = pc /\ q.inserted = p.inserted /\ q.resp = p.resp
  BY <1>1, <1>2 DEF Request
<1>5. Become(r, q)
  BY <1>1, <1>2 DEF Goto
<1>6. Sound(p) /\ ~p.inserted
  BY <1>1 DEF AccountsInv, TypeOK
<1>7. Sound(q)
  BY <1>1, <1>4, <1>6 DEF Sound, Filled, Granted, ShutOut
<1>8. Kept(req[r], q) /\ Audited(q, r)
  BY <1>1, <1>4, <1>6 DEF Kept, Audited, Sound, Filled
<1> QED
  BY <1>3, <1>4, <1>5, <1>6, <1>7, <1>8, QuietStep

-----------------------------------------------------------------------------
(* One lemma per step.                                                      *)

\* A call that gives what its kind needs begins soundly; who is inactive or a viewer
\* now is remembered.
LEMMA CallStep ==
  ASSUME AccountsInv, NEW r \in Req, req[r].pc = "idle", NEW k, NEW p \in Request,
         Call(r, k, p), UNCHANGED <<rows, tokens>>,
         p.inserted = FALSE, p.user = Nil, p.resp = "none",
         k \in {"register", "login", "seed"} =>
           p.email \in Email /\ p.pw \in Password /\ p.token = Nil,
         k \in {"register", "seed"} => p.org \in Org,
         k \in EndpointKinds \cup {"refresh"} => p.token \in tokens
  PROVE  AccountsInv'
<1>1. PICK B : B = {Key(u) : u \in {w \in users : ~w.active}}
  OBVIOUS
<1> DEFINE V == {Key(u) : u \in {w \in users : w.role = "viewer"}}
<1>2. PICK q : q = [p EXCEPT !.kind = k, !.pc = "begin", !.barred = B, !.viewers = V]
  OBVIOUS
<1>3. /\ B \in SUBSET UserKey /\ \A b \in B : \E u \in Named(b) : ~u.active
      /\ V \in SUBSET UserKey /\ \A b \in V : \E u \in Named(b) : u.role = "viewer"
  BY <1>1 DEF AccountsInv, TypeOK, User, UserKey, Key, Named
<1>0. Become(r, q)
  BY <1>1, <1>2 DEF Call
<1> HIDE DEF V
<1>4. k \in AccountKinds \cup EndpointKinds
  BY AccountAssumption DEF Call
<1>5. q \in Request
  <2>1. PICK x : x = [p EXCEPT !.kind = k]
    OBVIOUS
  <2>2. PICK y : y = [x EXCEPT !.pc = "begin"]
    OBVIOUS
  <2>3. x \in Request
    BY <1>4, <2>1 DEF Request
  <2>4. y \in Request
    BY <2>2, <2>3 DEF Request
  <2>5. PICK z : z = [y EXCEPT !.barred = B]
    OBVIOUS
  <2>6. z \in Request
    BY <1>3, <2>4, <2>5 DEF Request
  <2>7. q = [z EXCEPT !.viewers = V]
    BY <1>2, <2>1, <2>2, <2>5
  <2> QED
    BY <1>3, <2>6, <2>7 DEF Request
<1>6. /\ q.kind = k /\ q.pc = "begin" /\ q.barred = B /\ q.viewers = V
      /\ q.org = p.org /\ q.email = p.email /\ q.pw = p.pw /\ q.token = p.token
      /\ q.inserted = FALSE /\ q.user = Nil /\ q.resp = "none"
  BY <1>2 DEF Request
<1>7. k # "none"
  BY <1>4 DEF AccountKinds, EndpointKinds
<1>8. Sound(q)
  <2>1. Filled(q)
    BY <1>6, <1>7 DEF Filled
  <2>2. Granted(q)
    BY <1>6 DEF Granted
  <2>3. ShutOut(q)
    BY <1>3, <1>6 DEF ShutOut
  <2> QED
    BY <2>1, <2>2, <2>3 DEF Sound
<1>9. Kept(req[r], q) /\ Audited(q, r)
  <2>1. req[r].kind = "none"
    BY DEF AccountsInv, Sound, Filled
  <2> QED
    BY <1>6, <2>1 DEF Kept, Audited
<1> QED
  BY <1>0, <1>5, <1>6, <1>8, <1>9, QuietStep

\* Every kind of call is one of those.
LEMMA ArriveStep ==
  ASSUME AccountsInv, NEW r \in Req, Arrive(r)
  PROVE  AccountsInv'
<1>1. /\ req[r].pc = "idle" /\ UNCHANGED <<rows, tokens>>
      /\ tokens \subseteq Token /\ vacancies \subseteq [id : Req, org : Org]
      /\ Seed \in [org : Org, email : Email, pw : Password]
  BY AccountAssumption DEF Arrive, AccountsInv, TypeOK
<1>2. Idle \in Request
  BY DEF Idle, Request
<1>3. ASSUME NEW o \in Org, NEW e \in Email, NEW w \in Password,
             Call(r, "register", [Idle EXCEPT !.org = o, !.email = e, !.pw = w])
      PROVE  AccountsInv'
  <2>1. PICK p : p = [Idle EXCEPT !.org = o, !.email = e, !.pw = w]
    OBVIOUS
  <2>2. /\ p \in Request /\ p.inserted = FALSE /\ p.user = Nil /\ p.resp = "none"
        /\ p.email \in Email /\ p.pw \in Password /\ p.token = Nil /\ p.org \in Org
    BY <1>2, <2>1 DEF Idle, Request
  <2> QED
    BY <1>1, <1>3, <2>1, <2>2, CallStep DEF EndpointKinds
<1>4. ASSUME NEW e \in Email, NEW w \in Password,
             Call(r, "login", [Idle EXCEPT !.email = e, !.pw = w])
      PROVE  AccountsInv'
  <2>1. PICK p : p = [Idle EXCEPT !.email = e, !.pw = w]
    OBVIOUS
  <2>2. /\ p \in Request /\ p.inserted = FALSE /\ p.user = Nil /\ p.resp = "none"
        /\ p.email \in Email /\ p.pw \in Password /\ p.token = Nil
    BY <1>2, <2>1 DEF Idle, Request
  <2> QED
    BY <1>1, <1>4, <2>1, <2>2, CallStep DEF EndpointKinds
<1>5. ASSUME Call(r, "seed", [Idle EXCEPT !.org = Seed.org, !.email = Seed.email,
                                          !.pw = Seed.pw])
      PROVE  AccountsInv'
  <2>1. PICK p : p = [Idle EXCEPT !.org = Seed.org, !.email = Seed.email, !.pw = Seed.pw]
    OBVIOUS
  <2>2. /\ p \in Request /\ p.inserted = FALSE /\ p.user = Nil /\ p.resp = "none"
        /\ p.email \in Email /\ p.pw \in Password /\ p.token = Nil /\ p.org \in Org
    BY <1>1, <1>2, <2>1 DEF Idle, Request
  <2> QED
    BY <1>1, <1>5, <2>1, <2>2, CallStep DEF EndpointKinds
<1>6. ASSUME NEW k \in {"refresh", "list_users", "create_vacancy"}, NEW t \in tokens,
             Call(r, k, [Idle EXCEPT !.token = t])
      PROVE  AccountsInv'
  <2>1. PICK p : p = [Idle EXCEPT !.token = t]
    OBVIOUS
  <2>2. /\ p \in Request /\ p.inserted = FALSE /\ p.user = Nil /\ p.resp = "none"
        /\ p.token \in tokens
    BY <1>1, <1>2, <2>1 DEF Idle, Request
  <2> QED
    BY <1>1, <1>6, <2>1, <2>2, CallStep DEF EndpointKinds
<1>7. ASSUME NEW t \in tokens, NEW v \in vacancies,
             Call(r, "get_vacancy", [Idle EXCEPT !.token = t, !.vacancy = v.id])
      PROVE  AccountsInv'
  <2>1. PICK p : p = [Idle EXCEPT !.token = t, !.vacancy = v.id]
    OBVIOUS
  <2>2. /\ p \in Request /\ p.inserted = FALSE /\ p.user = Nil /\ p.resp = "none"
        /\ p.token \in tokens
    BY <1>1, <1>2, <2>1 DEF Idle, Request
  <2> QED
    BY <1>1, <1>7, <2>1, <2>2, CallStep DEF EndpointKinds
<1> QED
  BY <1>3, <1>4, <1>5, <1>6, <1>7 DEF Arrive

\* The steps that look up or refuse, and the end of a handler that died.
LEMMA LookupSteps ==
  ASSUME AccountsInv, NEW r \in Req,
         RegisterCheck(r) \/ SeedCheck(r) \/ SeedFindOrg(r) \/ Fail(r)
  PROVE  AccountsInv'
<1>1. /\ req[r].kind = "seed" => req[r].user = Nil /\ req[r].token = Nil
      /\ Nil \notin req[r].barred
  <2>1. req[r] \in Request /\ Sound(req[r])
    BY DEF AccountsInv, TypeOK
  <2> QED
    BY <2>1, AccountAssumption DEF Request, Sound, Filled
<1>2. CASE RegisterCheck(r)
  BY <1>2, AnswerStep, GotoStep DEF RegisterCheck, At, Codes
<1>3. CASE SeedCheck(r)
  BY <1>1, <1>3, AnswerStep, GotoStep DEF SeedCheck, At, Codes
<1>4. CASE SeedFindOrg(r)
  BY <1>4, GotoStep DEF SeedFindOrg, At
<1>5. CASE Fail(r)
  BY <1>5, AnswerStep DEF Fail, Codes
<1> QED
  BY <1>2, <1>3, <1>4, <1>5

\* The organization's row is inserted when no other holds its name.
LEMMA InsertOrgStep ==
  ASSUME AccountsInv, NEW r \in Req, InsertOrg(r)
  PROVE  AccountsInv'
<1>1. CASE req[r].org \in orgs
  BY <1>1, AnswerStep DEF InsertOrg, At, Codes
<1>2. CASE req[r].org \notin orgs
  <2>1. PICK p \in Request : p = req[r]
    BY DEF AccountsInv, TypeOK
  <2>2. PICK x : x = [p EXCEPT !.pc = "commit"]
    OBVIOUS
  <2>3. PICK q : q = [x EXCEPT !.inserted = TRUE]
    OBVIOUS
  <2>4. Become(r, q)
    BY <1>2, <2>1, <2>2, <2>3 DEF InsertOrg
  <2>5. x \in Request
    BY <2>1, <2>2 DEF Request
  <2>6. q \in Request
    BY <2>3, <2>5 DEF Request
  <2>7. /\ q.kind = p.kind /\ q.org = p.org /\ q.email = p.email /\ q.pw = p.pw
        /\ q.token = p.token /\ q.user = p.user /\ q.barred = p.barred /\ q.viewers = p.viewers
        /\ q.pc = "commit" /\ q.inserted = TRUE /\ q.resp = p.resp
    BY <2>1, <2>2, <2>3 DEF Request
  <2>8. Sound(p) /\ p.kind \in {"register", "seed"} /\ p.pc = "insert_org"
    BY <2>1 DEF AccountsInv, InsertOrg, At
  <2>9. Sound(q)
    BY <2>7, <2>8 DEF Sound, Filled, Granted, ShutOut
  <2>10. Kept(req[r], q) /\ Audited(q, r)
    BY <2>1, <2>7, <2>8 DEF Kept, Audited, Sound, Filled
  <2>11. \A s \in Req \ {r} : req[s].inserted => req[s].org # q.org
    BY <2>1, <2>7 DEF InsertOrg
  <2> QED
    BY <1>2, <2>1, <2>4, <2>6, <2>7, <2>8, <2>9, <2>10, <2>11, QuietStep DEF InsertOrg
<1> QED
  BY <1>1, <1>2

\* What the user of a registration or of the seed script looks like.
LEMMA NewUserType ==
  ASSUME AccountsInv, NEW p \in Request, Filled(p), p.kind \in {"register", "seed"}
  PROVE  /\ NewUser(p) \in User /\ NewUser(p).org = p.org /\ NewUser(p).pw = p.pw
         /\ NewUser(p).email = Lower[p.email]
         /\ Lower[NewUser(p).email] = NewUser(p).email
         /\ NewUser(p).role = IF p.kind = "register" THEN "org_admin" ELSE "recruiter"
<1>1. /\ Lower \in [Email -> Email] /\ \A e \in Email : Lower[Lower[e]] = Lower[e]
      /\ p.email \in Email /\ p.pw \in Password /\ p.org \in Org
  BY AccountAssumption DEF Filled
<1> QED
  BY <1>1 DEF NewUser, User, Roles

\* A new user under a new key keeps the tables in order and the inserted
\* organizations apart.
LEMMA UserAdded ==
  ASSUME AccountsInv, NEW r \in Req, At(r, {"register", "seed"}, "commit"),
         NEW u \in User, u = NewUser(req[r]), Named(Key(u)) = {},
         users' = users \cup {u}, orgs' = orgs \cup {u.org},
         NEW q, ~q.inserted, Become(r, q)
  PROVE  Tables' /\ OrganizationsFounded' /\ InsertedOnce'
<1>1. PICK p \in Request : p = req[r]
  BY DEF AccountsInv, TypeOK
<1>2. Sound(p) /\ p.kind \in {"register", "seed"} /\ p.pc = "commit"
  BY <1>1 DEF AccountsInv, At
<1>3. /\ u.org = p.org /\ Lower[u.email] = u.email
      /\ u.role = IF p.kind = "register" THEN "org_admin" ELSE "recruiter"
  BY <1>1, <1>2, NewUserType DEF Sound
<1>4. p.inserted => p.org \notin orgs
  BY <1>1 DEF AccountsInv, InsertedOnce
<1>5. ~p.inserted => p.kind = "seed" /\ p.org \in orgs
  BY <1>2 DEF Sound, Granted
<1>6. \A w \in users : w.org \in orgs /\ Key(w) # Key(u)
  BY DEF AccountsInv, Tables, Named
<1>7. Tables'
  <2>1. \A w \in users : u.role = "org_admin" => w.org # u.org
    BY <1>3, <1>4, <1>5, <1>6
  <2>2. \A v, w \in users' : Key(v) = Key(w) => v = w
    BY <1>6 DEF AccountsInv, Tables
  <2>3. \A w \in users' : Lower[w.email] = w.email /\ w.org \in orgs'
    BY <1>3 DEF AccountsInv, Tables
  <2>4. \A v, w \in users' :
          v.role = "org_admin" /\ w.role = "org_admin" /\ v.org = w.org => v = w
    BY <2>1 DEF AccountsInv, Tables
  <2> QED
    BY <2>2, <2>3, <2>4 DEF Tables
<1>8. OrganizationsFounded'
  BY DEF AccountsInv, OrganizationsFounded
<1>9. InsertedOnce'
  <2> SUFFICES ASSUME NEW s \in Req, req'[s].inserted
               PROVE  /\ req'[s].org \notin orgs'
                      /\ \A z \in Req \ {s} : req'[z].inserted => req'[z].org # req'[s].org
    BY DEF InsertedOnce
  <2>1. \A z \in Req : req'[z] = IF z = r THEN q ELSE req[z]
    BY DEF AccountsInv, TypeOK, Become
  <2>2. s # r /\ req'[s] = req[s] /\ req[s].inserted
    BY <2>1
  <2>3. req[s].org \notin orgs
        /\ \A z \in Req \ {s} : req[z].inserted => req[z].org # req[s].org
    BY <2>2 DEF AccountsInv, InsertedOnce
  <2>4. req[s].org # u.org
    BY <1>1, <1>3, <1>5, <2>2, <2>3
  <2> QED
    BY <2>1, <2>2, <2>3, <2>4
<1> QED
  BY <1>7, <1>8, <1>9

\* A request q that has the row of user u at hand at p.
Holding(q, p, pc, u) ==
  /\ q \in Request
  /\ q.kind = p.kind /\ q.org = p.org /\ q.email = p.email /\ q.pw = p.pw
  /\ q.token = p.token /\ q.barred = p.barred /\ q.viewers = p.viewers
  /\ q.inserted = p.inserted /\ q.pc = pc /\ q.resp = p.resp /\ q.user = Key(u)

\* It keeps its other fields.
LEMMA WithUserFields ==
  ASSUME NEW p \in Request, NEW pc \in {"audit", "act"}, NEW u \in User, Key(u) \in UserKey
  PROVE  Holding(WithUser(p, pc, u), p, pc, u)
<1>1. PICK q : q = WithUser(p, pc, u)
  OBVIOUS
<1>2. PICK x : x = [p EXCEPT !.pc = pc]
  OBVIOUS
<1>3. PICK y : y = [x EXCEPT !.user = Key(u)]
  OBVIOUS
<1>4. q = [y EXCEPT !.role = u.role]
  BY <1>1, <1>2, <1>3 DEF WithUser
<1>5. x \in Request
  BY <1>2 DEF Request
<1>6. y \in Request
  BY <1>3, <1>5 DEF Request
<1>7. u.role \in Roles
  BY DEF User
<1>8. q \in Request
  BY <1>4, <1>6, <1>7 DEF Request
<1>9. /\ q.kind = p.kind /\ q.org = p.org /\ q.email = p.email /\ q.pw = p.pw
      /\ q.token = p.token /\ q.barred = p.barred /\ q.viewers = p.viewers
      /\ q.inserted = p.inserted /\ q.pc = pc /\ q.resp = p.resp /\ q.user = Key(u)
  BY <1>2, <1>3, <1>4 DEF Request
<1> QED
  BY <1>1, <1>8, <1>9 DEF Holding

\* Organization and user are committed together.
LEMMA CreateUserStep ==
  ASSUME AccountsInv, NEW r \in Req, CreateUser(r)
  PROVE  AccountsInv'
<1>1. PICK p \in Request : p = req[r]
  BY DEF AccountsInv, TypeOK
<1>2. Sound(p) /\ p.kind \in {"register", "seed"} /\ p.pc = "commit"
  BY <1>1 DEF AccountsInv, CreateUser, At
<1>3. PICK u \in User : u = NewUser(p)
  BY <1>2, NewUserType DEF Sound
<1>4. /\ u.org = p.org /\ u.pw = p.pw /\ u.email = Lower[p.email]
      /\ Lower[u.email] = u.email /\ Key(u) \in UserKey
      /\ u.role = IF p.kind = "register" THEN "org_admin" ELSE "recruiter"
  BY <1>2, <1>3, NewUserType DEF Sound, Key, UserKey, User
<1>5. UNCHANGED <<vacancies, log, tokens>>
  BY DEF CreateUser
<1>6. CASE Answer(r, "500") /\ UNCHANGED <<orgs, users>>
  BY <1>1, <1>2, <1>5, <1>6, AnswerStep DEF rows, Codes
<1>7. CASE /\ Named(Key(u)) = {} /\ users' = users \cup {u} /\ orgs' = orgs \cup {u.org}
           /\ IF p.kind = "seed" THEN Answer(r, "ok")
              ELSE Become(r, [WithUser(p, "audit", u) EXCEPT !.inserted = FALSE])
  <2>1. PICK q \in Request :
          /\ Become(r, q)
          /\ q.kind = p.kind /\ q.org = p.org /\ q.email = p.email /\ q.pw = p.pw
          /\ q.token = p.token /\ q.barred = p.barred /\ q.viewers = p.viewers /\ ~q.inserted
          /\ p.kind = "seed" => q.pc = "done" /\ q.resp = "ok" /\ q.user = p.user
          /\ p.kind = "register" => q.pc = "audit" /\ q.resp = p.resp /\ q.user = Key(u)
    <3>1. CASE p.kind = "seed"
      <4>1. PICK q : q = Answered(p, "ok")
        OBVIOUS
      <4>2. "ok" \in Codes
        BY DEF Codes
      <4>3. /\ q \in Request
            /\ q.kind = p.kind /\ q.org = p.org /\ q.email = p.email /\ q.pw = p.pw
            /\ q.token = p.token /\ q.user = p.user /\ q.barred = p.barred /\ q.viewers = p.viewers
            /\ q.pc = "done" /\ q.inserted = FALSE /\ q.resp = "ok"
        <5>1. Ended(q, p, "ok")
          BY <4>1, <4>2, AnsweredFields
        <5> QED
          BY <5>1 DEF Ended
      <4>4. Become(r, q)
        BY <1>1, <1>7, <3>1, <4>1 DEF Answer
      <4> QED
        BY <3>1, <4>3, <4>4
    <3>2. CASE p.kind = "register"
      <4>1. PICK x : x = WithUser(p, "audit", u)
        OBVIOUS
      <4>2. PICK q : q = [x EXCEPT !.inserted = FALSE]
        OBVIOUS
      <4>3. Holding(x, p, "audit", u)
        BY <1>4, <4>1, WithUserFields
      <4>4. x \in Request
        BY <4>3 DEF Holding
      <4>6. q \in Request
        BY <4>2, <4>4 DEF Request
      <4>7. /\ q.kind = p.kind /\ q.org = p.org /\ q.email = p.email /\ q.pw = p.pw
            /\ q.token = p.token /\ q.barred = p.barred /\ q.viewers = p.viewers /\ q.inserted = FALSE
            /\ q.pc = "audit" /\ q.resp = p.resp /\ q.user = Key(u)
        BY <4>2, <4>3, <4>4 DEF Request, Holding
      <4>8. Become(r, q)
        BY <1>7, <3>2, <4>1, <4>2
      <4> QED
        BY <3>2, <4>6, <4>7, <4>8
    <3> QED
      BY <1>2, <3>1, <3>2
  <2>2. Tables' /\ OrganizationsFounded' /\ InsertedOnce'
    BY <1>1, <1>3, <1>7, <2>1, UserAdded DEF CreateUser
  <2>3. Grows
    BY <1>5, <1>7 DEF Grows
  <2>4. u \in Named(Key(u))'
    BY <1>7 DEF Named
  <2>5. Key(u) \notin p.barred
    <3>1. \A k \in p.barred : Named(k) # {}
      BY <1>2 DEF Sound, ShutOut
    <3> QED
      BY <1>7, <3>1
  <2>6. Nil \notin p.barred
    BY AccountAssumption DEF Request
  <2>7. Sound(q)'
    <3>1. Filled(q)'
      BY <1>2, <1>5, <2>1 DEF Sound, Filled
    <3>2. Granted(q)'
      <4>1. q.pc = "audit" => q.user = Key(u) /\ q.kind = "register"
        BY <1>2, <2>1
      <4>2. q.pc = "audit" => Proves(q, q.user)'
        BY <1>4, <2>1, <2>4, <4>1 DEF Proves
      <4> QED
        BY <1>2, <2>1, <4>2 DEF Granted
    <3>3. ShutOut(q)'
      <4>1. /\ \A k \in q.barred : \E w \in Named(k)' : ~w.active
            /\ \A k \in q.viewers : \E w \in Named(k)' : w.role = "viewer"
        BY <1>2, <1>7, <2>1 DEF Sound, ShutOut, Named
      <4>2. q.user = p.user \/ q.user = Key(u)
        BY <1>2, <2>1
      <4>3. q.kind = "seed" => q.user = Nil
        BY <1>2, <2>1 DEF Sound, Filled
      <4>4. q.token = Nil
        BY <1>2, <2>1 DEF Sound, Filled
      <4>5. q.user \notin q.barred
        BY <1>2, <2>1, <2>5, <2>6, <4>3
      <4> QED
        BY <4>1, <4>4, <4>5 DEF ShutOut
    <3> QED
      BY <3>1, <3>2, <3>3 DEF Sound
  <2>8. Kept(req[r], q) /\ Audited(q, r)'
    BY <1>1, <1>2, <2>1 DEF Kept, Audited, Sound, Filled
  <2>9. users' \subseteq User /\ orgs' \subseteq Org
    BY <1>7 DEF AccountsInv, TypeOK, User
  <2> QED
    BY <1>1, <1>2, <1>5, <2>1, <2>2, <2>3, <2>7, <2>8, <2>9, StepInvariant
       DEF AccountsInv, TypeOK
<1> QED
  BY <1>1, <1>3, <1>6, <1>7 DEF CreateUser

\* A user read from the table was not inactive when the request arrived.
LEMMA ActiveNotBarred ==
  ASSUME AccountsInv, NEW p \in Request, Sound(p), NEW u \in users, u.active
  PROVE  Key(u) \in UserKey /\ Key(u) \notin p.barred
<1>1. Key(u) \in UserKey
  BY DEF AccountsInv, TypeOK, User, UserKey, Key
<1>2. ASSUME Key(u) \in p.barred PROVE FALSE
  <2>1. PICK w \in Named(Key(u)) : ~w.active
    BY <1>2 DEF Sound, ShutOut
  <2>2. w = u
    BY <2>1 DEF AccountsInv, Tables, Named
  <2> QED
    BY <2>1, <2>2
<1> QED
  BY <1>1, <1>2

\* Nor was it a viewer then, when it is none now.
LEMMA WriterNotViewer ==
  ASSUME AccountsInv, NEW p \in Request, Sound(p), NEW u \in users, u.role # "viewer"
  PROVE  Key(u) \notin p.viewers
<1> SUFFICES ASSUME Key(u) \in p.viewers PROVE FALSE
  OBVIOUS
<1>1. PICK w \in Named(Key(u)) : w.role = "viewer"
  BY DEF Sound, ShutOut
<1>2. w = u
  BY <1>1 DEF AccountsInv, Tables, Named
<1> QED
  BY <1>1, <1>2

\* A request goes on for a user it has found.
LEMMA FoundStep ==
  ASSUME AccountsInv, NEW r \in Req, NEW pc \in {"audit", "act"}, NEW u \in users, u.active,
         Become(r, WithUser(req[r], pc, u)),
         req[r].pc = "begin", UNCHANGED <<rows, tokens>>,
         pc = "audit" => req[r].kind = "login" /\ Proves(req[r], Key(u)),
         pc = "act" => /\ req[r].kind \in EndpointKinds /\ u.role \in Allowed(req[r].kind)
                       /\ req[r].token.user = Key(u)
  PROVE  AccountsInv'
<1>1. PICK p \in Request : p = req[r]
  BY DEF AccountsInv, TypeOK
<1>2. PICK q : q = WithUser(p, pc, u)
  OBVIOUS
<1>4. Sound(p) /\ p.pc = "begin" /\ ~p.inserted
  BY <1>1 DEF AccountsInv, TypeOK
<1>5. Key(u) \in UserKey /\ Key(u) \notin p.barred /\ u \in User
  BY <1>4, ActiveNotBarred DEF AccountsInv, TypeOK
<1>6. Holding(q, p, pc, u)
  BY <1>2, <1>5, WithUserFields
<1>7. q \in Request
  BY <1>6 DEF Holding
<1>8. /\ q.kind = p.kind /\ q.org = p.org /\ q.email = p.email /\ q.pw = p.pw
      /\ q.token = p.token /\ q.barred = p.barred /\ q.viewers = p.viewers /\ q.inserted = p.inserted
      /\ q.pc = pc /\ q.resp = p.resp /\ q.user = Key(u)
  BY <1>6 DEF Holding
<1>9. Become(r, q)
  BY <1>1, <1>2
<1>10. Sound(q)
  <2>1. Filled(q)
    <3>1. q.kind # "seed"
      BY <1>1, <1>8 DEF EndpointKinds
    <3> QED
      BY <1>4, <1>8, <3>1 DEF Sound, Filled
  <2>2. Granted(q)
    <3>1. q.pc = "audit" => Proves(q, q.user)
      BY <1>1, <1>8 DEF Proves
    <3>2. u \in Named(Key(u))
      BY DEF Named
    <3>3. q.pc = "act" /\ q.kind = "create_vacancy" => q.user \notin q.viewers
      BY <1>1, <1>4, <1>8, WriterNotViewer DEF Allowed
    <3> QED
      BY <1>1, <1>8, <3>1, <3>2, <3>3 DEF Granted
  <2>3. ShutOut(q)
    BY <1>4, <1>5, <1>8 DEF Sound, ShutOut, Filled
  <2> QED
    BY <2>1, <2>2, <2>3 DEF Sound
<1>11. Kept(req[r], q) /\ Audited(q, r)
  BY <1>1, <1>4, <1>8 DEF Kept, Audited, Sound, Filled
<1> QED
  BY <1>4, <1>7, <1>8, <1>9, <1>10, <1>11, QuietStep

\* A login goes on only for a user whose password it gave.
LEMMA AuthenticateStep ==
  ASSUME AccountsInv, NEW r \in Req, Authenticate(r)
  PROVE  AccountsInv'
<1>1. CASE Goto(r, "audit_failed")
  BY <1>1, GotoStep DEF Authenticate, At
<1>2. ASSUME NEW u \in users, u.active, Lower[u.email] = Lower[req[r].email],
             u.pw = req[r].pw,
             Become(r, WithUser(req[r], "audit", u))
      PROVE  AccountsInv'
  <2>1. Lower[u.email] = u.email
    BY DEF AccountsInv, Tables
  <2>2. Proves(req[r], Key(u))
    BY <1>2, <2>1 DEF Proves, Named, Authenticate, At
  <2> QED
    BY <1>2, <2>2, FoundStep DEF Authenticate, At
<1> QED
  BY <1>1, <1>2 DEF Authenticate

\* The bearer of an access token goes on with the role the table says.
LEMMA AuthorizeStep ==
  ASSUME AccountsInv, NEW r \in Req, Authorize(r)
  PROVE  AccountsInv'
<1>1. req[r].kind \notin {"register", "login"} /\ req[r].pc = "begin"
      /\ req[r].kind \in EndpointKinds
  BY DEF Authorize, At, EndpointKinds
<1>2. CASE Answer(r, "401")
  BY <1>1, <1>2, AnswerStep DEF Authorize, Codes
<1>3. CASE Answer(r, "403")
  BY <1>1, <1>3, AnswerStep DEF Authorize, Codes
<1>4. ASSUME NEW u \in Bearer(r, "access"), u.role \in Allowed(req[r].kind),
             Become(r, WithUser(req[r], "act", u))
      PROVE  AccountsInv'
  BY <1>1, <1>4, FoundStep DEF Authorize, Bearer
<1> QED
  BY <1>2, <1>3, <1>4 DEF Authorize

\* Reading endpoints answer and change nothing.
LEMMA ReadSteps ==
  ASSUME AccountsInv, NEW r \in Req, ListUsers(r) \/ GetVacancy(r)
  PROVE  AccountsInv'
<1>1. /\ req[r].pc = "act" /\ req[r].kind \notin {"register", "login"}
      /\ UNCHANGED <<rows, tokens>>
  BY DEF ListUsers, GetVacancy, At
<1>2. PICK p \in Request : p = req[r] /\ Sound(p)
  BY DEF AccountsInv, TypeOK
<1>3. p.user \notin p.barred /\ p.token.user = p.user
  BY <1>1, <1>2 DEF Sound, ShutOut, Granted
<1>4. Answer(r, "ok") \/ Answer(r, "404")
  BY DEF ListUsers, GetVacancy
<1> QED
  BY <1>1, <1>2, <1>3, <1>4, AnswerStep DEF Codes

\* A request that is answered in a step that writes an audit row, answers tokens or
\* creates a vacancy; organizations and users stay.
LEMMA WritingStep ==
  ASSUME AccountsInv, NEW r \in Req, NEW code \in Codes, Answer(r, code),
         req[r].pc \notin {"idle", "done"}, UNCHANGED <<orgs, users>>,
         log \subseteq log',
         log' \subseteq [event : {"login_success", "login_failed"},
                         user : UserKey \cup {Nil}, by : Req],
         vacancies' \subseteq [id : Req, org : Org],
         tokens \subseteq tokens', tokens' \subseteq Token,
         \A t \in tokens' : t \in tokens \/ Proved(t.user),
         \A v \in vacancies' : v \in vacancies \/ (v.id = r /\ Posts(req[r], v)),
         code = "ok" => /\ req[r].user \notin req[r].barred
                        /\ req[r].token # Nil => req[r].token.user \notin req[r].barred,
         req[r].kind \in {"register", "login"} =>
           /\ code = "ok" =>
                [event |-> "login_success", user |-> req[r].user, by |-> r] \in log'
           /\ code = "401" => [event |-> "login_failed", user |-> Nil, by |-> r] \in log'
  PROVE  AccountsInv'
<1>1. PICK p \in Request : p = req[r]
  BY DEF AccountsInv, TypeOK
<1>2. PICK q : q = Answered(p, code)
  OBVIOUS
<1>3. /\ q \in Request
       /\ q.kind = p.kind /\ q.org = p.org /\ q.email = p.email /\ q.pw = p.pw
       /\ q.token = p.token /\ q.user = p.user /\ q.barred = p.barred /\ q.viewers = p.viewers
       /\ q.pc = "done" /\ q.inserted = FALSE /\ q.resp = code
  <2>1. Ended(q, p, code)
    BY <1>2, AnsweredFields
  <2> QED
    BY <2>1 DEF Ended
<1>4. Grows
  BY DEF Grows
<1>5. Become(r, q)
  BY <1>1, <1>2 DEF Answer
<1>6. Sound(p)
  BY <1>1 DEF AccountsInv
<1>7. Sound(q)
  <2>1. Filled(q)
    BY <1>1, <1>3, <1>6 DEF Sound, Filled
  <2>2. Granted(q)
    BY <1>3 DEF Granted
  <2>3. ShutOut(q)
    BY <1>1, <1>3, <1>6 DEF Sound, ShutOut
  <2> QED
    BY <2>1, <2>2, <2>3 DEF Sound
<1>8. Sound(q)'
  BY <1>3, <1>4, <1>7, SoundStays
<1>9. Kept(req[r], q) /\ Audited(q, r)'
  BY <1>1, <1>3 DEF Kept, Audited
<1>10. Tables' /\ OrganizationsFounded'
  <2>1. Tables /\ OrganizationsFounded
    BY DEF AccountsInv
  <2> QED
    BY <2>1 DEF Tables, OrganizationsFounded
<1>11. InsertedOnce'
  <2> SUFFICES ASSUME NEW s \in Req, req'[s].inserted
               PROVE  /\ req'[s].org \notin orgs'
                      /\ \A z \in Req \ {s} : req'[z].inserted => req'[z].org # req'[s].org
    BY DEF InsertedOnce
  <2>1. \A z \in Req : req'[z] = IF z = r THEN q ELSE req[z]
    BY <1>5 DEF AccountsInv, TypeOK, Become
  <2> QED
    BY <1>3, <2>1 DEF AccountsInv, InsertedOnce
<1>12. \A t \in tokens' : t \in tokens \/ Proved(t.user)'
  <2> SUFFICES ASSUME NEW t \in tokens', t \notin tokens PROVE Proved(t.user)'
    OBVIOUS
  <2>1. PICK k : k = t.user
    OBVIOUS
  <2>2. Proved(k)
    BY <2>1
  <2>3. Proved(k)'
    BY <1>3, <1>4, <1>5, <1>9, <2>2, ProvedStays DEF AccountsInv
  <2> QED
    BY <2>1, <2>3
<1>13. \A v \in vacancies' : v \in vacancies \/ (v.id = r /\ Posts(q, v))
  BY <1>1, <1>3 DEF Posts
<1> QED
  BY <1>3, <1>4, <1>5, <1>8, <1>9, <1>10, <1>11, <1>12, <1>13, StepInvariant
     DEF AccountsInv, TypeOK

\* What is issued for a user are tokens of that user.
LEMMA TokenPairType ==
  ASSUME NEW k \in UserKey, NEW role \in Roles \cup {Nil}
  PROVE  TokenPair(k, role) \subseteq Token /\ \A t \in TokenPair(k, role) : t.user = k
BY DEF TokenPair, Token

\* The login event is committed and the tokens are answered to who proved a password.
LEMMA LoginAuditStep ==
  ASSUME AccountsInv, NEW r \in Req, LoginAudit(r)
  PROVE  AccountsInv'
<1>1. PICK p \in Request : p = req[r] /\ Sound(p) /\ p.pc = "audit"
                          /\ p.kind \in {"register", "login"}
  BY DEF AccountsInv, TypeOK, LoginAudit, At
<1>2. p.user \in UserKey /\ Proves(p, p.user) /\ p.user \notin p.barred /\ p.token = Nil
  <2>1. Proves(p, p.user) /\ p.user \notin p.barred /\ p.token = Nil
    BY <1>1 DEF Sound, Filled, Granted, ShutOut
  <2>2. PICK u \in users : Key(u) = p.user
    BY <2>1 DEF Proves, Named
  <2>3. Key(u) \in UserKey
    BY DEF AccountsInv, TypeOK, User, UserKey, Key
  <2> QED
    BY <2>1, <2>2, <2>3
<1>3. Proved(p.user)
  BY <1>1, <1>2 DEF Proved
<1>4. Answer(r, "ok") /\ "ok" \in Codes /\ UNCHANGED <<orgs, users, vacancies>>
  BY DEF LoginAudit, AnswerTokens, Codes
<1>5. /\ log' = log \cup {[event |-> "login_success", user |-> p.user, by |-> r]}
      /\ tokens' = tokens \cup TokenPair(p.user, p.role)
  BY <1>1 DEF LoginAudit, AnswerTokens, Write
<1>6. log' \subseteq [event : {"login_success", "login_failed"},
                      user : UserKey \cup {Nil}, by : Req]
  BY <1>2, <1>5 DEF AccountsInv, TypeOK
<1>7. tokens' \subseteq Token /\ \A t \in tokens' : t \in tokens \/ t.user = p.user
  BY <1>2, <1>5, TokenPairType DEF AccountsInv, TypeOK, Request
<1>8. \A t \in tokens' : t \in tokens \/ Proved(t.user)
  BY <1>3, <1>7
<1>9. vacancies' \subseteq [id : Req, org : Org]
  BY <1>4 DEF AccountsInv, TypeOK
<1>10. /\ log \subseteq log' /\ tokens \subseteq tokens'
       /\ [event |-> "login_success", user |-> p.user, by |-> r] \in log'
  BY <1>5
<1> QED
  BY <1>1, <1>2, <1>4, <1>6, <1>7, <1>8, <1>9, <1>10, WritingStep

\* A refused login is committed as one.
LEMMA LoginFailedAuditStep ==
  ASSUME AccountsInv, NEW r \in Req, LoginFailedAudit(r)
  PROVE  AccountsInv'
<1>1. /\ Answer(r, "401") /\ "401" \in Codes /\ UNCHANGED <<orgs, users, vacancies, tokens>>
      /\ req[r].pc = "audit_failed"
  BY DEF LoginFailedAudit, Codes, At
<1>2. log' = log \cup {[event |-> "login_failed", user |-> Nil, by |-> r]}
  BY DEF LoginFailedAudit, Write
<1>3. log' \subseteq [event : {"login_success", "login_failed"},
                      user : UserKey \cup {Nil}, by : Req]
  BY <1>2 DEF AccountsInv, TypeOK
<1>4. /\ log \subseteq log' /\ [event |-> "login_failed", user |-> Nil, by |-> r] \in log'
  BY <1>2
<1>5. vacancies' \subseteq [id : Req, org : Org] /\ tokens' \subseteq Token
  BY <1>1 DEF AccountsInv, TypeOK
<1> QED
  BY <1>1, <1>3, <1>4, <1>5, WritingStep

\* A refresh answers tokens of the user of a token that was earned.
LEMMA RefreshStep ==
  ASSUME AccountsInv, NEW r \in Req, Refresh(r)
  PROVE  AccountsInv'
<1>1. PICK p \in Request : p = req[r] /\ Sound(p) /\ p.pc = "begin" /\ p.kind = "refresh"
  BY DEF AccountsInv, TypeOK, Refresh, At
<1>2. CASE Answer(r, "401") /\ UNCHANGED tokens
  BY <1>1, <1>2, AnswerStep DEF Refresh, rows, Codes
<1>3. ASSUME NEW u \in Bearer(r, "refresh"), AnswerTokens(r, Key(u), u.role)
      PROVE  AccountsInv'
  <2>1. u \in users /\ u.active /\ p.token.user = Key(u)
    BY <1>1 DEF Bearer
  <2>2. Key(u) \in UserKey /\ Key(u) \notin p.barred
    BY <1>1, <2>1, ActiveNotBarred
  <2>3. p.token \in tokens /\ p.user = Nil
    BY <1>1 DEF Sound, Filled
  <2>4. Proved(Key(u))
    BY <2>1, <2>3 DEF AccountsInv, TokensEarned
  <2>5. Nil \notin p.barred
    BY AccountAssumption DEF Request
  <2>6. /\ Answer(r, "ok") /\ "ok" \in Codes
        /\ tokens' = tokens \cup TokenPair(Key(u), u.role)
        /\ UNCHANGED <<orgs, users, vacancies, log>>
    BY <1>3 DEF AnswerTokens, Refresh, rows, Codes
  <2>7. tokens' \subseteq Token /\ \A t \in tokens' : t \in tokens \/ t.user = Key(u)
    <3>1. u.role \in Roles
      BY <2>1 DEF AccountsInv, TypeOK, User
    <3> QED
      BY <2>2, <2>6, <3>1, TokenPairType DEF AccountsInv, TypeOK
  <2>8. \A t \in tokens' : t \in tokens \/ Proved(t.user)
    BY <2>4, <2>7
  <2>9. /\ log' \subseteq [event : {"login_success", "login_failed"},
                          user : UserKey \cup {Nil}, by : Req]
        /\ vacancies' \subseteq [id : Req, org : Org]
        /\ log \subseteq log' /\ tokens \subseteq tokens'
    BY <2>6 DEF AccountsInv, TypeOK
  <2>10. p.token.user = Key(u)
    BY <2>1
  <2> QED
    BY <1>1, <2>2, <2>3, <2>5, <2>6, <2>7, <2>8, <2>9, <2>10, WritingStep
<1> QED
  BY <1>2, <1>3 DEF Refresh

\* Behind a new vacancy stands the writer that was let in.
LEMMA CreateVacancyStep ==
  ASSUME AccountsInv, NEW r \in Req, CreateVacancy(r)
  PROVE  AccountsInv'
<1>1. PICK p \in Request : p = req[r] /\ Sound(p) /\ p.pc = "act" /\ p.kind = "create_vacancy"
  BY DEF AccountsInv, TypeOK, CreateVacancy, At
<1>2. PICK u : u \in Named(p.user)
  BY <1>1 DEF Sound, Granted
<1>3. /\ u \in users /\ Key(u) = p.user /\ u.org \in Org
  BY <1>2 DEF Named, AccountsInv, TypeOK, User
<1>4. p.user.org = u.org
  BY <1>3 DEF Key
<1>5. /\ p.token.user = p.user /\ p.token \in tokens
      /\ p.user \notin p.barred /\ p.user \notin p.viewers
  BY <1>1 DEF Sound, Filled, Granted, ShutOut, EndpointKinds
<1>6. Proved(Key(u))
  BY <1>3, <1>5 DEF AccountsInv, TokensEarned
<1>7. /\ Answer(r, "ok") /\ "ok" \in Codes /\ UNCHANGED <<orgs, users, log, tokens>>
      /\ vacancies' = vacancies \cup {[id |-> r, org |-> u.org]}
  BY <1>1, <1>4 DEF CreateVacancy, Codes
<1>8. vacancies' \subseteq [id : Req, org : Org]
  BY <1>3, <1>7 DEF AccountsInv, TypeOK
<1>9. \A v \in vacancies' : v \in vacancies \/ (v.id = r /\ v.org = u.org)
  BY <1>7
<1>10. \A v \in vacancies' : v \in vacancies \/ (v.id = r /\ Posts(req[r], v))
  BY <1>1, <1>2, <1>3, <1>4, <1>5, <1>6, <1>9 DEF Posts
<1>11. /\ log' \subseteq [event : {"login_success", "login_failed"},
                         user : UserKey \cup {Nil}, by : Req]
       /\ tokens' \subseteq Token
  BY <1>7 DEF AccountsInv, TypeOK
<1> QED
  BY <1>1, <1>5, <1>7, <1>8, <1>10, <1>11, WritingStep

\* A user row that changes keeps its key and password; its user is not promoted and not
\* reinstated.
LEMMA UserChanged ==
  ASSUME AccountsInv, NEW u \in users, NEW w \in User,
         w.org = u.org, w.email = u.email, w.pw = u.pw, w.role \in {u.role, "viewer"},
         w.active => u.active,
         users' = (users \ {u}) \cup {w}, UNCHANGED <<orgs, vacancies, log, tokens, req>>
  PROVE  AccountsInv'
<1>1. Key(w) = Key(u)
  BY DEF Key
<1>2. Grows
  <2>1. \A v \in users : \E z \in users' :
          /\ Key(z) = Key(v) /\ z.email = v.email /\ z.org = v.org
          /\ z.role \in {v.role, "viewer"} /\ z.pw = v.pw /\ (z.active => v.active)
    <3> TAKE v \in users
    <3>1. CASE v = u
      BY <1>1, <3>1
    <3>2. CASE v # u
      BY <3>2
    <3> QED
      BY <3>1, <3>2
  <2> QED
    BY <2>1 DEF Grows
<1>3. users' \subseteq User
  BY DEF AccountsInv, TypeOK
<1>4. \A v \in users' : \E z \in users :
        /\ Key(z) = Key(v) /\ z.email = v.email /\ z.org = v.org
        /\ v.role \in {z.role, "viewer"}
        /\ z = u => v = w
        /\ z # u => v = z
  BY <1>1
<1>5. Tables'
  <2>1. \A x, y \in users' : Key(x) = Key(y) => x = y
    BY <1>4 DEF AccountsInv, Tables
  <2>2. \A x \in users' : Lower[x.email] = x.email /\ x.org \in orgs'
    BY <1>4 DEF AccountsInv, Tables
  <2>3. \A x, y \in users' :
          x.role = "org_admin" /\ y.role = "org_admin" /\ x.org = y.org => x = y
    <3> SUFFICES ASSUME NEW x \in users', NEW y \in users',
                        x.role = "org_admin", y.role = "org_admin", x.org = y.org
                 PROVE  x = y
      OBVIOUS
    <3>1. PICK a \in users : /\ Key(a) = Key(x) /\ a.org = x.org /\ a.role = "org_admin"
                             /\ a = u => x = w
                             /\ a # u => x = a
      BY <1>4
    <3>2. PICK b \in users : /\ Key(b) = Key(y) /\ b.org = y.org /\ b.role = "org_admin"
                             /\ b = u => y = w
                             /\ b # u => y = b
      BY <1>4
    <3>3. a = b
      BY <3>1, <3>2 DEF AccountsInv, Tables
    <3> QED
      BY <2>1, <3>1, <3>2, <3>3
  <2> QED
    BY <2>1, <2>2, <2>3 DEF Tables
<1>6. OrganizationsFounded'
  <2> SUFFICES ASSUME NEW o \in orgs PROVE \E v \in users' : v.org = o
    BY DEF OrganizationsFounded
  <2>1. PICK v \in users : v.org = o
    BY DEF AccountsInv, OrganizationsFounded
  <2> QED
    BY <1>2, <2>1 DEF Grows
<1>7. \A s \in Req : Sound(req[s])'
  <2> SUFFICES ASSUME NEW s \in Req PROVE Sound(req[s])'
    OBVIOUS
  <2>1. PICK p \in Request : p = req[s]
    BY DEF AccountsInv, TypeOK
  <2>2. Sound(p)'
    BY <1>2, <2>1, SoundStays DEF AccountsInv
  <2> QED
    BY <2>1, <2>2
<1>8. \A k : Proved(k) => Proved(k)'
  <2> SUFFICES ASSUME NEW k, Proved(k) PROVE Proved(k)'
    OBVIOUS
  <2>1. PICK s \in Req : Proves(req[s], k)
    BY DEF Proved
  <2>2. PICK p : p = req[s]
    OBVIOUS
  <2>3. Proves(p, k)'
    BY <1>2, <2>1, <2>2, ProvesStays
  <2>4. p = req'[s]
    BY <2>2
  <2> QED
    BY <2>3, <2>4 DEF Proved
<1>9. TokensEarned'
  <2> SUFFICES ASSUME NEW t \in tokens PROVE Proved(t.user)'
    BY DEF TokensEarned
  <2>1. PICK k : k = t.user
    OBVIOUS
  <2>2. Proved(k)'
    BY <1>8, <2>1 DEF AccountsInv, TokensEarned
  <2> QED
    BY <2>1, <2>2
<1>10. VacanciesByWriters'
  <2> SUFFICES ASSUME NEW v \in vacancies PROVE Posts(req[v.id], v)'
    BY DEF VacanciesByWriters, Posts
  <2>1. PICK q : q = req[v.id]
    OBVIOUS
  <2>2. Posts(q, v)
    BY <2>1 DEF AccountsInv, VacanciesByWriters, Posts
  <2>3. PICK k : k = q.user
    OBVIOUS
  <2>4. Proved(k)'
    BY <1>8, <2>2, <2>3 DEF Posts
  <2>5. PICK z : z \in Named(k)
    BY <2>2, <2>3 DEF Posts
  <2>6. Named(k)' # {}
    BY <1>2, <2>5, NamedStays
  <2>7. q = req'[v.id]
    BY <2>1
  <2> QED
    BY <2>2, <2>3, <2>4, <2>6, <2>7 DEF Posts
<1>11. TypeOK' /\ InsertedOnce' /\ LoginsAudited' /\ Posted'
  BY <1>3 DEF AccountsInv, TypeOK, InsertedOnce, LoginsAudited, Posted
<1> QED
  BY <1>5, <1>6, <1>7, <1>9, <1>10, <1>11 DEF AccountsInv

\* An operator deactivates or demotes one user.
LEMMA OperatorSteps ==
  ASSUME AccountsInv, Deactivate \/ Demote
  PROVE  AccountsInv'
<1>1. CASE Deactivate
  <2>1. PICK u \in users : users' = (users \ {u}) \cup {[u EXCEPT !.active = FALSE]}
    BY <1>1 DEF Deactivate
  <2>2. PICK w : w = [u EXCEPT !.active = FALSE]
    OBVIOUS
  <2>3. /\ w \in User /\ w.org = u.org /\ w.email = u.email /\ w.pw = u.pw
        /\ w.role = u.role /\ ~w.active
    BY <2>2 DEF User, AccountsInv, TypeOK
  <2> QED
    BY <1>1, <2>1, <2>2, <2>3, UserChanged DEF Deactivate
<1>2. CASE Demote
  <2>1. PICK u \in users : users' = (users \ {u}) \cup {[u EXCEPT !.role = "viewer"]}
    BY <1>2 DEF Demote
  <2>2. PICK w : w = [u EXCEPT !.role = "viewer"]
    OBVIOUS
  <2>3. /\ w \in User /\ w.org = u.org /\ w.email = u.email /\ w.pw = u.pw
        /\ w.role = "viewer" /\ w.active = u.active
    BY <2>2 DEF User, Roles, AccountsInv, TypeOK
  <2> QED
    BY <1>2, <2>1, <2>2, <2>3, UserChanged DEF Demote
<1> QED
  BY <1>1, <1>2

-----------------------------------------------------------------------------
(* AccountsInv is an invariant, and what follows from it.                   *)

\* The tables an operator prepared are in order, and nothing has happened yet.
LEMMA InitInvariant == Init => AccountsInv
<1> SUFFICES ASSUME Init PROVE AccountsInv
  OBVIOUS
<1>1. Staff \subseteq User /\ \A u \in Staff : Lower[u.email] = u.email /\ u.org \in Org
  BY AccountAssumption DEF User
<1>2. Idle \in Request
  BY DEF Idle, Request
<1>3. \A r \in Req : req[r] = Idle
  BY DEF Init
<1>4. TypeOK
  <2>1. orgs \subseteq Org /\ users \subseteq User
    BY <1>1 DEF Init
  <2>2. req \in [Req -> Request]
    BY <1>2 DEF Init
  <2>3. \A r \in Req : ~req[r].inserted
    BY <1>3 DEF Idle
  <2> QED
    BY <2>1, <2>2, <2>3 DEF Init, TypeOK
<1>5. Tables
  BY <1>1, AccountAssumption DEF Init, Tables
<1>6. \A r \in Req : Sound(req[r])
  BY <1>3 DEF Sound, Filled, Granted, ShutOut, Idle, EndpointKinds
<1>7. InsertedOnce /\ LoginsAudited
  BY <1>3 DEF InsertedOnce, LoginsAudited, Idle
<1>8. TokensEarned /\ VacanciesByWriters /\ OrganizationsFounded /\ Posted
  BY DEF Init, TokensEarned, VacanciesByWriters, OrganizationsFounded, Posted
<1> QED
  BY <1>4, <1>5, <1>6, <1>7, <1>8 DEF AccountsInv

\* A step that changes nothing.
LEMMA StutterInvariant ==
  ASSUME AccountsInv, UNCHANGED vars
  PROVE  AccountsInv'
<1>1. UNCHANGED <<orgs, users, vacancies, log, tokens, req>>
  BY DEF vars
<1>2. \A s \in Req : Sound(req[s])'
  BY <1>1 DEF AccountsInv, Sound, Filled, Granted, ShutOut, Proves, Named
<1>3. TokensEarned'
  BY <1>1 DEF AccountsInv, TokensEarned, Proved, Proves, Named
<1>4. VacanciesByWriters'
  BY <1>1 DEF AccountsInv, VacanciesByWriters, Proved, Proves, Named
<1>5. /\ TypeOK' /\ Tables' /\ InsertedOnce' /\ LoginsAudited' /\ OrganizationsFounded'
      /\ Posted'
  BY <1>1 DEF AccountsInv, TypeOK, Tables, InsertedOnce, LoginsAudited, OrganizationsFounded,
              Posted
<1> QED
  BY <1>2, <1>3, <1>4, <1>5 DEF AccountsInv

\* The inductive invariant of accounts and access: what the tables hold, and what each
\* request has shown or read.
THEOREM AccountsInvariant == Spec => []AccountsInv
<1>1. AccountsInv /\ [Next]_vars => AccountsInv'
  <2> SUFFICES ASSUME AccountsInv, [Next]_vars PROVE AccountsInv'
    OBVIOUS
  <2>1. CASE Deactivate \/ Demote
    BY <2>1, OperatorSteps
  <2>2. ASSUME NEW r \in Req, Arrive(r) \/ Advance(r) \/ Fail(r)
        PROVE  AccountsInv'
    BY <2>2, ArriveStep, LookupSteps, InsertOrgStep, CreateUserStep, AuthenticateStep,
       LoginAuditStep, LoginFailedAuditStep, RefreshStep, AuthorizeStep, ReadSteps,
       CreateVacancyStep DEF Advance
  <2>3. CASE UNCHANGED vars
    BY <2>3, StutterInvariant
  <2> QED
    BY <2>1, <2>2, <2>3 DEF Next
<1> QED
  BY <1>1, InitInvariant, PTL DEF Spec

\* Type correctness of accounts, tokens and requests.
THEOREM AccountsTypeCorrect == Spec => []TypeOK
<1>1. AccountsInv => TypeOK
  BY DEF AccountsInv
<1> QED
  BY <1>1, AccountsInvariant, PTL

\* Behind every token stands a password, however often it was refreshed.
THEOREM TokensAreEarned == Spec => []TokensEarned
<1>1. AccountsInv => TokensEarned
  BY DEF AccountsInv
<1> QED
  BY <1>1, AccountsInvariant, PTL

\* Whoever created a vacancy gave the password of a user of its organization, who was no
\* viewer when the call arrived.
THEOREM VacanciesWritten == Spec => []VacanciesByWriters
<1>1. AccountsInv => VacanciesByWriters
  BY DEF AccountsInv
<1> QED
  BY <1>1, AccountsInvariant, PTL

\* No name is taken by an organization that nobody belongs to.
THEOREM OrganizationsHaveUsers == Spec => []OrganizationsFounded
<1>1. AccountsInv => OrganizationsFounded
  BY DEF AccountsInv
<1> QED
  BY <1>1, AccountsInvariant, PTL

\* Logins and refusals are in the audit log when they are answered.
THEOREM LoginsAreAudited == Spec => []LoginsAudited
<1>1. AccountsInv => LoginsAudited
  BY DEF AccountsInv
<1> QED
  BY <1>1, AccountsInvariant, PTL

\* A deactivated user gets no access with a request made afterwards.
THEOREM InactiveAreShutOut == Spec => []InactiveShutOut
<1>1. AccountsInv => InactiveShutOut
  BY DEF AccountsInv, Sound, ShutOut, InactiveShutOut
<1> QED
  BY <1>1, AccountsInvariant, PTL

\* A set without two different members has at most one.
LEMMA AtMostOne ==
  ASSUME NEW S, \A x, y \in S : x = y
  PROVE  Cardinality(S) <= 1
<1>1. CASE S = {}
  BY <1>1, FS_EmptySet
<1>2. CASE S # {}
  <2>1. PICK x : x \in S
    BY <1>2
  <2>2. S = {x}
    BY <2>1
  <2> QED
    BY <2>2, FS_Singleton
<1> QED
  BY <1>1, <1>2

\* However many registrations race, an organization has one founder.
THEOREM FoundersUnique == Spec => []OneFounder
<1>1. AccountsInv => OneFounder
  <2> SUFFICES ASSUME AccountsInv, NEW o \in orgs
               PROVE  Cardinality({u \in users : u.org = o /\ u.role = "org_admin"}) <= 1
    BY DEF OneFounder
  <2>1. \A x, y \in {u \in users : u.org = o /\ u.role = "org_admin"} : x = y
    BY DEF AccountsInv, Tables
  <2> QED
    BY <2>1, AtMostOne
<1> QED
  BY <1>1, AccountsInvariant, PTL

\* The seed script creates its user once.
THEOREM SeedIsIdempotent == Spec => []SeededOnce
<1>1. AccountsInv => SeededOnce
  <2> SUFFICES ASSUME AccountsInv PROVE SeededOnce
    OBVIOUS
  <2>1. \A x, y \in {u \in users : u.org = Seed.org /\ u.email = Lower[Seed.email]} : x = y
    BY DEF AccountsInv, Tables, Key
  <2> QED
    BY <2>1, AtMostOne DEF SeededOnce
<1> QED
  BY <1>1, AccountsInvariant, PTL

-----------------------------------------------------------------------------
(* Accounts and access implement AccountRegistry.                           *)

\* What the mapping makes of the tables.
Profiles == {Profile(u) : u \in users}
Admitted == {t.user : t \in tokens}
Grants == {[id |-> r, org |-> req[r].user.org] : r \in Writing}

\* A user's profile has the name that is the user's key.
LEMMA ProfileFields ==
  ASSUME NEW u
  PROVE  /\ Profile(u).org = u.org /\ Profile(u).email = u.email
         /\ Profile(u).role = u.role /\ Profile(u).active = u.active
         /\ Promise!Name(Profile(u)) = Key(u)
BY DEF Profile, Promise!Name, Key

\* What a request q has been granted.
Granting(q, r) ==
  {g \in {[id |-> r, org |-> q.user.org]} : q.kind = "create_vacancy" /\ q.pc = "act"}

\* What is granted is what each request has been granted.
LEMMA GrantsMove ==
  ASSUME TypeOK, NEW r \in Req, NEW q, Become(r, q)
  PROVE  /\ Grants' = (Grants \ Granting(req[r], r)) \cup Granting(q, r)
         /\ Granting(req[r], r) \subseteq Grants
<1> DEFINE Others == {[id |-> s, org |-> req[s].user.org] : s \in Writing \ {r}}
<1>1. \A s \in Req : req'[s] = IF s = r THEN q ELSE req[s]
  BY DEF TypeOK, Become
<1>2. Grants = Others \cup Granting(req[r], r)
  BY DEF Grants, Writing, At, Granting
<1>3. Grants' = Others \cup Granting(q, r)
  <2>1. \A x : x \in Grants' <=>
          \E s \in Req : /\ req'[s].kind = "create_vacancy" /\ req'[s].pc = "act"
                        /\ x = [id |-> s, org |-> req'[s].user.org]
    BY DEF Grants, Writing, At
  <2>2. \A x : x \in Others <=>
          \E s \in Req \ {r} : /\ req[s].kind = "create_vacancy" /\ req[s].pc = "act"
                              /\ x = [id |-> s, org |-> req[s].user.org]
    BY DEF Writing, At
  <2>3. \A x : x \in Granting(q, r) <=> /\ q.kind = "create_vacancy" /\ q.pc = "act"
                                        /\ x = [id |-> r, org |-> q.user.org]
    BY DEF Granting
  <2>4. \A x : x \in Grants' <=> x \in Others \/ x \in Granting(q, r)
    BY <1>1, <2>1, <2>2, <2>3
  <2> QED
    BY <2>4
<1>4. \A g \in Others : g.id # r
  OBVIOUS
<1>5. \A g \in Granting(req[r], r) : g.id = r
  BY DEF Granting
<1> QED
  BY <1>2, <1>3, <1>4, <1>5

\* Nothing is granted by an answer or a step that is not into "act".
LEMMA GrantsStay ==
  ASSUME AccountsInv, NEW r \in Req, ~At(r, {"create_vacancy"}, "act"),
         NEW q, Become(r, q), q.pc # "act" \/ q.kind # "create_vacancy"
  PROVE  Grants' = Grants
<1>1. Granting(req[r], r) = {} /\ Granting(q, r) = {}
  BY DEF Granting, At
<1> QED
  BY <1>1, GrantsMove DEF AccountsInv

\* The registry sees nothing of a step that leaves its tables, the tokens and the grants
\* alone.
LEMMA QuietStutters ==
  ASSUME UNCHANGED <<orgs, users, vacancies, tokens>>, Grants' = Grants
  PROVE  UNCHANGED <<orgs, Profiles, Admitted, Grants, vacancies>>
BY DEF Profiles, Admitted

\* A user who is added is a member who is added.
LEMMA ProfileAdded ==
  ASSUME NEW u, users' = users \cup {u}
  PROVE  Profiles' = Profiles \cup {Profile(u)}
BY DEF Profiles

\* An answered request is over.
LEMMA AnswerEnds ==
  ASSUME AccountsInv, NEW r \in Req, NEW code
  PROVE  Answered(req[r], code).pc = "done"
<1>1. req[r] \in Request
  BY DEF AccountsInv, TypeOK
<1> QED
  BY <1>1 DEF Answered, Request

\* Tokens for a user of the tables admit a member.
LEMMA TokensAdmit ==
  ASSUME AccountsInv, NEW k, NEW role, NEW u \in Named(k), NEW r \in Req,
         AnswerTokens(r, k, role), ~At(r, {"create_vacancy"}, "act"),
         UNCHANGED <<orgs, users, vacancies>>
  PROVE  \E m \in Profiles : Promise!Admit(m)
<1>1. Profile(u) \in Profiles /\ Promise!Name(Profile(u)) = k
  BY ProfileFields DEF Profiles, Named
<1>2. Admitted' = Admitted \cup {k}
  <2>1. PICK a, b : /\ a = [type |-> "access", user |-> k, role |-> role]
                    /\ b = [type |-> "refresh", user |-> k, role |-> Nil]
    OBVIOUS
  <2>3. tokens' = tokens \cup {a, b} /\ a.user = k /\ b.user = k
    BY <2>1 DEF AnswerTokens, TokenPair
  <2> QED
    BY <2>3 DEF Admitted
<1>3. Profiles' = Profiles
  BY DEF Profiles
<1>4. Grants' = Grants
  BY AnswerEnds, GrantsStay DEF AnswerTokens, Answer
<1>5. Promise!Admit(Profile(u))
  BY <1>1, <1>2, <1>3, <1>4 DEF Promise!Admit, Profiles, Admitted, Grants
<1> QED
  BY <1>1, <1>5

\* A registration founds its organization; the seed script enrols its user.
LEMMA CreateUserRegisters ==
  ASSUME AccountsInv, NEW r \in Req, CreateUser(r)
  PROVE  \/ \E o \in Org, e \in Email : Promise!Found(o, e) \/ Promise!Enrol(o, e)
         \/ UNCHANGED <<orgs, Profiles, Admitted, Grants, vacancies>>
<1>1. PICK q \in Request : q = req[r]
  BY DEF AccountsInv, TypeOK
<1>2. /\ q.kind \in {"register", "seed"} /\ q.pc = "commit"
      /\ q.org \in Org /\ q.email \in Email
  BY <1>1 DEF CreateUser, At, AccountsInv, Sound, Filled
<1> DEFINE u == NewUser(q)
<1>3. /\ u.org = q.org /\ u.email = Lower[q.email] /\ Lower[q.email] \in Email
      /\ u.role = IF q.kind = "register" THEN "org_admin" ELSE "recruiter"
      /\ u.active
  BY <1>2, AccountAssumption DEF NewUser
<1>4. Key(u) = [org |-> q.org, email |-> Lower[q.email]]
  BY <1>3 DEF Key
<1>5. Profile(u) = Promise!Member(q.org, Lower[q.email], u.role)
  BY <1>3 DEF Profile, Promise!Member, NewUser
<1> HIDE DEF u
<1>6. UNCHANGED <<vacancies, log, tokens>>
  BY DEF CreateUser
<1>9. Grants' = Grants
  <2>1. ~At(r, {"create_vacancy"}, "act")
    BY DEF CreateUser, At
  <2>2. CASE \E code : Answer(r, code)
    BY <2>1, <2>2, AnswerEnds, GrantsStay DEF Answer
  <2>3. CASE Become(r, [WithUser(q, "audit", NewUser(q)) EXCEPT !.inserted = FALSE])
    <3>1. [WithUser(q, "audit", NewUser(q)) EXCEPT !.inserted = FALSE].pc = "audit"
      BY DEF WithUser, Request
    <3> QED
      BY <2>1, <2>3, <3>1, GrantsStay
  <2> QED
    BY <1>1, <2>2, <2>3 DEF CreateUser
<1>7. CASE UNCHANGED <<orgs, users>>
  BY <1>6, <1>7, <1>9, QuietStutters
<1>8. CASE /\ Named(Key(u)) = {}
           /\ users' = users \cup {u}
           /\ orgs' = orgs \cup {u.org}
  <2>1. Profiles' = Profiles \cup {Profile(u)} /\ Admitted' = Admitted
    BY <1>6, <1>8, ProfileAdded DEF Admitted
  <2>2. CASE q.kind = "register"
    <3>1. q.org \notin orgs
      BY <1>1, <1>2, <2>2 DEF AccountsInv, Sound, Granted, InsertedOnce
    <3>2. Promise!Found(q.org, Lower[q.email])
      BY <1>3, <1>5, <1>6, <1>8, <1>9, <2>1, <2>2, <3>1
         DEF Promise!Found, Profiles, Admitted, Grants
    <3> QED
      BY <1>2, <1>3, <3>2
  <2>3. CASE q.kind = "seed"
    <3>1. \A m \in Profiles : Promise!Name(m) # [org |-> q.org, email |-> Lower[q.email]]
      BY <1>4, <1>8, ProfileFields DEF Profiles, Named
    <3>2. Promise!Enrol(q.org, Lower[q.email])
      BY <1>3, <1>5, <1>6, <1>8, <1>9, <2>1, <2>3, <3>1
         DEF Promise!Enrol, Profiles, Admitted, Grants
    <3> QED
      BY <1>2, <1>3, <3>2
  <2> QED
    BY <1>2, <2>2, <2>3
<1> QED
  BY <1>1, <1>7, <1>8 DEF CreateUser, u

\* The tokens of a login or a registration admit the user whose password was shown.
LEMMA LoginAdmits ==
  ASSUME AccountsInv, NEW r \in Req, LoginAudit(r)
  PROVE  \E m \in Profiles : Promise!Admit(m)
<1>1. PICK k : k = req[r].user
  OBVIOUS
<1>2. PICK u : u \in Named(k)
  BY <1>1 DEF LoginAudit, At, AccountsInv, Sound, Granted, Proves
<1>3. AnswerTokens(r, k, req[r].role) /\ UNCHANGED <<orgs, users, vacancies>>
  BY <1>1 DEF LoginAudit
<1>4. ~At(r, {"create_vacancy"}, "act")
  BY DEF LoginAudit, At
<1> QED
  BY <1>2, <1>3, <1>4, TokensAdmit

\* A refresh admits its user again, or nobody.
LEMMA RefreshAdmits ==
  ASSUME AccountsInv, NEW r \in Req, Refresh(r)
  PROVE  \/ \E m \in Profiles : Promise!Admit(m)
         \/ UNCHANGED <<orgs, Profiles, Admitted, Grants, vacancies>>
<1>0. ~At(r, {"create_vacancy"}, "act")
  BY DEF Refresh, At
<1>1. UNCHANGED <<orgs, users, vacancies>>
  BY DEF Refresh, rows
<1>2. CASE Answer(r, "401") /\ UNCHANGED tokens
  BY <1>0, <1>1, <1>2, AnswerEnds, GrantsStay, QuietStutters DEF Answer
<1>3. ASSUME NEW u \in users, AnswerTokens(r, Key(u), u.role)
      PROVE  \E m \in Profiles : Promise!Admit(m)
  <2>1. PICK k : k = Key(u)
    OBVIOUS
  <2>2. u \in Named(k) /\ AnswerTokens(r, k, u.role)
    BY <1>3, <2>1 DEF Named
  <2> QED
    BY <1>0, <1>1, <2>2, TokensAdmit
<1> QED
  BY <1>2, <1>3 DEF Refresh, Bearer

\* Whoever is let through to create a vacancy is a member who was admitted and may write.
LEMMA AuthorizeGrants ==
  ASSUME AccountsInv, NEW r \in Req, Authorize(r)
  PROVE  \/ \E m \in Profiles, p \in Req : Promise!Grant(m, p)
         \/ UNCHANGED <<orgs, Profiles, Admitted, Grants, vacancies>>
<1>1. PICK p \in Request : p = req[r] /\ Sound(p) /\ p.pc = "begin" /\ p.kind \in EndpointKinds
  BY DEF AccountsInv, TypeOK, Authorize, At
<1>2. ~At(r, {"create_vacancy"}, "act") /\ UNCHANGED <<orgs, users, vacancies, tokens>>
  BY <1>1 DEF At, Authorize, rows
<1>3. CASE \E code : Answer(r, code)
  BY <1>2, <1>3, AnswerEnds, GrantsStay, QuietStutters DEF Answer
<1>4. ASSUME NEW u \in Bearer(r, "access"), u.role \in Allowed(p.kind),
             Become(r, WithUser(p, "act", u))
      PROVE  \/ \E m \in Profiles, s \in Req : Promise!Grant(m, s)
             \/ UNCHANGED <<orgs, Profiles, Admitted, Grants, vacancies>>
  <2>1. u \in users /\ u.active /\ p.token.user = Key(u)
    BY <1>1 DEF Bearer
  <2>2. Key(u) \in UserKey /\ u \in User /\ Key(u).org = u.org
    BY <2>1 DEF AccountsInv, TypeOK, User, UserKey, Key
  <2>3. PICK q : q = WithUser(p, "act", u)
    OBVIOUS
  <2>4. q.kind = p.kind /\ q.pc = "act" /\ q.user = Key(u)
    BY <2>2, <2>3, WithUserFields DEF Holding
  <2>5. CASE p.kind # "create_vacancy"
    BY <1>2, <1>4, <2>3, <2>4, <2>5, GrantsStay, QuietStutters
  <2>6. CASE p.kind = "create_vacancy"
    <3>1. Grants' = Grants \cup {[id |-> r, org |-> u.org]}
      <4>1. Granting(req[r], r) = {}
        BY <1>1 DEF Granting
      <4>2. Granting(q, r) = {[id |-> r, org |-> u.org]}
        BY <2>2, <2>4, <2>6 DEF Granting
      <4> QED
        BY <1>4, <2>3, <4>1, <4>2, GrantsMove DEF AccountsInv
    <3>2. /\ Profile(u) \in Profiles /\ Promise!Name(Profile(u)) = Key(u)
          /\ Profile(u).org = u.org /\ Profile(u).role # "viewer" /\ Profile(u).active
      BY <1>4, <2>1, <2>6, ProfileFields DEF Profiles, Allowed
    <3>3. Key(u) \in Admitted
      <4>1. p.token \in tokens
        BY <1>1 DEF Sound, Filled
      <4> QED
        BY <2>1, <4>1 DEF Admitted
    <3>4. Profiles' = Profiles /\ Admitted' = Admitted
      BY <1>2 DEF Profiles, Admitted
    <3>5. Promise!Grant(Profile(u), r)
      BY <1>2, <3>1, <3>2, <3>3, <3>4 DEF Promise!Grant, Profiles, Admitted, Grants
    <3> QED
      BY <3>2, <3>5
  <2> QED
    BY <2>5, <2>6
<1> QED
  BY <1>1, <1>3, <1>4 DEF Authorize

\* What was granted is what is posted.
LEMMA VacancyPosted ==
  ASSUME AccountsInv, NEW r \in Req, CreateVacancy(r)
  PROVE  \E g \in Grants : Promise!Post(g)
<1>1. PICK p \in Request : p = req[r] /\ p.pc = "act" /\ p.kind = "create_vacancy"
  BY DEF AccountsInv, TypeOK, CreateVacancy, At
<1>2. PICK g : g = [id |-> r, org |-> p.user.org]
  OBVIOUS
<1>3. Granting(req[r], r) = {g}
  BY <1>1, <1>2 DEF Granting
<1>4. Granting(Answered(req[r], "ok"), r) = {}
  BY AnswerEnds DEF Granting
<1>5. g \in Grants /\ Grants' = Grants \ {g}
  BY <1>3, <1>4, GrantsMove DEF CreateVacancy, Answer, AccountsInv
<1>6. vacancies' = vacancies \cup {g} /\ UNCHANGED <<orgs, users, tokens>>
  BY <1>1, <1>2 DEF CreateVacancy
<1>7. Profiles' = Profiles /\ Admitted' = Admitted
  BY <1>6 DEF Profiles, Admitted
<1>8. Promise!Post(g)
  BY <1>5, <1>6, <1>7 DEF Promise!Post, Profiles, Admitted, Grants
<1> QED
  BY <1>5, <1>8

\* A handler that dies loses what it had been granted.
LEMMA FailLapses ==
  ASSUME AccountsInv, NEW r \in Req, Fail(r)
  PROVE  \/ \E g \in Grants : Promise!Lapse(g)
         \/ UNCHANGED <<orgs, Profiles, Admitted, Grants, vacancies>>
<1>1. UNCHANGED <<orgs, users, vacancies, tokens>> /\ Answer(r, "failed")
  BY DEF Fail, rows
<1>2. CASE ~At(r, {"create_vacancy"}, "act")
  BY <1>1, <1>2, AnswerEnds, GrantsStay, QuietStutters DEF Answer
<1>3. CASE At(r, {"create_vacancy"}, "act")
  <2>1. PICK g : g = [id |-> r, org |-> req[r].user.org]
    OBVIOUS
  <2>2. Granting(req[r], r) = {g}
    BY <1>3, <2>1 DEF Granting, At
  <2>3. Granting(Answered(req[r], "failed"), r) = {}
    BY AnswerEnds DEF Granting
  <2>4. g \in Grants /\ Grants' = Grants \ {g}
    BY <1>1, <2>2, <2>3, GrantsMove DEF Answer, AccountsInv
  <2>5. Profiles' = Profiles /\ Admitted' = Admitted
    BY <1>1 DEF Profiles, Admitted
  <2>6. Promise!Lapse(g)
    BY <1>1, <2>4, <2>5 DEF Promise!Lapse, Profiles, Admitted, Grants
  <2> QED
    BY <2>4, <2>6
<1> QED
  BY <1>2, <1>3

\* A user row that is exchanged for another is a member exchanged for another.
LEMMA ProfileChanged ==
  ASSUME AccountsInv, NEW u \in users, NEW w, users' = (users \ {u}) \cup {w}
  PROVE  Profiles' = (Profiles \ {Profile(u)}) \cup {Profile(w)}
<1>1. \A v \in users : Profile(v) = Profile(u) => v = u
  BY ProfileFields DEF AccountsInv, Tables
<1>2. \A x : x \in Profiles' <=> \E v \in users' : x = Profile(v)
  BY DEF Profiles
<1>3. \A x : x \in Profiles <=> \E v \in users : x = Profile(v)
  BY DEF Profiles
<1>4. \A x : x \in Profiles' <=> (x \in Profiles /\ x # Profile(u)) \/ x = Profile(w)
  BY <1>1, <1>2, <1>3
<1> QED
  BY <1>4

\* An operator suspends or demotes one member.
LEMMA OperatorOperations ==
  ASSUME AccountsInv, Deactivate \/ Demote
  PROVE  \E m \in Profiles : Promise!Suspend(m) \/ Promise!Demote(m)
<1> DEFINE M == [org : Org, email : Email, role : Roles, active : BOOLEAN]
<1>1. /\ UNCHANGED <<orgs, vacancies, tokens>> /\ Admitted' = Admitted /\ Grants' = Grants
  BY DEF Deactivate, Demote, Admitted, Grants, Writing, At
<1>2. CASE Deactivate
  <2>1. PICK u \in users :
          u.active /\ users' = (users \ {u}) \cup {[u EXCEPT !.active = FALSE]}
    BY <1>2 DEF Deactivate
  <2>2. PICK w : w = [u EXCEPT !.active = FALSE]
    OBVIOUS
  <2>3. u \in User
    BY DEF AccountsInv, TypeOK
  <2>4. w.org = u.org /\ w.email = u.email /\ w.role = u.role /\ w.active = FALSE
    BY <2>2, <2>3 DEF User
  <2>5. PICK m : m = Profile(u)
    OBVIOUS
  <2>6. /\ m \in M /\ m.org = u.org /\ m.email = u.email /\ m.role = u.role /\ m \in Profiles
        /\ m.active
    BY <2>1, <2>3, <2>5 DEF Profile, User, Profiles
  <2>7. Profile(w) = [m EXCEPT !.active = FALSE]
    <3>1. PICK n : n = [m EXCEPT !.active = FALSE]
      OBVIOUS
    <3>2. n \in M /\ n.org = m.org /\ n.email = m.email /\ n.role = m.role /\ n.active = FALSE
      BY <2>6, <3>1 DEF Roles
    <3>3. n = [org |-> w.org, email |-> w.email, role |-> w.role, active |-> w.active]
      BY <2>4, <2>6, <3>2
    <3> QED
      BY <3>1, <3>3 DEF Profile
  <2>8. Profiles' = (Profiles \ {m}) \cup {[m EXCEPT !.active = FALSE]}
    BY <2>1, <2>2, <2>5, <2>7, ProfileChanged
  <2>9. Promise!Suspend(m)
    BY <1>1, <2>6, <2>8 DEF Promise!Suspend, Profiles, Admitted, Grants
  <2> QED
    BY <2>6, <2>9
<1>3. CASE Demote
  <2>1. PICK u \in users :
          u.role # "viewer" /\ users' = (users \ {u}) \cup {[u EXCEPT !.role = "viewer"]}
    BY <1>3 DEF Demote
  <2>2. PICK w : w = [u EXCEPT !.role = "viewer"]
    OBVIOUS
  <2>3. u \in User
    BY DEF AccountsInv, TypeOK
  <2>4. w.org = u.org /\ w.email = u.email /\ w.role = "viewer" /\ w.active = u.active
    BY <2>2, <2>3 DEF User
  <2>5. PICK m : m = Profile(u)
    OBVIOUS
  <2>6. /\ m \in M /\ m.org = u.org /\ m.email = u.email /\ m.active = u.active
        /\ m \in Profiles /\ m.role # "viewer"
    BY <2>1, <2>3, <2>5 DEF Profile, User, Profiles
  <2>7. Profile(w) = [m EXCEPT !.role = "viewer"]
    <3>1. PICK n : n = [m EXCEPT !.role = "viewer"]
      OBVIOUS
    <3>2. n \in M /\ n.org = m.org /\ n.email = m.email /\ n.active = m.active /\ n.role = "viewer"
      BY <2>6, <3>1 DEF Roles
    <3>3. n = [org |-> w.org, email |-> w.email, role |-> w.role, active |-> w.active]
      BY <2>4, <2>6, <3>2
    <3> QED
      BY <3>1, <3>3 DEF Profile
  <2>8. Profiles' = (Profiles \ {m}) \cup {[m EXCEPT !.role = "viewer"]}
    BY <2>1, <2>2, <2>5, <2>7, ProfileChanged
  <2>9. Promise!Demote(m)
    BY <1>1, <2>6, <2>8 DEF Promise!Demote, Profiles, Admitted, Grants
  <2> QED
    BY <2>6, <2>9
<1> QED
  BY <1>2, <1>3

\* A call that arrives is granted nothing yet.
LEMMA ArriveGrants ==
  ASSUME AccountsInv, NEW r \in Req, Arrive(r)
  PROVE  Grants' = Grants
<1>1. ~At(r, {"create_vacancy"}, "act")
  BY DEF Arrive, At
<1>2. ASSUME NEW k, NEW p \in Request, Call(r, k, p)
      PROVE  Grants' = Grants
  <2>1. PICK B, V : Become(r, [p EXCEPT !.kind = k, !.pc = "begin", !.barred = B,
                                        !.viewers = V])
    BY <1>2 DEF Call
  <2>2. PICK q : q = [p EXCEPT !.kind = k, !.pc = "begin", !.barred = B, !.viewers = V]
    OBVIOUS
  <2>3. q.pc = "begin"
    BY <2>2 DEF Request
  <2> QED
    BY <1>1, <2>1, <2>2, <2>3, GrantsStay
<1>3. /\ Idle \in Request /\ Seed \in [org : Org, email : Email, pw : Password]
      /\ tokens \subseteq Token /\ vacancies \subseteq [id : Req, org : Org]
  BY AccountAssumption DEF Idle, Request, AccountsInv, TypeOK
<1>4. ASSUME NEW o \in Org, NEW e \in Email, NEW w \in Password
      PROVE  /\ [Idle EXCEPT !.org = o, !.email = e, !.pw = w] \in Request
             /\ [Idle EXCEPT !.email = e, !.pw = w] \in Request
  BY <1>3 DEF Request
<1>5. ASSUME NEW t \in Token, NEW v \in Req
      PROVE  /\ [Idle EXCEPT !.token = t] \in Request
             /\ [Idle EXCEPT !.token = t, !.vacancy = v] \in Request
  <2>1. PICK i \in Request : i = Idle
    BY <1>3
  <2>2. PICK x : x = [i EXCEPT !.token = t]
    OBVIOUS
  <2>3. x \in Request
    BY <2>2 DEF Request
  <2>4. [x EXCEPT !.vacancy = v] \in Request
    BY <2>3 DEF Request
  <2> QED
    BY <2>1, <2>2, <2>3, <2>4
<1>6. \E k : \E p \in Request : Call(r, k, p)
  <2>1. \A o \in Org, e \in Email, w \in Password :
          /\ [Idle EXCEPT !.org = o, !.email = e, !.pw = w] \in Request
          /\ [Idle EXCEPT !.email = e, !.pw = w] \in Request
    BY <1>4
  <2>2. \A t \in tokens : /\ [Idle EXCEPT !.token = t] \in Request
                          /\ \A v \in vacancies :
                               [Idle EXCEPT !.token = t, !.vacancy = v.id] \in Request
    BY <1>3, <1>5
  <2>3. [Idle EXCEPT !.org = Seed.org, !.email = Seed.email, !.pw = Seed.pw] \in Request
    BY <1>3, <2>1
  <2>4. CASE \E o \in Org, e \in Email, w \in Password :
               Call(r, "register", [Idle EXCEPT !.org = o, !.email = e, !.pw = w])
    BY <2>1, <2>4
  <2>5. CASE \E e \in Email, w \in Password :
               Call(r, "login", [Idle EXCEPT !.email = e, !.pw = w])
    BY <1>3, <2>1, <2>5
  <2>6. CASE \E k \in {"refresh", "list_users", "create_vacancy"}, t \in tokens :
               Call(r, k, [Idle EXCEPT !.token = t])
    BY <2>2, <2>6
  <2>7. CASE \E t \in tokens, v \in vacancies :
               Call(r, "get_vacancy", [Idle EXCEPT !.token = t, !.vacancy = v.id])
    BY <2>2, <2>7
  <2> QED
    BY <2>3, <2>4, <2>5, <2>6, <2>7 DEF Arrive
<1> QED
  BY <1>2, <1>6

\* The other steps of a handler answer it or take it on, granted nothing.
LEMMA OtherGrants ==
  ASSUME AccountsInv, NEW r \in Req,
         \/ RegisterCheck(r) \/ SeedCheck(r) \/ SeedFindOrg(r) \/ InsertOrg(r)
         \/ Authenticate(r) \/ LoginFailedAudit(r) \/ ListUsers(r) \/ GetVacancy(r)
  PROVE  Grants' = Grants
<1>1. PICK p \in Request : p = req[r]
  BY DEF AccountsInv, TypeOK
<1>2. ~At(r, {"create_vacancy"}, "act")
  BY DEF RegisterCheck, SeedCheck, SeedFindOrg, InsertOrg, Authenticate, LoginFailedAudit,
         ListUsers, GetVacancy, At
<1>3. \/ \E code : Answer(r, code)
      \/ \E pc \in {"insert_org", "find_org", "commit", "audit_failed"} : Goto(r, pc)
      \/ Become(r, [p EXCEPT !.pc = "commit", !.inserted = TRUE])
      \/ \E u : Become(r, WithUser(p, "audit", u))
  BY <1>1 DEF RegisterCheck, SeedCheck, SeedFindOrg, InsertOrg, Authenticate, LoginFailedAudit,
              ListUsers, GetVacancy
<1>4. CASE \E code : Answer(r, code)
  BY <1>2, <1>4, AnswerEnds, GrantsStay DEF Answer
<1>5. CASE \E pc \in {"insert_org", "find_org", "commit", "audit_failed"} : Goto(r, pc)
  <2>1. PICK pc \in {"insert_org", "find_org", "commit", "audit_failed"} :
          Become(r, [p EXCEPT !.pc = pc])
    BY <1>1, <1>5 DEF Goto
  <2>2. [p EXCEPT !.pc = pc].pc # "act"
    BY DEF Request
  <2> QED
    BY <1>2, <2>1, <2>2, GrantsStay
<1>6. CASE Become(r, [p EXCEPT !.pc = "commit", !.inserted = TRUE])
  <2>1. [p EXCEPT !.pc = "commit", !.inserted = TRUE].pc = "commit"
    BY DEF Request
  <2> QED
    BY <1>2, <1>6, <2>1, GrantsStay
<1>7. CASE \E u : Become(r, WithUser(p, "audit", u))
  <2>1. PICK u : Become(r, WithUser(p, "audit", u))
    BY <1>7
  <2>2. WithUser(p, "audit", u).pc = "audit"
    BY DEF WithUser, Request
  <2> QED
    BY <1>2, <2>1, <2>2, GrantsStay
<1> QED
  BY <1>3, <1>4, <1>5, <1>6, <1>7

\* A step of a request is an operation of the registry, or it sees nothing of it.
LEMMA RequestStep ==
  ASSUME AccountsInv, NEW r \in Req, Arrive(r) \/ Advance(r) \/ Fail(r)
  PROVE  \/ \E o \in Org, e \in Email : Promise!Found(o, e) \/ Promise!Enrol(o, e)
         \/ \E m \in Profiles : Promise!Admit(m) \/ \E p \in Req : Promise!Grant(m, p)
         \/ \E g \in Grants : Promise!Post(g) \/ Promise!Lapse(g)
         \/ UNCHANGED <<orgs, Profiles, Admitted, Grants, vacancies>>
<1>1. CASE CreateUser(r) \/ LoginAudit(r) \/ Refresh(r) \/ Authorize(r) \/ CreateVacancy(r)
           \/ Fail(r)
  BY <1>1, CreateUserRegisters, LoginAdmits, RefreshAdmits, AuthorizeGrants, VacancyPosted,
     FailLapses
<1>2. CASE Arrive(r)
  <2>1. UNCHANGED <<orgs, users, vacancies, tokens>>
    BY <1>2 DEF Arrive, rows
  <2> QED
    BY <1>2, <2>1, ArriveGrants, QuietStutters
<1>3. CASE \/ RegisterCheck(r) \/ SeedCheck(r) \/ SeedFindOrg(r) \/ InsertOrg(r)
           \/ Authenticate(r) \/ LoginFailedAudit(r) \/ ListUsers(r) \/ GetVacancy(r)
  <2>1. UNCHANGED <<orgs, users, vacancies, tokens>>
    BY <1>3 DEF RegisterCheck, SeedCheck, SeedFindOrg, InsertOrg, Authenticate,
                LoginFailedAudit, ListUsers, GetVacancy, rows
  <2> QED
    BY <1>3, <2>1, OtherGrants, QuietStutters
<1> QED
  BY <1>1, <1>2, <1>3 DEF Advance

\* Every step of accounts and access is an atomic operation of the registry, or the
\* registry sees nothing of it.
THEOREM RegistryImplemented == Spec => ImplementsRegistry
<1>1. Init => Promise!Init
  <2> SUFFICES ASSUME Init PROVE Promise!Init
    OBVIOUS
  <2>1. Profiles = {Profile(u) : u \in Staff} /\ Admitted = {}
    BY DEF Init, Profiles, Admitted
  <2>2. \A o : o \in orgs <=> \E m \in Profiles : o = m.org
    BY <2>1, ProfileFields DEF Init
  <2>3. orgs = {m.org : m \in {Profile(u) : u \in Staff}}
    BY <2>1, <2>2
  <2>4. Grants = {}
    BY DEF Init, Idle, Grants, Writing, At
  <2> QED
    BY <2>1, <2>3, <2>4 DEF Init, Promise!Init, Profiles, Admitted, Grants
<1>2. ASSUME AccountsInv, [Next]_vars PROVE [Promise!Next]_(Promise!registry)
  <2>1. CASE UNCHANGED vars
    <3>1. Grants' = Grants
      BY <2>1 DEF vars, Grants, Writing, At
    <3>2. UNCHANGED <<orgs, Profiles, Admitted, Grants, vacancies>>
      BY <2>1, <3>1, QuietStutters DEF vars
    <3> QED
      BY <3>2 DEF Promise!registry, Profiles, Admitted, Grants
  <2>2. CASE Deactivate \/ Demote
    <3>1. PICK m \in Profiles : Promise!Suspend(m) \/ Promise!Demote(m)
      BY <1>2, <2>2, OperatorOperations
    <3> QED
      BY <3>1 DEF Promise!Next, Profiles
  <2>3. ASSUME NEW r \in Req, Arrive(r) \/ Advance(r) \/ Fail(r)
        PROVE  [Promise!Next]_(Promise!registry)
    <3>1. \/ \E o \in Org, e \in Email : Promise!Found(o, e) \/ Promise!Enrol(o, e)
          \/ \E m \in Profiles : Promise!Admit(m) \/ \E p \in Req : Promise!Grant(m, p)
          \/ \E g \in Grants : Promise!Post(g) \/ Promise!Lapse(g)
          \/ UNCHANGED <<orgs, Profiles, Admitted, Grants, vacancies>>
      BY <1>2, <2>3, RequestStep
    <3> QED
      BY <3>1 DEF Promise!Next, Promise!registry, Profiles, Admitted, Grants
  <2> QED
    BY <1>2, <2>1, <2>2, <2>3 DEF Next
<1> QED
  BY <1>1, <1>2, AccountsInvariant, PTL DEF Spec, ImplementsRegistry, Promise!Spec
=============================================================================
