---------------------------- MODULE TalentStore ----------------------------
(***************************************************************************)
(* The shared state of the backend: the committed rows of the relational   *)
(* database and, for every HTTP request, how far its handler has come.     *)
(*                                                                         *)
(* Each request runs in one SQLAlchemy session (db/session.py) on its own  *)
(* connection, under PostgreSQL READ COMMITTED.  A SELECT therefore reads  *)
(* what is committed when it runs; the statements of a flush take row      *)
(* locks when they run and become visible to others only when the request  *)
(* commits.  A request's record carries the statements its flush still has *)
(* to send (todo, the one being sent in next) and those it has executed    *)
(* and not yet committed (done), which are also the locks it holds.        *)
(***************************************************************************)
EXTENDS Naturals, FiniteSets

CONSTANTS
  Candidate,   \* candidate ids (uuid4, minted by an upload)
  Req,         \* the requests ever made, each of them once
  Org,         \* organizations, the tenants
  Vacancy,     \* vacancies
  Owner,       \* the organization of a candidate and of its vacancy
  VacancyOf,   \* the vacancy a candidate applies to
  Uploaded,    \* candidates whose upload had finished before the requests of Req
  Value,       \* the values scoring a candidate can yield
  Grade,       \* recommendations
  GradeOf,     \* recommendation_for: the one that goes with each value
  Rewording,   \* {FALSE} when providers are deterministic, BOOLEAN when not
  Kinds,       \* the operations the requests of this instance perform
  NoRow        \* "this table has no row for the candidate"

\* The columns of a scores row that are modelled, and those of a dossiers row:
\* the JSON column summary quotes a score and what it recommends, recommendation
\* repeats it.  Breakdown, narrative, findings and questions are left out.
Result == [value : Value, recommendation : Grade]
Report == [summary : Result, recommendation : Grade]
Column == {"value", "recommendation", "summary"}

\* What is computed for a value, and what a dossier says of a score row x.
Scored(v) == [value |-> v, recommendation |-> GradeOf[v]]
Reporting(x) == [summary |-> x, recommendation |-> x.recommendation]

AllKinds == {"upload", "score", "dossier", "decision", "export", "delete", "ttl"}

ASSUME StoreAssumption ==
  /\ Owner \in [Candidate -> Org]
  /\ VacancyOf \in [Candidate -> Vacancy]
  /\ Uploaded \subseteq Candidate
  /\ Value # {} /\ GradeOf \in [Value -> Grade]
  /\ Rewording \subseteq BOOLEAN /\ Rewording # {}
  /\ Kinds \subseteq AllKinds
  /\ NoRow \notin Result \cup Report \cup Grade \cup Req

VARIABLES
  cand,        \* candidates: "none" without a row, else the status column
  docs,        \* candidates with a candidate_documents row
  consents,    \* candidates with a consents row
  score,       \* scores: at most one row per candidate
  dossier,     \* dossiers: at most one row per candidate
  decisions,   \* decisions rows
  embedding,   \* requirements_embedding of a vacancy: the request that computed it
  audit,       \* audit_logs rows about candidates
  req          \* the requests

tables == <<cand, docs, consents, score, dossier, decisions, embedding>>
vars == <<cand, docs, consents, score, dossier, decisions, embedding, audit, req>>

(***************************************************************************)
(* Statements a request may send.  insCand stands for the three inserts of *)
(* an upload (candidate, document, consent); cascade for what ON DELETE    *)
(* CASCADE removes once the candidate row is being deleted.                *)
(***************************************************************************)
KeyShare == {"insScore", "insDossier", "insDecision"}
Updates == {"updScore", "updDossier", "updCand"}
Purge == {"delDecisions", "delScore", "delDossier", "delConsents", "delDocs",
          "delCand", "cascade"}
RowStatement == {"insCand"} \cup KeyShare \cup Updates \cup Purge
Statement == RowStatement \cup {"vacancy"}

CandStatus == {"none", "received", "analyzed"}
Events == {"cv_parsed", "score_computed", "dossier_generated",
           "decision_recorded", "pdf_exported", "candidate_deleted"}
Steps == {"idle", "begin", "consent", "document", "score_consent",
          "score_document", "narrate", "score_flush", "score_refresh", "compose",
          "decide", "export", "export_score", "export_decision", "flush",
          "refresh", "done"}

\* draft is what the handler has at hand to write, sets the columns its UPDATE
\* names, basis the request that computed the embedding it scores with.
Request ==
  [kind : AllKinds \cup {"none"}, cand : Candidate \cup {NoRow}, org : Org \cup {NoRow},
   pc : Steps, todo : SUBSET Statement, next : Statement \cup {"none"},
   done : SUBSET Statement, status : CandStatus, draft : Result \cup Grade \cup {NoRow},
   sets : SUBSET Column, basis : Req \cup {NoRow},
   queue : SUBSET Candidate, batch : SUBSET Candidate,
   resp : {"none", "ok", "400", "404", "409", "413", "422", "500", "failed"}]

\* result is what the event reports and rows what a deletion counted.  Not logged:
\* the basis of a score, and in its rows whether the vacancy's embedding was stored.
AuditRow ==
  [event : Events, cand : Candidate, by : Req \cup {NoRow},
   result : Result \cup Grade \cup {NoRow}, rows : SUBSET Statement,
   basis : Req \cup {NoRow}]

Decision == [cand : Candidate, by : Req, ai : Grade]

\* Rows, audit log and requests are of their types.
TypeOK ==
  /\ cand \in [Candidate -> CandStatus]
  /\ docs \subseteq Candidate
  /\ consents \subseteq Candidate
  /\ score \in [Candidate -> Result \cup {NoRow}]
  /\ dossier \in [Candidate -> Report \cup {NoRow}]
  /\ decisions \subseteq Decision
  /\ embedding \in [Vacancy -> Req \cup {NoRow}]
  /\ audit \subseteq AuditRow
  /\ req \in [Req -> Request]

Idle ==
  [kind |-> "none", cand |-> NoRow, org |-> NoRow, pc |-> "idle", todo |-> {},
   next |-> "none", done |-> {}, status |-> "none", draft |-> NoRow,
   sets |-> {}, basis |-> NoRow,
   queue |-> {}, batch |-> {}, resp |-> "none"]

AuditEntry(event, c, r, result, rows, basis) ==
  [event |-> event, cand |-> c, by |-> r, result |-> result, rows |-> rows,
   basis |-> basis]

\* A candidate row that something else than the upload inserted, as the tests do,
\* may be without a consent.
Init ==
  /\ cand = [c \in Candidate |-> IF c \in Uploaded THEN "received" ELSE "none"]
  /\ docs = Uploaded
  /\ consents \in SUBSET Uploaded
  /\ score = [c \in Candidate |-> NoRow]
  /\ dossier = [c \in Candidate |-> NoRow]
  /\ decisions = {}
  /\ embedding = [v \in Vacancy |-> NoRow]
  /\ audit = {AuditEntry("cv_parsed", c, NoRow, NoRow, {}, NoRow) : c \in Uploaded}
  /\ req = [r \in Req |-> Idle]

Exists(c) == cand[c] # "none"
Active(r) == req[r].pc \notin {"idle", "done"}

-----------------------------------------------------------------------------
(* Locks and integrity, as PostgreSQL enforces them on the models' tables.  *)

\* Whether statement w on a candidate waits for a transaction that has
\* executed v on the same candidate: both change one row, both insert the
\* same unique key, the key is being deleted, or a foreign-key check meets
\* the deletion of the row it references.
Conflict(v, w) ==
  \/ "cascade" \in {v, w} /\ "insCand" \notin {v, w}
  \/ {v, w} \subseteq {"updScore", "delScore"}
  \/ {v, w} \subseteq {"updDossier", "delDossier"}
  \/ {v, w} \subseteq {"updCand", "delCand"}
  \/ v = w /\ v \in {"insScore", "insDossier", "delDecisions", "delConsents", "delDocs"}
  \/ <<v, w>> \in {<<"delScore", "insScore">>, <<"delDossier", "insDossier">>}
  \/ "delCand" \in {v, w} /\ {v, w} \cap KeyShare # {}

Waits(r, s) ==
  /\ s # r
  /\ req[r].next \in req[r].todo
  /\ \E v \in req[s].done :
       \/ /\ req[s].cand = req[r].cand
          /\ {v, req[r].next} \subseteq RowStatement
          /\ Conflict(v, req[r].next)
       \/ /\ v = "vacancy" /\ req[r].next = "vacancy"
          /\ VacancyOf[req[s].cand] = VacancyOf[req[r].cand]

\* Whether the row that statement w addresses is there.
Addressed(w, c) ==
  \/ w \in {"insScore", "updScore", "delScore"} /\ score[c] # NoRow
  \/ w \in {"insDossier", "updDossier", "delDossier"} /\ dossier[c] # NoRow
  \/ w \in {"updCand", "delCand", "cascade"} /\ Exists(c)
  \/ w = "delDecisions" /\ \E d \in decisions : d.cand = c
  \/ w = "delConsents" /\ c \in consents
  \/ w = "delDocs" /\ c \in docs

\* Variant: tables created without their foreign keys.
RefusedByIndexOnly(w, c) ==
  \/ w \in {"insScore", "insDossier"} /\ Addressed(w, c)
  \/ w \in Updates /\ ~Addressed(w, c)

\* Unique index on candidate_id, foreign key to candidates, and the ORM's
\* complaint about an UPDATE that matched no row.
Refused(w, c) ==
  \/ w \in {"insScore", "insDossier"} /\ Addressed(w, c)
  \/ w \in KeyShare /\ ~Exists(c)
  \/ w \in Updates /\ ~Addressed(w, c)

\* The order in which _purge_candidate_rows sends its DELETEs.
PurgeOrder == <<"delDecisions", "delScore", "delDossier", "delConsents",
                "delDocs", "delCand", "cascade">>

\* What may be sent first out of T.  A flush of the ORM has no fixed order.
Upcoming(T) ==
  IF T = {} THEN {"none"}
  ELSE {w \in T : ~ \E i, j \in 1..7 :
          i < j /\ PurgeOrder[j] = w /\ PurgeOrder[i] \in T}

-----------------------------------------------------------------------------
(* Steps shared by the services.                                            *)

\* The response leaves and the session closes; what was not committed is
\* rolled back.
Answered(q, code) ==
  [q EXCEPT !.pc = "done", !.todo = {}, !.next = "none", !.done = {},
            !.status = "none", !.draft = NoRow, !.sets = {}, !.basis = NoRow,
            !.queue = {}, !.resp = code]

Become(r, q) == req' = [req EXCEPT ![r] = q]
Answer(r, code) == Become(r, Answered(req[r], code))
Goto(r, p) == Become(r, [req[r] EXCEPT !.pc = p])

At(r, kinds, p) == req[r].kind \in kinds /\ req[r].pc = p

\* Variant: the organization is not compared.
FoundAnywhere(r) == Exists(req[r].cand)

\* The candidate the request names, when its organization is the caller's.
Found(r) == Exists(req[r].cand) /\ Owner[req[r].cand] = req[r].org

\* The first step of every endpoint on one candidate.
GetCandidate(r, k, p) ==
  /\ At(r, {k}, "begin")
  /\ IF Found(r) THEN Goto(r, p) ELSE Answer(r, "404")
  /\ UNCHANGED <<tables, audit>>

\* A client calls an endpoint.  An upload names the id the handler will mint.
Arrive(r) ==
  /\ req[r].pc = "idle"
  /\ \E k \in Kinds \ {"ttl"}, c \in Candidate, o \in Org :
       /\ k = "upload" => /\ c \notin Uploaded
                          /\ \A s \in Req : req[s].kind = "upload" => req[s].cand # c
       /\ Become(r, [req[r] EXCEPT !.kind = k, !.cand = c, !.org = o, !.pc = "begin"])
  /\ UNCHANGED <<tables, audit>>

\* One statement of a flush: it waits for the locks it needs, and then runs
\* or makes the whole transaction fail.
Execute(r) ==
  LET q == req[r]
      rest == q.todo \ {q.next}
      hit == IF q.next \in Purge /\ ~Addressed(q.next, q.cand) THEN {} ELSE {q.next}
  IN /\ q.pc \in {"score_flush", "flush"}
     /\ q.next \in q.todo
     /\ \A s \in Req : ~Waits(r, s)
     /\ IF Refused(q.next, q.cand)
          THEN Answer(r, "500")
          ELSE \E w \in Upcoming(rest) :
                 Become(r, [q EXCEPT !.todo = rest, !.next = w, !.done = q.done \cup hit])
     /\ UNCHANGED <<tables, audit>>

\* The ORM's UPDATE sends the attributes that differ from the row as it was loaded;
\* the other columns are those of the row that is there by now.  It brings no row back.
PatchScore(row, q) ==
  IF row = NoRow THEN NoRow
  ELSE [value |-> IF "value" \in q.sets THEN q.draft.value ELSE row.value,
        recommendation |-> IF "recommendation" \in q.sets THEN q.draft.recommendation
                           ELSE row.recommendation]
PatchDossier(row, q) ==
  IF row = NoRow THEN NoRow
  ELSE [summary |-> IF "summary" \in q.sets THEN q.draft ELSE row.summary,
        recommendation |-> IF "recommendation" \in q.sets THEN q.draft.recommendation
                           ELSE row.recommendation]

\* COMMIT: what the executed statements wrote becomes the committed state.
CommitTables(r) ==
  LET c == req[r].cand
      D == req[r].done
      Gone(w) == D \cap {w, "delCand"} # {}
  IN /\ cand' = [cand EXCEPT ![c] = IF "insCand" \in D THEN "received"
                                    ELSE IF "delCand" \in D THEN "none"
                                    ELSE IF "updCand" \in D THEN "analyzed" ELSE @]
     /\ docs' = IF "insCand" \in D THEN docs \cup {c}
                ELSE IF Gone("delDocs") THEN docs \ {c} ELSE docs
     /\ consents' = IF "insCand" \in D THEN consents \cup {c}
                    ELSE IF Gone("delConsents") THEN consents \ {c} ELSE consents
     /\ score' = [score EXCEPT ![c] = IF "insScore" \in D THEN req[r].draft
                                      ELSE IF "updScore" \in D THEN PatchScore(@, req[r])
                                      ELSE IF Gone("delScore") THEN NoRow ELSE @]
     /\ dossier' = [dossier EXCEPT ![c] = IF "insDossier" \in D THEN Reporting(req[r].draft)
                                          ELSE IF "updDossier" \in D
                                            THEN PatchDossier(@, req[r])
                                          ELSE IF Gone("delDossier") THEN NoRow ELSE @]
     /\ decisions' = IF "insDecision" \in D
                     THEN decisions \cup {[cand |-> c, by |-> r, ai |-> req[r].draft]}
                     ELSE IF Gone("delDecisions") THEN {d \in decisions : d.cand # c}
                     ELSE decisions
     /\ embedding' = IF "vacancy" \in D THEN [embedding EXCEPT ![VacancyOf[c]] = r]
                     ELSE embedding

\* The flush is complete: the handler commits and records its audit event.
Commit(r, event, result, rows, q) ==
  /\ req[r].todo = {}
  /\ CommitTables(r)
  /\ audit' = audit \cup
                {AuditEntry(event, req[r].cand, r, result, rows, req[r].basis)}
  /\ Become(r, q)

Committed(q, p) ==
  [q EXCEPT !.pc = p, !.done = {}, !.draft = NoRow, !.sets = {}, !.basis = NoRow]
Flushing(q, p, T, w) == [q EXCEPT !.pc = p, !.todo = T, !.next = w]

\* A provider call fails, the connection drops or the process dies.
Fail(r) ==
  /\ Active(r)
  /\ Answer(r, "failed")
  /\ UNCHANGED <<tables, audit>>

\* PostgreSQL breaks a cycle of waiting transactions by aborting one of them.
BreakDeadlock(r) ==
  /\ \E R \in SUBSET Req :
       /\ r \in R
       /\ \A a \in R : \E b \in R : Waits(a, b)
  /\ Answer(r, "500")
  /\ UNCHANGED <<tables, audit>>
=============================================================================
