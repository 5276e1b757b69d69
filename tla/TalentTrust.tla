----------------------------- MODULE TalentTrust -----------------------------
(***************************************************************************)
(* The backend: every request of Req running one of the services against   *)
(* the shared database, all interleaved.                                   *)
(***************************************************************************)
EXTENDS CandidateService, DossierService, DecisionService, ReportExport,
        RetentionService

Advance(r) ==
  \/ Execute(r)
  \/ CreateCandidate(r)
  \/ ScoreCandidate(r)
  \/ GenerateDossier(r)
  \/ RecordDecision(r)
  \/ ExportDossierPdf(r)
  \/ DeleteCandidate(r)

Next ==
  \E r \in Req : \/ Arrive(r) \/ StartTtl(r)
                 \/ Advance(r)
                 \/ BreakDeadlock(r) \/ Fail(r)

Spec == Init /\ [][Next]_vars

\* The event loop resumes every handler whose await is over and PostgreSQL
\* grants a free lock or resolves a deadlock.  Clients owe nothing.
FairSpec ==
  /\ Spec
  /\ \A r \in Req : WF_vars(Advance(r))
  /\ WF_vars(\E r \in Req : BreakDeadlock(r))

-----------------------------------------------------------------------------
(* What the committed database must look like, whatever the interleaving.   *)

DecisionsOn(c) == {d \in decisions : d.cand = c}
Recorded(event, c) == {a \in audit : a.event = event /\ a.cand = c}
Deleted(c) == Recorded("candidate_deleted", c) # {}

\* No row about a person outlives the candidate row: a handler that was under
\* way when the deletion committed cannot put one back.
NothingOutlivesCandidate ==
  \A c \in Candidate : ~Exists(c) =>
    /\ c \notin docs \cup consents
    /\ score[c] = NoRow /\ dossier[c] = NoRow
    /\ DecisionsOn(c) = {}

\* "A dossier always has a score": export_dossier_pdf relies on it, although
\* the two are written by different transactions of generate_dossier.
DossierHasScore ==
  \A c \in Candidate : dossier[c] # NoRow => score[c] # NoRow

\* The status column says "analyzed" exactly when a dossier row is there.
StatusMatchesDossier ==
  \A c \in Candidate : cand[c] = "analyzed" <=> dossier[c] # NoRow

\* A human decision always refers to a dossier that is still there.
DecisionHasDossier ==
  \A d \in decisions : dossier[d.cand] # NoRow

\* The providers are told about a candidate, and results kept, only under a consent:
\* the score has its own check, the dossier another, a row may lack a consent, and a
\* handler that is past the checks can only have been overtaken by a deletion.
AnalysisUnderConsent ==
  /\ \A c \in Candidate : score[c] # NoRow \/ dossier[c] # NoRow
                            => c \in consents /\ c \in docs
  /\ \A r \in Req : req[r].pc \in {"narrate", "compose"}
                       => req[r].cand \in consents \/ Deleted(req[r].cand)

\* The requests that stored an embedding of vacancy v.
Embedders(v) ==
  {a.by : a \in {b \in audit : "vacancy" \in b.rows /\ VacancyOf[b.cand] = v}}

\* Every score was computed against an embedding that its vacancy's row has held,
\* the request's own, stored in one commit with the score, or one it found there.
\* The row need not hold it still: of two requests that each found none, the second
\* to commit replaces the embedding the first one scored with.
ScoreUsesStoredEmbedding ==
  \A c \in Candidate : \A a \in Recorded("score_computed", c) :
    a.basis \in Embedders(VacancyOf[c])

\* What each column says was reported by an event.  Two requests that overlap may
\* leave columns of two results in one row, so that no single event reports the row;
\* of a dossier the summary is one column and holds one result.
RowsAreAudited ==
  /\ \A c \in Candidate :
       /\ Exists(c) => Recorded("cv_parsed", c) # {}
       /\ score[c] # NoRow => \E a, b \in Recorded("score_computed", c) :
            /\ a.result.value = score[c].value
            /\ b.result.recommendation = score[c].recommendation
       /\ dossier[c] # NoRow => \E a, b \in Recorded("dossier_generated", c) :
            /\ a.result = dossier[c].summary
            /\ b.result.recommendation = dossier[c].recommendation
  /\ \A d \in decisions :
       \E a \in Recorded("decision_recorded", d.cand) : a.by = d.by /\ a.result = d.ai

\* The recommendation a decision keeps as context is one a dossier of that
\* candidate really gave.
DecisionQuotesDossier ==
  \A d \in decisions :
    \E a \in Recorded("dossier_generated", d.cand) : a.result.recommendation = d.ai

\* A decision that was audited is on file until its candidate is deleted.
AuditedDecisionKept ==
  \A a \in audit : a.event = "decision_recorded" =>
    \/ \E d \in decisions : d.by = a.by /\ d.cand = a.cand
    \/ Deleted(a.cand)

\* A candidate whose deletion was audited is gone and does not come back.
DeletedStaysGone == \A c \in Candidate : Deleted(c) => ~Exists(c)

\* No request writes anything about a candidate of another organization.
TenantIsolation ==
  /\ \A a \in audit : a.by \in Req /\ req[a.by].kind # "ttl"
                        => req[a.by].org = Owner[a.cand]
  /\ \A d \in decisions : req[d.by].org = Owner[d.cand]

\* Audit rows are never removed, and a candidate or a decision disappears
\* only in the transaction that audits the candidate's deletion.
OnlyAuditedDeletionRemoves ==
  [][/\ audit \subseteq audit'
     /\ \A c \in Candidate :
          (Exists(c) /\ ~Exists(c)') \/ ~(DecisionsOn(c) \subseteq DecisionsOn(c)')
            => \E a \in audit' \ audit : a.event = "candidate_deleted" /\ a.cand = c]_vars

\* Every request is answered: transactions that wait for each other's rows, a
\* deletion among them, do not wait for ever, and each of the requests that were
\* made is over at last.
EveryRequestAnswered == <>[](\A r \in Req : ~Active(r))

\* Where the handler of each kind of request stops to await something.
Nested == {"score_consent", "score_document", "narrate", "score_flush", "score_refresh"}
Awaits ==
  [upload |-> {"begin", "flush", "refresh"},
   score |-> {"begin"} \cup Nested,
   dossier |-> {"begin", "consent", "document", "compose", "flush", "refresh"} \cup Nested,
   decision |-> {"begin", "decide", "flush", "refresh"},
   export |-> {"begin", "export", "export_score", "export_decision", "flush"},
   delete |-> {"begin", "flush"},
   ttl |-> {"begin", "flush"}]

\* The positions of the handlers, in the order in which each of them passes its own.
Place ==
  [idle |-> 0, begin |-> 1, consent |-> 2, document |-> 3, score_consent |-> 4,
   score_document |-> 5, narrate |-> 6, score_flush |-> 7, score_refresh |-> 8,
   compose |-> 9, decide |-> 10, export |-> 11, export_score |-> 12,
   export_decision |-> 13, flush |-> 14, refresh |-> 15, done |-> 16]

\* The request has come further, has fewer candidates left or fewer statements to send.
Nearer(q, n) ==
  \/ Place[q.pc] < Place[n.pc]
  \/ n.pc = q.pc /\ n.queue \subseteq q.queue /\ n.queue # q.queue
  \/ n.pc = q.pc /\ n.queue = q.queue /\ n.todo \subseteq q.todo /\ n.todo # q.todo

\* Every step takes one request nearer to its end and leaves the others where they
\* are: no handler returns to where it was, none waits by spinning, and a sweep that
\* goes round for the next candidate of its list has one less to see to.
EveryStepCounts ==
  [][\E r \in Req : /\ Nearer(req[r], req'[r])
                    /\ \A s \in Req \ {r} : req'[s] = req[s]]_vars

\* Each commit is one atomic operation of CandidateLifecycle on one candidate.
Stage(c) == IF Deleted(c) THEN "deleted" ELSE IF Exists(c) THEN cand[c] ELSE "unborn"

Promise == INSTANCE CandidateLifecycle WITH
  Decider <- Req,
  stage <- [c \in Candidate |-> Stage(c)],
  scored <- {c \in Candidate : score[c] # NoRow},
  decided <- {<<d.cand, d.by>> : d \in decisions}

\* The services, interleaved statement by statement, implement the promise.
ImplementsLifecycle == Promise!Spec

-----------------------------------------------------------------------------
(* What the documentation says of scores, deletions and the dossier endpoint. *)

\* scoring/weights.py: "Deterministic, non-binding recommendation from the 0-100
\* score": the recommendation a score row keeps is that of the value it keeps.
StoredRecommendationFits ==
  \A c \in Candidate :
    score[c] # NoRow => score[c].recommendation = GradeOf[score[c].value]

\* retention_service.py: "Deletion is explicit (not relying on DB FK
\* cascades)": the DELETEs sent before the candidate's found all its rows.
DeletionIsExplicit ==
  [][\A r \in Req, c \in Candidate :
       Exists(c) /\ ~Exists(c)' /\ req'[r] # req[r] =>
         /\ score[c] # NoRow => "delScore" \in req[r].done
         /\ dossier[c] # NoRow => "delDossier" \in req[r].done
         /\ DecisionsOn(c) # {} => "delDecisions" \in req[r].done]_vars

\* delete_expired_candidates: "Returns the number deleted", the length of the
\* list it started from.
TtlCountsItsDeletions ==
  \A r \in Req : req[r].kind = "ttl" /\ req[r].resp = "ok" =>
    Cardinality(req[r].batch) =
      Cardinality({a \in audit : a.by = r /\ "delConsents" \in a.rows})

\* api/v1/dossiers.py: "Generating without a valid consent returns 409".
MissingConsentIs409 ==
  [][\A r \in Req :
       /\ req[r].kind = "dossier" /\ req[r].pc \in {"consent", "score_consent"}
       /\ req[r].cand \notin consents
       => req'[r].resp # "500"]_vars
=============================================================================
