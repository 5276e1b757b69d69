--------------------------- MODULE ScoringService ---------------------------
(***************************************************************************)
(* scoring_service.score_candidate.  It runs as POST /score and, on the    *)
(* same session, inside POST /dossier; it commits by itself in both, and   *)
(* its exceptions are mapped to a status only by the /score endpoint.      *)
(***************************************************************************)
EXTENDS TalentStore

Scoring == {"score", "dossier"}

\* An exception of scoring_service: the router of /dossier does not know it.
Raise(r, code) == Answer(r, IF req[r].kind = "score" THEN code ELSE "500")

ScoreGetCandidate(r) == GetCandidate(r, "score", "score_consent")

\* Variant: the consent is not looked for.
ScoreConsentUnchecked(r) ==
  /\ At(r, Scoring, "score_consent")
  /\ Goto(r, "score_document")
  /\ UNCHANGED <<tables, audit>>

ScoreCheckConsent(r) ==
  /\ At(r, Scoring, "score_consent")
  /\ IF req[r].cand \in consents THEN Goto(r, "score_document") ELSE Raise(r, "409")
  /\ UNCHANGED <<tables, audit>>

\* Variant: the embedding is computed for this score and not kept.
ScoreLoadDocumentUncached(r) ==
  /\ At(r, Scoring, "score_document")
  /\ IF req[r].cand \notin docs THEN Raise(r, "422")
     ELSE Become(r, [req[r] EXCEPT !.pc = "narrate", !.basis = r])
  /\ UNCHANGED <<tables, audit>>

\* Request q reads the vacancy of its candidate: one read without an embedding will
\* be written with the one that is computed for it.
Embedded(q, r) ==
  LET stored == embedding[VacancyOf[q.cand]]
  IN IF stored = NoRow THEN [q EXCEPT !.basis = r, !.todo = {"vacancy"}]
     ELSE [q EXCEPT !.basis = stored, !.todo = {}]

\* Reads the document and the vacancy.  Inside /dossier the vacancy is the object
\* that dossier_service loaded.
ScoreLoadDocument(r) ==
  /\ At(r, Scoring, "score_document")
  /\ IF req[r].cand \notin docs THEN Raise(r, "422")
     ELSE LET q == [req[r] EXCEPT !.pc = "narrate"]
          IN Become(r, IF req[r].kind = "score" THEN Embedded(q, r) ELSE q)
  /\ UNCHANGED <<tables, audit>>

\* The columns in which the score x differs from a row.
ScoreColumns(x, row) ==
  {k \in {"value", "recommendation"} : x[k] # row[k]}

\* The embedding and narrative calls have returned; the score row is looked
\* up, and created or changed in the session.  Only an attribute set to a value it
\* did not have is sent; a narrative that was reworded is a column left out here.
ScoreNarrate(r) ==
  /\ At(r, Scoring, "narrate")
  /\ \E v \in Value, reworded \in Rewording :
       LET row == score[req[r].cand]
           sets == IF row = NoRow THEN {} ELSE ScoreColumns(Scored(v), row)
           write == IF row = NoRow THEN {"insScore"}
                    ELSE IF sets # {} \/ reworded THEN {"updScore"} ELSE {}
           T == req[r].todo \cup write
       IN \E w \in Upcoming(T) :
            Become(r, Flushing([req[r] EXCEPT !.draft = Scored(v), !.sets = sets],
                               "score_flush", T, w))
  /\ UNCHANGED <<tables, audit>>

ScoreCommit(r) ==
  /\ At(r, Scoring, "score_flush")
  /\ Commit(r, "score_computed", req[r].draft, req[r].done \cap {"vacancy"},
            Committed(req[r], "score_refresh"))

\* db.refresh reads the row back; it may hold columns of another request's result
\* by now, and it is this row that a dossier goes on with.
ScoreRefresh(r) ==
  /\ At(r, Scoring, "score_refresh")
  /\ IF score[req[r].cand] = NoRow THEN Answer(r, "500")
     ELSE IF req[r].kind = "score" THEN Answer(r, "ok")
     ELSE Become(r, [req[r] EXCEPT !.pc = "compose", !.draft = score[req[r].cand]])
  /\ UNCHANGED <<tables, audit>>

ScoreCandidate(r) ==
  \/ ScoreGetCandidate(r)
  \/ ScoreCheckConsent(r)
  \/ ScoreLoadDocument(r)
  \/ ScoreNarrate(r)
  \/ ScoreCommit(r)
  \/ ScoreRefresh(r)
=============================================================================
