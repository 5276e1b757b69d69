--------------------------- MODULE DossierService ---------------------------
(***************************************************************************)
(* dossier_service.generate_dossier: its own checks, the nested scoring    *)
(* (ScoringService, from "score_consent" to "compose"), and a second       *)
(* transaction that writes the dossier and marks the candidate analyzed.   *)
(***************************************************************************)
EXTENDS ScoringService

\* The candidate object loaded here keeps the status it had for the rest of
\* the request: expire_on_commit is off and the identity map hands it out.
DossierGetCandidate(r) ==
  /\ At(r, {"dossier"}, "begin")
  /\ IF Found(r)
       THEN Become(r, [req[r] EXCEPT !.pc = "consent", !.status = cand[req[r].cand]])
       ELSE Answer(r, "404")
  /\ UNCHANGED <<tables, audit>>

DossierCheckConsent(r) ==
  /\ At(r, {"dossier"}, "consent")
  /\ IF req[r].cand \in consents THEN Goto(r, "document") ELSE Answer(r, "409")
  /\ UNCHANGED <<tables, audit>>

\* Variant: the score is computed for the dossier and not stored.
DossierLoadDocumentUnscored(r) ==
  /\ At(r, {"dossier"}, "document")
  /\ IF req[r].cand \notin docs THEN Answer(r, "404")
     ELSE \E v \in Value :
            Become(r, [req[r] EXCEPT !.pc = "compose", !.draft = Scored(v)])
  /\ UNCHANGED <<tables, audit>>

DossierLoadDocument(r) ==
  /\ At(r, {"dossier"}, "document")
  /\ IF req[r].cand \notin docs THEN Answer(r, "404")
     ELSE Become(r, Embedded([req[r] EXCEPT !.pc = "score_consent"], r))
  /\ UNCHANGED <<tables, audit>>

\* Variant: the candidate's status is left alone.
DossierComposeOnly(r) ==
  /\ At(r, {"dossier"}, "compose")
  /\ \E w \in Upcoming(IF dossier[req[r].cand] = NoRow THEN {"insDossier"} ELSE {}) :
       Become(r, Flushing(req[r], "flush", {w} \ {"none"}, w))
  /\ UNCHANGED <<tables, audit>>

\* The columns in which a dossier on score x differs from a row; a text that was
\* reworded is part of the summary.
DossierColumns(x, row, reworded) ==
  (IF x # row.summary \/ reworded THEN {"summary"} ELSE {})
    \cup (IF x.recommendation # row.recommendation THEN {"recommendation"} ELSE {})

\* The summary call has returned; the dossier row is looked up, and created or
\* changed in the session, and the candidate's status set.  The columns left out
\* here (findings, questions) may change alone.
DossierCompose(r) ==
  /\ At(r, {"dossier"}, "compose")
  /\ \E reworded, elsewhere \in Rewording :
       LET row == dossier[req[r].cand]
           sets == IF row = NoRow THEN {}
                   ELSE DossierColumns(req[r].draft, row, reworded)
           write == IF row = NoRow THEN {"insDossier"}
                    ELSE IF sets # {} \/ elsewhere THEN {"updDossier"} ELSE {}
           T == write \cup (IF req[r].status = "analyzed" THEN {} ELSE {"updCand"})
       IN \E w \in Upcoming(T) :
            Become(r, Flushing([req[r] EXCEPT !.sets = sets], "flush", T, w))
  /\ UNCHANGED <<tables, audit>>

\* Variant: no audit event.
DossierCommitUnaudited(r) ==
  /\ At(r, {"dossier"}, "flush")
  /\ req[r].todo = {}
  /\ CommitTables(r)
  /\ Become(r, Committed(req[r], "refresh"))
  /\ UNCHANGED audit

DossierCommit(r) ==
  /\ At(r, {"dossier"}, "flush")
  /\ Commit(r, "dossier_generated", req[r].draft, {}, Committed(req[r], "refresh"))

\* Dossier and candidate are read back.
DossierRefresh(r) ==
  /\ At(r, {"dossier"}, "refresh")
  /\ Answer(r, IF dossier[req[r].cand] # NoRow /\ Exists(req[r].cand)
               THEN "ok" ELSE "500")
  /\ UNCHANGED <<tables, audit>>

GenerateDossier(r) ==
  \/ DossierGetCandidate(r)
  \/ DossierCheckConsent(r)
  \/ DossierLoadDocument(r)
  \/ DossierCompose(r)
  \/ DossierCommit(r)
  \/ DossierRefresh(r)
=============================================================================
