-------------------------- MODULE DecisionService ---------------------------
(* decision_service.record_decision: a human's decision on a dossier.       *)
EXTENDS TalentStore

DecisionGetCandidate(r) == GetCandidate(r, "decision", "decide")

\* Variants: a decision quotes the score, needs no dossier, or is never added.
DecisionReadScore(r) ==
  /\ At(r, {"decision"}, "decide")
  /\ LET c == req[r].cand
     IN IF dossier[c] = NoRow THEN Answer(r, "409")
        ELSE Become(r, Flushing([req[r] EXCEPT !.draft = score[c].recommendation],
                                "flush", {"insDecision"}, "insDecision"))
  /\ UNCHANGED <<tables, audit>>
DecisionUnguarded(r) ==
  /\ At(r, {"decision"}, "decide")
  /\ LET seen == dossier[req[r].cand]
         quoted == IF seen = NoRow THEN NoRow ELSE seen.recommendation
     IN Become(r, Flushing([req[r] EXCEPT !.draft = quoted], "flush",
                           {"insDecision"}, "insDecision"))
  /\ UNCHANGED <<tables, audit>>
DecisionNotAdded(r) ==
  /\ At(r, {"decision"}, "decide")
  /\ IF dossier[req[r].cand] = NoRow THEN Answer(r, "409")
     ELSE Become(r, [req[r] EXCEPT !.pc = "flush",
                                   !.draft = dossier[req[r].cand].recommendation])
  /\ UNCHANGED <<tables, audit>>

\* The recommendation of the dossier found now is what the decision keeps.
DecisionReadDossier(r) ==
  /\ At(r, {"decision"}, "decide")
  /\ LET seen == dossier[req[r].cand]
     IN IF seen = NoRow THEN Answer(r, "409")
        ELSE Become(r, Flushing([req[r] EXCEPT !.draft = seen.recommendation], "flush",
                                {"insDecision"}, "insDecision"))
  /\ UNCHANGED <<tables, audit>>

DecisionCommit(r) ==
  /\ At(r, {"decision"}, "flush")
  /\ Commit(r, "decision_recorded", req[r].draft, {}, Committed(req[r], "refresh"))

DecisionRefresh(r) ==
  /\ At(r, {"decision"}, "refresh")
  /\ Answer(r, IF \E d \in decisions : d.by = r THEN "ok" ELSE "500")
  /\ UNCHANGED <<tables, audit>>

RecordDecision(r) ==
  \/ DecisionGetCandidate(r)
  \/ DecisionReadDossier(r)
  \/ DecisionCommit(r)
  \/ DecisionRefresh(r)
=============================================================================
