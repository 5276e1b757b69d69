---------------------------- MODULE MCTalentTrust ----------------------------
(* Small instances of TalentTrust for TLC.                                   *)
EXTENDS TalentTrustInv, TLC

CONSTANTS o1, o2, v1, v2, c1, c2, s1, s2, s3, low, high

OneOrg == [c \in Candidate |-> o1]
OneVacancy == [c \in Candidate |-> v1]
OwnerByCandidate == [c \in Candidate |-> IF c = c1 THEN o1 ELSE o2]
VacancyByCandidate == [c \in Candidate |-> IF c = c1 THEN v1 ELSE v2]
AllUploaded == Candidate
OnlyFirst == {c1}

\* Two values below a threshold of recommendation_for and one above it.
Thresholds == [v \in Value |-> IF v = s3 THEN high ELSE low]

\* The mock providers answer alike every time; real ones may not.
Deterministic == {FALSE}
Wavering == BOOLEAN

Everything == AllKinds
Lifecycle == {"score", "dossier", "decision", "export", "delete"}
Sweeping == {"ttl", "delete"}
Scores == {"score"}
Answering == {"ttl", "dossier", "decision", "score"}

\* Requests are interchangeable: no constant of an instance names one.
Symmetry == Permutations(Req)

\* Which status a request was answered with matters to no step.
Unanswered == <<tables, audit, [r \in Req |-> [req[r] EXCEPT !.resp = "none"]]>>
=============================================================================
