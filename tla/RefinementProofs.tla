-------------------------- MODULE RefinementProofs --------------------------
(***************************************************************************)
(* The services implement CandidateLifecycle: under the mapping of         *)
(* TalentTrust every step of a handler is a stutter or, when it commits,   *)
(* one of the promise's atomic operations on the candidate it is about.    *)
(* And the safety behind EveryRequestAnswered: every step takes a request  *)
(* nearer to its end, and nothing holds one up but others under way.       *)
(***************************************************************************)
EXTENDS TraceProofs

USE StoreAssumption

\* What the mapping makes of the tables.
Stages == [c \in Candidate |-> Stage(c)]
ScoredOnes == {c \in Candidate : score[c] # NoRow}
Decided == {<<d.cand, d.by>> : d \in decisions}

\* The promise sees nothing of a step that leaves tables and audit log alone.
LEMMA LocalStutters ==
  ASSUME UNCHANGED <<tables, audit>>
  PROVE  UNCHANGED <<Stages, ScoredOnes, Decided>>
BY DEF tables, Stages, Stage, Deleted, Recorded, Exists, ScoredOnes, Decided

\* Of a commit the promise sees what it does to its candidate.
LEMMA OneCandidateMoves ==
  ASSUME IInv, IInv', NEW c \in Candidate, \A d \in Candidate : d # c => Untouched(d)
  PROVE  /\ Stages' = [Stages EXCEPT ![c] = Stage(c)']
         /\ \A d : d # c => (d \in ScoredOnes' <=> d \in ScoredOnes)
         /\ c \in ScoredOnes' <=> score'[c] # NoRow
         /\ \A p : p[1] # c => (p \in Decided' <=> p \in Decided)
<1>1. \A d \in Candidate : d # c => Stage(d)' = Stage(d)
  BY DEF Untouched, Stage, Exists
<1>2. Stages' = [Stages EXCEPT ![c] = Stage(c)']
  BY <1>1 DEF Stages
<1>3. /\ \A d : d # c => (d \in ScoredOnes' <=> d \in ScoredOnes)
      /\ c \in ScoredOnes' <=> score'[c] # NoRow
  BY DEF Untouched, ScoredOnes
<1>4. ASSUME NEW p, p[1] # c PROVE p \in Decided' <=> p \in Decided
  <2>1. ASSUME NEW d, d.cand # c
        PROVE  d \in decisions' <=> d \in decisions
    <3>1. d \in decisions => d.cand \in Candidate
      BY DEF IInv, TypeInv, TypeOK, Decision
    <3>2. d \in decisions' => d.cand \in Candidate
      BY DEF IInv, TypeInv, TypeOK, Decision
    <3>3. CASE d.cand \in Candidate
      <4>1. DecisionsOn(d.cand)' = DecisionsOn(d.cand)
        BY <2>1, <3>3 DEF Untouched
      <4>2. d \in decisions <=> d \in DecisionsOn(d.cand)
        BY DEF DecisionsOn
      <4>3. d \in decisions' <=> d \in DecisionsOn(d.cand)'
        BY DEF DecisionsOn
      <4>4. QED BY <4>1, <4>2, <4>3
    <3>4. QED BY <3>1, <3>2, <3>3
  <2>2. QED BY <1>4, <2>1 DEF Decided
<1>5. QED BY <1>2, <1>3, <1>4

\* A commit that leaves the stage, the score and the decisions of its candidate
\* as they were is a stutter.
LEMMA CommitStutters ==
  ASSUME IInv, IInv', NEW c \in Candidate, \A d \in Candidate : d # c => Untouched(d),
         Stage(c)' = Stage(c), score'[c] # NoRow <=> score[c] # NoRow,
         DecisionsOn(c)' = DecisionsOn(c)
  PROVE  UNCHANGED <<Stages, ScoredOnes, Decided>>
<1>1. Stages' = Stages
  BY OneCandidateMoves DEF Stages
<1>2. \A d : d \in ScoredOnes' <=> d \in ScoredOnes
  BY OneCandidateMoves DEF ScoredOnes
<1>3. decisions' = decisions
  <2>1. \A d \in Candidate : DecisionsOn(d)' = DecisionsOn(d)
    BY DEF Untouched
  <2>2. ASSUME NEW x PROVE x \in decisions' <=> x \in decisions
    <3>1. x \in decisions => x.cand \in Candidate /\ x \in DecisionsOn(x.cand)
      BY DEF IInv, TypeInv, TypeOK, Decision, DecisionsOn
    <3>2. x \in decisions' => x.cand \in Candidate /\ x \in DecisionsOn(x.cand)'
      BY DEF IInv, TypeInv, TypeOK, Decision, DecisionsOn
    <3>3. x \in DecisionsOn(x.cand) => x \in decisions
      BY DEF DecisionsOn
    <3>4. x \in DecisionsOn(x.cand)' => x \in decisions'
      BY DEF DecisionsOn
    <3>5. QED BY <2>1, <3>1, <3>2, <3>3, <3>4
  <2>3. QED BY <2>2
<1>4. QED BY <1>1, <1>2, <1>3 DEF ScoredOnes, Decided

\* The commit of an upload is Receive.
LEMMA UploadReceives ==
  ASSUME IInv, IInv', NEW r \in Req, CreateCandidateCommit(r)
  PROVE  \/ \E c \in Candidate : Promise!Receive(c)
         \/ UNCHANGED <<Stages, ScoredOnes, Decided>>
<1>1. PICK q : Commit(r, "cv_parsed", NoRow, {}, q)
  BY DEF CreateCandidateCommit
<1>2. /\ req[r].kind = "upload" /\ req[r].pc = "flush" /\ Acquainted(req[r])
      /\ Shape(req[r])
  BY AtInv DEF CreateCandidateCommit, At
<1>3. PICK c, D, n :
        c \in Candidate /\ c = n.cand /\ D = n.done /\ n = req[r]
  BY <1>2 DEF Shape
<1>4. D \subseteq {"insCand"} /\ ~Known(c)
  BY <1>2, <1>3 DEF Shape, Planned, Acquainted
<1>5. Effect(c, D, n, "cv_parsed") /\ \A d \in Candidate : d # c => Untouched(d)
  BY <1>1, <1>3, CommitEffect, CommitFrame DEF IInv
<1>6. /\ score'[c] = score[c] /\ DecisionsOn(c)' = DecisionsOn(c)
      /\ Stage(c) = "unborn" /\ ~Deleted(c)'
      /\ cand'[c] = IF "insCand" \in D THEN "received" ELSE "none"
  BY <1>4, <1>5 DEF Effect, Stage, Known, Exists
<1>7. CASE "insCand" \notin D
  <2>1. Stage(c)' = Stage(c)
    BY <1>6, <1>7 DEF Stage, Exists
  <2>2. QED BY <1>3, <1>5, <1>6, <2>1, CommitStutters
<1>8. CASE "insCand" \in D
  <2>1. Stage(c)' = "received"
    BY <1>6, <1>8 DEF Stage, Exists
  <2>2. /\ Stages' = [Stages EXCEPT ![c] = "received"]
        /\ \A d : d \in ScoredOnes' <=> d \in ScoredOnes
    BY <1>3, <1>5, <1>6, <2>1, OneCandidateMoves DEF ScoredOnes
  <2>3. ScoredOnes' = ScoredOnes
    BY <2>2 DEF ScoredOnes
  <2>4. Decided' = Decided
    <3>1. decisions' = decisions
      BY <1>1, <1>3, <1>4 DEF Commit, CommitTables
    <3>2. QED BY <3>1 DEF Decided
  <2>5. Stages[c] = "unborn"
    BY <1>3, <1>6 DEF Stages
  <2>6. Promise!Receive(c)
    BY <2>2, <2>3, <2>4, <2>5 DEF Promise!Receive, Stages, ScoredOnes, Decided
  <2>7. QED BY <1>3, <2>6
<1>9. QED BY <1>7, <1>8

\* The commit of a score is Score, whoever else has scored the candidate.
LEMMA ScoreScores ==
  ASSUME IInv, IInv', NEW r \in Req, ScoreCommit(r)
  PROVE  \/ \E c \in Candidate : Promise!Score(c)
         \/ UNCHANGED <<Stages, ScoredOnes, Decided>>
<1>1. PICK q, rows : Commit(r, "score_computed", req[r].draft, rows, q)
  BY DEF ScoreCommit
<1>2. /\ req[r].kind \in Scoring /\ req[r].pc = "score_flush" /\ Shape(req[r])
      /\ OnCandidate(req[r]) /\ HeldRows(req[r], req[r].cand)
  BY AtInv DEF ScoreCommit, At, OnCandidate, Scoring
<1>3. PICK c, D, n : c \in Candidate /\ c = n.cand /\ D = n.done /\ n = req[r]
  BY <1>2 DEF Shape
<1>4. /\ D \subseteq {"vacancy", "insScore", "updScore"} /\ n.draft \in Result
      /\ "insScore" \in D => Exists(c)
      /\ "updScore" \in D => score[c] # NoRow
  BY <1>1, <1>2, <1>3 DEF Shape, Planned, HeldRows
<1>5. Effect(c, D, n, "score_computed") /\ \A d \in Candidate : d # c => Untouched(d)
  BY <1>1, <1>3, CommitEffect, CommitFrame DEF IInv
<1>6. /\ DecisionsOn(c)' = DecisionsOn(c) /\ Stage(c)' = Stage(c)
      /\ score'[c] = IF "insScore" \in D THEN n.draft
                     ELSE IF "updScore" \in D THEN PatchScore(score[c], n) ELSE score[c]
  <2>1. /\ DecisionsOn(c)' = DecisionsOn(c) /\ (Deleted(c)' <=> Deleted(c))
        /\ cand'[c] = cand[c]
        /\ score'[c] = IF "insScore" \in D THEN n.draft
                       ELSE IF "updScore" \in D THEN PatchScore(score[c], n) ELSE score[c]
    BY <1>4, <1>5 DEF Effect
  <2>2. QED BY <2>1 DEF Stage, Exists
<1>7. CASE "insScore" \notin D /\ "updScore" \notin D
  BY <1>3, <1>5, <1>6, <1>7, CommitStutters
<1>8. CASE "insScore" \in D \/ "updScore" \in D
  <2>1. Sound(c)
    BY <1>3, SoundParts DEF IInv, TypeInv
  <2>2. Exists(c) /\ ~Deleted(c) /\ cand[c] \in CandStatus
    BY <1>3, <1>4, <1>8, <2>1 DEF Sound, IInv, TypeInv, TypeOK
  <2>3. Stages[c] \in {"received", "analyzed"}
    BY <1>3, <2>2 DEF Stages, Stage, Exists, CandStatus
  <2>4. Stages' = Stages
    BY <1>3, <1>5, <1>6, OneCandidateMoves DEF Stages
  <2>5. score'[c] # NoRow
    <3>1. n \in Request /\ score[c] \in Result \cup {NoRow}
      BY <1>3 DEF IInv, TypeInv, TypeOK
    <3>2. NoRow \notin Result
      OBVIOUS
    <3>3. QED BY <1>4, <1>6, <1>8, <3>1, <3>2, PatchedRow
  <2>6. ScoredOnes' = ScoredOnes \cup {c}
    <3>1. \A d : d \in ScoredOnes' <=> d \in ScoredOnes \/ d = c
      BY <1>3, <1>5, <2>5, OneCandidateMoves
    <3>2. QED BY <3>1
  <2>7. Decided' = Decided
    <3>1. decisions' = decisions
      BY <1>1, <1>3, <1>4 DEF Commit, CommitTables
    <3>2. QED BY <3>1 DEF Decided
  <2>8. Promise!Score(c)
    BY <2>3, <2>4, <2>6, <2>7 DEF Promise!Score, Promise!Alive, Stages, ScoredOnes, Decided
  <2>9. QED BY <1>3, <2>8
<1>9. QED BY <1>7, <1>8

\* The commit of a dossier is Analyze: the score was committed before.
LEMMA DossierAnalyzes ==
  ASSUME IInv, IInv', NEW r \in Req, DossierCommit(r)
  PROVE  \/ \E c \in Candidate : Promise!Analyze(c)
         \/ UNCHANGED <<Stages, ScoredOnes, Decided>>
<1>1. PICK q, v : Commit(r, "dossier_generated", v, {}, q)
  BY DEF DossierCommit
<1>2. /\ req[r].kind = "dossier" /\ req[r].pc = "flush" /\ Shape(req[r])
      /\ OnCandidate(req[r]) /\ HeldRows(req[r], req[r].cand)
      /\ Remembers(req[r], req[r].cand)
  BY AtInv DEF DossierCommit, At, OnCandidate
<1>3. PICK c, D, n :
        c \in Candidate /\ c = n.cand /\ D = n.done /\ n = req[r]
  BY <1>2 DEF Shape
<1>4. /\ D \subseteq {"insDossier", "updDossier", "updCand"}
      /\ "updCand" \in D => Exists(c)
      /\ Exists(c) => score[c] # NoRow
  BY <1>1, <1>2, <1>3 DEF Shape, Planned, HeldRows, Remembers
<1>5. Effect(c, D, n, "dossier_generated") /\ \A d \in Candidate : d # c => Untouched(d)
  BY <1>1, <1>3, CommitEffect, CommitFrame DEF IInv
<1>6. /\ DecisionsOn(c)' = DecisionsOn(c) /\ (Deleted(c)' <=> Deleted(c))
      /\ score'[c] = score[c]
      /\ cand'[c] = IF "updCand" \in D THEN "analyzed" ELSE cand[c]
  BY <1>4, <1>5 DEF Effect
<1>7. CASE "updCand" \notin D
  <2>1. Stage(c)' = Stage(c)
    BY <1>6, <1>7 DEF Stage, Exists
  <2>2. QED BY <1>3, <1>5, <1>6, <2>1, CommitStutters
<1>8. CASE "updCand" \in D
  <2>1. Sound(c)
    BY <1>3, SoundParts DEF IInv, TypeInv
  <2>2. Exists(c) /\ ~Deleted(c) /\ cand[c] \in CandStatus /\ score[c] # NoRow
    BY <1>3, <1>4, <1>8, <2>1 DEF Sound, IInv, TypeInv, TypeOK
  <2>3. Stages[c] \in {"received", "analyzed"} /\ c \in ScoredOnes
    BY <1>3, <2>2 DEF Stages, Stage, Exists, CandStatus, ScoredOnes
  <2>4. Stage(c)' = "analyzed"
    BY <1>6, <1>8, <2>2 DEF Stage, Exists
  <2>5. Stages' = [Stages EXCEPT ![c] = "analyzed"]
    BY <1>3, <1>5, <2>4, OneCandidateMoves
  <2>6. ScoredOnes' = ScoredOnes
    <3>1. \A d : d \in ScoredOnes' <=> d \in ScoredOnes
      BY <1>3, <1>5, <1>6, <2>2, <2>3, OneCandidateMoves
    <3>2. QED BY <3>1
  <2>7. Decided' = Decided
    <3>1. decisions' = decisions
      BY <1>1, <1>3, <1>4 DEF Commit, CommitTables
    <3>2. QED BY <3>1 DEF Decided
  <2>8. Promise!Analyze(c)
    BY <2>3, <2>5, <2>6, <2>7 DEF Promise!Analyze, Promise!Alive, Stages, ScoredOnes, Decided
  <2>9. QED BY <1>3, <2>8
<1>9. QED BY <1>7, <1>8

\* The commit of a decision is Decide: the dossier it read is still there.
LEMMA DecisionDecides ==
  ASSUME IInv, IInv', NEW r \in Req, DecisionCommit(r)
  PROVE  \E c \in Candidate : \E d \in Req : Promise!Decide(c, d)
<1>1. PICK q, v : Commit(r, "decision_recorded", v, {}, q)
  BY DEF DecisionCommit
<1>2. /\ req[r].kind = "decision" /\ req[r].pc = "flush" /\ Shape(req[r])
      /\ OnCandidate(req[r]) /\ HeldRows(req[r], req[r].cand)
      /\ Remembers(req[r], req[r].cand) /\ req[r].todo = {}
  BY AtInv DEF DecisionCommit, At, OnCandidate, Commit
<1>3. PICK c, D, n :
        c \in Candidate /\ c = n.cand /\ D = n.done /\ n = req[r]
  BY <1>2 DEF Shape
<1>4. D = {"insDecision"} /\ Exists(c) /\ dossier[c] # NoRow
  BY <1>2, <1>3 DEF Shape, Planned, HeldRows, Remembers
<1>5. Effect(c, D, n, "decision_recorded") /\ \A d \in Candidate : d # c => Untouched(d)
  BY <1>1, <1>3, CommitEffect, CommitFrame DEF IInv
<1>6. (Deleted(c)' <=> Deleted(c)) /\ score'[c] = score[c] /\ cand'[c] = cand[c]
  BY <1>4, <1>5 DEF Effect
<1>7. Stage(c)' = Stage(c)
  BY <1>6 DEF Stage, Exists
<1>8. Stages[c] = "analyzed"
  <2>1. Sound(c)
    BY <1>3, SoundParts DEF IInv, TypeInv
  <2>2. QED BY <1>3, <1>4, <2>1 DEF Sound, Stages, Stage
<1>9. Stages' = Stages
  BY <1>3, <1>5, <1>7, OneCandidateMoves DEF Stages
<1>10. ScoredOnes' = ScoredOnes
  <2>1. \A d : d \in ScoredOnes' <=> d \in ScoredOnes
    BY <1>3, <1>5, <1>6, OneCandidateMoves DEF ScoredOnes
  <2>2. QED BY <2>1
<1>11. Decided' = Decided \cup {<<c, r>>}
  <2>1. decisions' = decisions \cup {[cand |-> c, by |-> r, ai |-> n.draft]}
    BY <1>1, <1>3, <1>4 DEF Commit, CommitTables
  <2>2. PICK d : d = [cand |-> c, by |-> r, ai |-> n.draft]
    OBVIOUS
  <2>3. decisions' = decisions \cup {d} /\ d.cand = c /\ d.by = r
    BY <2>1, <2>2
  <2>4. \A p : p \in Decided' <=> p \in Decided \/ p = <<d.cand, d.by>>
    BY <2>3 DEF Decided
  <2>5. QED BY <2>3, <2>4
<1>12. Promise!Decide(c, r)
  BY <1>8, <1>9, <1>10, <1>11 DEF Promise!Decide, Stages, ScoredOnes, Decided
<1>13. QED BY <1>3, <1>12

\* The commit of an export is seen by nobody.
LEMMA ExportStutters ==
  ASSUME IInv, IInv', NEW r \in Req, ExportCommit(r)
  PROVE  UNCHANGED <<Stages, ScoredOnes, Decided>>
<1>1. PICK q, v : Commit(r, "pdf_exported", v, {}, q)
  BY DEF ExportCommit
<1>2. /\ req[r].kind = "export" /\ req[r].pc = "flush" /\ Shape(req[r])
      /\ OnCandidate(req[r])
  BY AtInv DEF ExportCommit, At, OnCandidate
<1>3. PICK c, D, n :
        c \in Candidate /\ c = n.cand /\ D = n.done /\ n = req[r]
  BY <1>2 DEF Shape
<1>4. D = {}
  BY <1>2, <1>3 DEF Shape, Planned
<1>5. Effect(c, D, n, "pdf_exported") /\ \A d \in Candidate : d # c => Untouched(d)
  BY <1>1, <1>3, CommitEffect, CommitFrame DEF IInv
<1>6. /\ DecisionsOn(c)' = DecisionsOn(c) /\ (Deleted(c)' <=> Deleted(c))
      /\ score'[c] = score[c] /\ cand'[c] = cand[c]
  BY <1>4, <1>5 DEF Effect
<1>7. Stage(c)' = Stage(c)
  BY <1>6 DEF Stage, Exists
<1>8. QED BY <1>3, <1>5, <1>6, <1>7, CommitStutters

\* The commit of a deletion is Delete, or comes too late to change anything.
LEMMA DeletionDeletes ==
  ASSUME IInv, IInv', NEW r \in Req, DeleteCommit(r)
  PROVE  \/ \E c \in Candidate : Promise!Delete(c)
         \/ UNCHANGED <<Stages, ScoredOnes, Decided>>
<1>1. PICK rows, q : Commit(r, "candidate_deleted", NoRow, rows, q)
  BY DEF DeleteCommit
<1>2. /\ req[r].kind \in Deleting /\ req[r].pc = "flush" /\ Shape(req[r])
      /\ OnCandidate(req[r]) /\ HeldRows(req[r], req[r].cand) /\ Acquainted(req[r])
      /\ Remembers(req[r], req[r].cand) /\ req[r].todo = {}
  BY AtInv DEF DeleteCommit, At, OnCandidate, Deleting, Commit
<1>3. PICK c, D, n :
        c \in Candidate /\ c = n.cand /\ D = n.done /\ n = req[r]
  BY <1>2 DEF Shape
<1>4. /\ D \subseteq Purge /\ Known(c)
      /\ "delCand" \notin D => ~Exists(c)
      /\ D # {} => Exists(c)
  BY <1>2, <1>3 DEF Shape, Planned, HeldRows, Remembers, Acquainted, Loose, Deleting
<1>5. Effect(c, D, n, "candidate_deleted") /\ \A d \in Candidate : d # c => Untouched(d)
  BY <1>1, <1>3, CommitEffect, CommitFrame DEF IInv
<1>6. Deleted(c)' /\ Stage(c)' = "deleted"
  BY <1>5 DEF Effect, Stage
<1>7. CASE ~Exists(c)
  <2>1. D = {} /\ Deleted(c)
    BY <1>4, <1>7 DEF Known
  <2>2. DecisionsOn(c)' = DecisionsOn(c) /\ score'[c] = score[c]
    BY <1>5, <2>1 DEF Effect
  <2>3. Stage(c)' = Stage(c)
    BY <1>6, <2>1 DEF Stage
  <2>4. QED BY <1>3, <1>5, <2>2, <2>3, CommitStutters
<1>8. CASE Exists(c)
  <2>1. "delCand" \in D
    BY <1>4, <1>8
  <2>2. score'[c] = NoRow
    BY <1>4, <1>5, <2>1 DEF Effect, Purge
  <2>3. Stages[c] \in {"received", "analyzed"}
    <3>1. Sound(c) /\ cand[c] \in CandStatus
      BY <1>3, SoundParts DEF IInv, TypeInv, TypeOK
    <3>2. QED BY <1>3, <1>8, <3>1 DEF Sound, Stages, Stage, Exists, CandStatus
  <2>4. Stages' = [Stages EXCEPT ![c] = "deleted"]
    BY <1>3, <1>5, <1>6, OneCandidateMoves
  <2>5. ScoredOnes' = ScoredOnes \ {c}
    <3>1. \A d : d \in ScoredOnes' <=> d \in ScoredOnes /\ d # c
      BY <1>3, <1>5, <2>2, OneCandidateMoves
    <3>2. QED BY <3>1
  <2>6. Decided' = {p \in Decided : p[1] # c}
    <3>1. decisions' = {d \in decisions : d.cand # c}
      BY <1>1, <1>3, <1>4, <2>1 DEF Commit, CommitTables, Purge
    <3>2. QED BY <3>1 DEF Decided
  <2>7. Promise!Delete(c)
    BY <2>3, <2>4, <2>5, <2>6 DEF Promise!Delete, Promise!Alive, Stages, ScoredOnes, Decided
  <2>8. QED BY <1>3, <2>7
<1>9. QED BY <1>7, <1>8

\* A step leaves tables and audit log alone or is a commit.
LEMMA CommitOrLocal ==
  ASSUME [Next]_vars
  PROVE  \/ UNCHANGED <<tables, audit>>
         \/ \E r \in Req :
              \/ CreateCandidateCommit(r) \/ ScoreCommit(r) \/ DossierCommit(r)
              \/ DecisionCommit(r) \/ ExportCommit(r) \/ DeleteCommit(r)
<1>1. CASE UNCHANGED vars
  BY <1>1 DEF vars, tables
<1>2. ASSUME NEW r \in Req, Arrive(r) \/ StartTtl(r) \/ BreakDeadlock(r) \/ Fail(r)
      PROVE  UNCHANGED <<tables, audit>>
  BY <1>2 DEF Arrive, StartTtl, BreakDeadlock, Fail
<1>3. ASSUME NEW r \in Req, Execute(r) \/ CreateCandidate(r) \/ ScoreCandidate(r)
      PROVE  \/ UNCHANGED <<tables, audit>>
             \/ CreateCandidateCommit(r) \/ ScoreCommit(r)
  BY <1>3 DEF Execute, CreateCandidate, ParseCv, CreateCandidateRefresh, ScoreCandidate,
     ScoreGetCandidate, GetCandidate, ScoreCheckConsent, ScoreLoadDocument, ScoreNarrate,
     ScoreRefresh
<1>4. ASSUME NEW r \in Req, GenerateDossier(r) \/ RecordDecision(r)
      PROVE  \/ UNCHANGED <<tables, audit>>
             \/ DossierCommit(r) \/ DecisionCommit(r)
  BY <1>4 DEF GenerateDossier, DossierGetCandidate, DossierCheckConsent,
     DossierLoadDocument, DossierCompose, DossierRefresh, RecordDecision,
     DecisionGetCandidate, GetCandidate, DecisionReadDossier, DecisionRefresh
<1>5. ASSUME NEW r \in Req, ExportDossierPdf(r) \/ DeleteCandidate(r)
      PROVE  \/ UNCHANGED <<tables, audit>>
             \/ ExportCommit(r) \/ DeleteCommit(r)
  BY <1>5 DEF ExportDossierPdf, ExportGetCandidate, GetCandidate, ExportReadDossier,
     ExportReadScore, ExportReadDecision, DeleteCandidate, DeleteGetCandidate, FindExpired
<1>6. QED BY <1>1, <1>2, <1>3, <1>4, <1>5 DEF Next, Advance

\* Every step is one of the promise's, or a stutter.
LEMMA StepImplements ==
  ASSUME IInv, IInv', [Next]_vars PROVE [Promise!Next]_(Promise!lifecycle)
<1>1. UNCHANGED <<Stages, ScoredOnes, Decided>> => UNCHANGED Promise!lifecycle
  BY DEF Promise!lifecycle, Stages, ScoredOnes, Decided
<1>2. CASE UNCHANGED <<tables, audit>>
  BY <1>1, <1>2, LocalStutters
<1>3. ASSUME NEW r \in Req,
             \/ CreateCandidateCommit(r) \/ ScoreCommit(r) \/ DossierCommit(r)
             \/ DecisionCommit(r) \/ ExportCommit(r) \/ DeleteCommit(r)
      PROVE  Promise!Next \/ UNCHANGED <<Stages, ScoredOnes, Decided>>
  BY <1>3, UploadReceives, ScoreScores, DossierAnalyzes, DecisionDecides, ExportStutters,
     DeletionDeletes
  DEF Promise!Next
<1>4. QED BY <1>1, <1>2, <1>3, CommitOrLocal

\* The backend starts where the promise does.
LEMMA InitImplements == ASSUME Init PROVE Promise!Init
<1>1. \A c \in Candidate : ~Deleted(c)
  BY DEF Init, AuditEntry, Deleted, Recorded
<1>2. Stages = [c \in Candidate |-> IF c \in Uploaded THEN "received" ELSE "unborn"]
  BY <1>1 DEF Stages, Stage, Init, Exists
<1>3. ScoredOnes = {} /\ Decided = {}
  BY DEF Init, ScoredOnes, Decided
<1>4. QED BY <1>2, <1>3 DEF Promise!Init, Stages, ScoredOnes, Decided

\* The services, interleaved statement by statement, implement the promise: what
\* TLC checks of ImplementsLifecycle holds of every number of requests.
THEOREM LifecycleImplemented == Spec => ImplementsLifecycle
<1>1. Init => Promise!Init
  BY InitImplements
<1>2. IInv /\ IInv' /\ [Next]_vars => [Promise!Next]_(Promise!lifecycle)
  BY StepImplements
<1>3. QED BY <1>1, <1>2, Inductive, PTL DEF Spec, ImplementsLifecycle, Promise!Spec

-----------------------------------------------------------------------------
\* What a commit must do for a row to disappear lawfully.
RemovalAudited ==
  /\ audit \subseteq audit'
  /\ \A c \in Candidate :
       (Exists(c) /\ ~Exists(c)') \/ ~(DecisionsOn(c) \subseteq DecisionsOn(c)')
         => \E a \in audit' \ audit : a.event = "candidate_deleted" /\ a.cand = c

\* A commit that is not a deletion's removes neither a candidate nor a decision.
LEMMA OthersRemoveNothing ==
  ASSUME IInv, NEW r \in Req,
         \/ CreateCandidateCommit(r) \/ ScoreCommit(r) \/ DossierCommit(r)
         \/ DecisionCommit(r) \/ ExportCommit(r)
  PROVE  RemovalAudited
<1>1. PICK event, result, rows, q : Commit(r, event, result, rows, q)
  BY DEF CreateCandidateCommit, ScoreCommit, DossierCommit, DecisionCommit, ExportCommit
<1>2. /\ Shape(req[r]) /\ OnCandidate(req[r])
      /\ \/ req[r].pc = "score_flush"
         \/ req[r].pc = "flush" /\ req[r].kind \in {"upload", "dossier", "decision", "export"}
  BY AtInv DEF CreateCandidateCommit, ScoreCommit, DossierCommit, DecisionCommit,
     ExportCommit, At, OnCandidate
<1>3. PICK c, D : c \in Candidate /\ c = req[r].cand /\ D = req[r].done
  BY <1>2 DEF Shape
<1>4. D \cap Purge = {}
  BY <1>2, <1>3 DEF Shape, Planned, Purge
<1>5. audit \subseteq audit'
  BY <1>1 DEF Commit
<1>6. CommitTables(r)
  BY <1>1 DEF Commit
<1>7. decisions \subseteq decisions'
  BY <1>3, <1>4, <1>6 DEF CommitTables, Purge
<1>8. ASSUME NEW d \in Candidate, Exists(d) PROVE Exists(d)'
  BY <1>3, <1>4, <1>6, <1>8 DEF CommitTables, Purge, Exists, IInv, TypeInv, TypeOK
<1>9. QED BY <1>5, <1>7, <1>8 DEF RemovalAudited, DecisionsOn

\* A deletion that removes something is the first of its candidate: its audit
\* event is new.
LEMMA DeletionIsAudited ==
  ASSUME IInv, NEW r \in Req, DeleteCommit(r) PROVE RemovalAudited
<1>1. PICK rows, q : Commit(r, "candidate_deleted", NoRow, rows, q)
  BY DEF DeleteCommit
<1>2. Shape(req[r]) /\ OnCandidate(req[r])
  BY AtInv DEF DeleteCommit, At, OnCandidate, Deleting
<1>3. PICK c : c \in Candidate /\ c = req[r].cand
  BY <1>2 DEF Shape
<1>4. PICK e : e = AuditEntry("candidate_deleted", c, r, NoRow, rows, req[r].basis)
  OBVIOUS
<1>5. audit' = audit \cup {e} /\ e.event = "candidate_deleted" /\ e.cand = c
  BY <1>1, <1>3, <1>4 DEF Commit, AuditEntry
<1>6. ASSUME NEW d \in Candidate,
             (Exists(d) /\ ~Exists(d)') \/ ~(DecisionsOn(d) \subseteq DecisionsOn(d)')
      PROVE  d = c /\ Exists(d)
  <2>1. Sound(d)
    BY SoundParts DEF IInv, TypeInv
  <2>2. Exists(d)
    BY <1>6, <2>1 DEF Sound
  <2>3. CASE d # c
    <3>1. Untouched(d)
      BY <1>1, <1>3, <2>3, CommitFrame DEF IInv
    <3>2. QED BY <1>6, <3>1 DEF Untouched, Exists
  <2>4. QED BY <2>2, <2>3
<1>7. Exists(c) => e \notin audit
  <2>1. Sound(c)
    BY <1>3, SoundParts DEF IInv, TypeInv
  <2>2. QED BY <1>5, <2>1 DEF Sound, Deleted, Recorded
<1>8. QED BY <1>5, <1>6, <1>7 DEF RemovalAudited

\* Audit rows are never removed, and a candidate or a decision disappears only in
\* the transaction that audits the candidate's deletion.
THEOREM RemovalsAudited == Spec => OnlyAuditedDeletionRemoves
<1>1. ASSUME IInv, [Next]_vars PROVE RemovalAudited \/ UNCHANGED vars
  <2>1. CASE UNCHANGED <<tables, audit>>
    BY <2>1 DEF tables, RemovalAudited, Exists, DecisionsOn
  <2>2. QED BY <1>1, <2>1, CommitOrLocal, OthersRemoveNothing, DeletionIsAudited
<1>2. IInv /\ [Next]_vars =>
        [/\ audit \subseteq audit'
         /\ \A c \in Candidate :
              (Exists(c) /\ ~Exists(c)') \/ ~(DecisionsOn(c) \subseteq DecisionsOn(c)')
                => \E a \in audit' \ audit : a.event = "candidate_deleted" /\ a.cand = c]_vars
  BY <1>1 DEF RemovalAudited
<1>3. QED BY <1>2, Inductive, PTL DEF Spec, OnlyAuditedDeletionRemoves

-----------------------------------------------------------------------------
(* Every step takes a request nearer to its end.                            *)

\* One request gets nearer to its end and the others stay where they are.
Moves(r) ==
  /\ Nearer(req[r], req'[r])
  /\ \A s \in Req \ {r} : req'[s] = req[s]

\* The order of the positions.
LEMMA Places ==
  /\ Place["idle"] = 0 /\ Place["begin"] = 1 /\ Place["consent"] = 2
  /\ Place["document"] = 3 /\ Place["score_consent"] = 4 /\ Place["score_document"] = 5
  /\ Place["narrate"] = 6 /\ Place["score_flush"] = 7 /\ Place["score_refresh"] = 8
  /\ Place["compose"] = 9 /\ Place["decide"] = 10 /\ Place["export"] = 11
  /\ Place["export_score"] = 12 /\ Place["export_decision"] = 13 /\ Place["flush"] = 14
  /\ Place["refresh"] = 15 /\ Place["done"] = 16
BY DEF Place

\* A request whose record becomes one that is nearer to its end moves.
LEMMA BecomeMoves ==
  ASSUME TypeInv, NEW r \in Req, NEW q, Become(r, q), Nearer(req[r], q)
  PROVE  Moves(r)
<1>1. req'[r] = q /\ \A s \in Req \ {r} : req'[s] = req[s]
  BY DEF Become, TypeInv, TypeOK
<1> QED
  BY <1>1 DEF Moves

\* To be at a later position is to be nearer to the end.
LEMMA LaterMoves ==
  ASSUME TypeInv, NEW r \in Req, NEW q, Become(r, q), Place[req[r].pc] < Place[q.pc]
  PROVE  Moves(r)
BY BecomeMoves DEF Nearer

\* An answer is the end.
LEMMA AnswerMoves ==
  ASSUME TypeInv, NEW r \in Req, req[r].pc # "done", NEW code, Answer(r, code)
  PROVE  Moves(r)
<1>1. req[r] \in Request /\ req[r].pc \in Steps
  BY DEF TypeInv, TypeOK, Request
<1>2. Answered(req[r], code).pc = "done"
  BY <1>1 DEF Answered, Request
<1>3. Place[req[r].pc] < Place["done"]
  BY <1>1, Places DEF Steps
<1> QED
  BY <1>2, <1>3, LaterMoves DEF Answer

\* A handler that goes to a later position moves.
LEMMA GotoMoves ==
  ASSUME TypeInv, NEW r \in Req, NEW p, Goto(r, p), Place[req[r].pc] < Place[p]
  PROVE  Moves(r)
<1>1. [req[r] EXCEPT !.pc = p].pc = p
  BY DEF TypeInv, TypeOK, Request
<1> QED
  BY <1>1, LaterMoves DEF Goto

\* A handler that starts a flush further on moves.
LEMMA FlushingMoves ==
  ASSUME TypeInv, NEW r \in Req, NEW q, DOMAIN q = DOMAIN req[r], NEW p, NEW T, NEW w,
         Become(r, Flushing(q, p, T, w)), Place[req[r].pc] < Place[p]
  PROVE  Moves(r)
<1>1. Flushing(q, p, T, w).pc = p
  BY DEF TypeInv, TypeOK, Request, Flushing
<1> QED
  BY <1>1, LaterMoves

\* A handler that commits and goes on at a later position moves.
LEMMA CommittedMoves ==
  ASSUME TypeInv, NEW r \in Req, NEW p, Become(r, Committed(req[r], p)),
         Place[req[r].pc] < Place[p]
  PROVE  Moves(r)
<1>1. Committed(req[r], p).pc = p
  BY DEF TypeInv, TypeOK, Request, Committed
<1> QED
  BY <1>1, LaterMoves

\* The lookups move.
LEMMA GetCandidateMoves ==
  ASSUME TypeInv, NEW r \in Req, NEW k, NEW p \in {"score_consent", "decide", "export"},
         GetCandidate(r, k, p)
  PROVE  Moves(r)
<1>1. req[r].pc = "begin" /\ (Answer(r, "404") \/ Goto(r, p))
  BY DEF GetCandidate, At
<1> QED
  BY <1>1, Places, AnswerMoves, GotoMoves

\* The start of a request moves it.
LEMMA StartMoves ==
  ASSUME TypeInv, NEW r \in Req, Arrive(r) \/ StartTtl(r) PROVE Moves(r)
<1>1. req[r] \in Request /\ req[r].pc = "idle"
  BY DEF Arrive, StartTtl, TypeInv, TypeOK
<1>2. CASE Arrive(r)
  <2>1. PICK k, c, o :
          Become(r, [req[r] EXCEPT !.kind = k, !.cand = c, !.org = o, !.pc = "begin"])
    BY <1>2 DEF Arrive
  <2> DEFINE q == [req[r] EXCEPT !.kind = k, !.cand = c, !.org = o, !.pc = "begin"]
  <2>2. q.pc = "begin" /\ Become(r, q)
    BY <1>1, <2>1 DEF Request
  <2> HIDE DEF q
  <2> QED
    BY <1>1, <2>2, Places, LaterMoves
<1>3. CASE StartTtl(r)
  <2> DEFINE q == [req[r] EXCEPT !.kind = "ttl", !.pc = "begin"]
  <2>1. q.pc = "begin" /\ Become(r, q)
    BY <1>1, <1>3 DEF Request, StartTtl
  <2> HIDE DEF q
  <2> QED
    BY <1>1, <2>1, Places, LaterMoves
<1> QED
  BY <1>2, <1>3

\* The end of a request that fails moves it.
LEMMA AbortMoves ==
  ASSUME TypeInv, NEW r \in Req, Fail(r) \/ BreakDeadlock(r) PROVE Moves(r)
<1>1. CASE Fail(r)
  BY <1>1, AnswerMoves DEF Fail, Active
<1>2. CASE BreakDeadlock(r)
  <2>1. PICK s \in Req : Waits(r, s)
    BY <1>2 DEF BreakDeadlock
  <2>2. req[r].pc # "done"
    BY <2>1 DEF Waits, TypeInv, Shape
  <2> QED
    BY <1>2, <2>2, AnswerMoves DEF BreakDeadlock
<1> QED
  BY <1>1, <1>2

\* A statement that was sent need not be sent again.
LEMMA ExecuteMoves ==
  ASSUME TypeInv, NEW r \in Req, Execute(r) PROVE Moves(r)
<1>1. req[r] \in Request /\ req[r].pc # "done" /\ req[r].next \in req[r].todo
  BY DEF TypeInv, TypeOK, Execute
<1>2. CASE Refused(req[r].next, req[r].cand)
  BY <1>1, <1>2, AnswerMoves DEF Execute
<1>3. CASE ~Refused(req[r].next, req[r].cand)
  <2>1. PICK w, D :
          Become(r, [req[r] EXCEPT !.todo = req[r].todo \ {req[r].next}, !.next = w, !.done = D])
    BY <1>3 DEF Execute
  <2> DEFINE n == [req[r] EXCEPT !.todo = req[r].todo \ {req[r].next}, !.next = w, !.done = D]
  <2>2. /\ n.pc = req[r].pc /\ n.queue = req[r].queue
        /\ n.todo = req[r].todo \ {req[r].next}
    BY <1>1 DEF Request
  <2> HIDE DEF n
  <2>3. Nearer(req[r], n)
    BY <1>1, <2>2 DEF Nearer
  <2> QED
    BY <2>1, <2>3, BecomeMoves DEF n
<1> QED
  BY <1>2, <1>3

\* An upload moves.
LEMMA CreateCandidateMoves ==
  ASSUME TypeInv, NEW r \in Req, CreateCandidate(r) PROVE Moves(r)
<1>1. CASE ParseCv(r)
  BY <1>1, Places, AnswerMoves, FlushingMoves DEF ParseCv, At
<1>2. CASE CreateCandidateCommit(r)
  BY <1>2, Places, CommittedMoves DEF CreateCandidateCommit, At, Commit
<1>3. CASE CreateCandidateRefresh(r)
  BY <1>3, AnswerMoves DEF CreateCandidateRefresh, At
<1> QED
  BY <1>1, <1>2, <1>3 DEF CreateCandidate

\* Scoring moves, in a request of its own or in the one for a dossier.
LEMMA ScoreCandidateMoves ==
  ASSUME TypeInv, NEW r \in Req, ScoreCandidate(r) PROVE Moves(r)
<1>1. CASE ScoreGetCandidate(r)
  BY <1>1, GetCandidateMoves DEF ScoreGetCandidate
<1>2. CASE ScoreCheckConsent(r)
  BY <1>2, Places, AnswerMoves, GotoMoves DEF ScoreCheckConsent, Raise, At
<1>3. CASE ScoreLoadDocument(r)
  <2>1. req[r].pc = "score_document" /\ req[r] \in Request
    BY <1>3 DEF ScoreLoadDocument, At, TypeInv, TypeOK
  <2>2. CASE \E code : Answer(r, code)
    BY <2>1, <2>2, AnswerMoves
  <2> DEFINE q == [req[r] EXCEPT !.pc = "narrate"]
  <2>3. q.pc = "narrate" /\ q.cand = req[r].cand /\ q \in Request
    BY <2>1 DEF Request, Steps
  <2>4. req[r].cand \in Candidate
    BY <1>3 DEF ScoreLoadDocument, At, Scoring, TypeInv, Shape, OnCandidate
  <2> HIDE DEF q
  <2>5. Embedded(q, r).pc = "narrate"
    BY <2>3, <2>4, EmbeddedType
  <2>6. CASE Become(r, q) \/ Become(r, Embedded(q, r))
    BY <2>1, <2>3, <2>5, <2>6, Places, LaterMoves
  <2> QED
    BY <1>3, <2>2, <2>6 DEF ScoreLoadDocument, Raise, q
<1>4. CASE ScoreNarrate(r)
  <2>1. PICK v, S, W : \E w \in Upcoming(req[r].todo \cup W) :
          Become(r, Flushing([req[r] EXCEPT !.draft = v, !.sets = S], "score_flush",
                             req[r].todo \cup W, w))
    BY <1>4, NarratesDraft
  <2> DEFINE q == [req[r] EXCEPT !.draft = v, !.sets = S]
  <2>2. DOMAIN q = DOMAIN req[r] /\ req[r].pc = "narrate"
    BY <1>4 DEF ScoreNarrate, At
  <2>3. PICK w : Become(r, Flushing(q, "score_flush", req[r].todo \cup W, w))
    BY <2>1
  <2> HIDE DEF q
  <2> QED
    BY <2>2, <2>3, Places, FlushingMoves
<1>5. CASE ScoreCommit(r)
  BY <1>5, Places, CommittedMoves DEF ScoreCommit, At, Commit
<1>6. CASE ScoreRefresh(r)
  <2>1. req[r].pc = "score_refresh" /\ req[r] \in Request
    BY <1>6 DEF ScoreRefresh, At, TypeInv, TypeOK
  <2>2. CASE \E code : Answer(r, code)
    BY <2>1, <2>2, AnswerMoves
  <2>3. ASSUME NEW v, Become(r, [req[r] EXCEPT !.pc = "compose", !.draft = v])
        PROVE  Moves(r)
    <3> DEFINE q == [req[r] EXCEPT !.pc = "compose", !.draft = v]
    <3>1. q.pc = "compose" /\ Become(r, q)
      BY <2>1, <2>3 DEF Request
    <3> HIDE DEF q
    <3> QED
      BY <2>1, <3>1, Places, LaterMoves
  <2> QED
    BY <1>6, <2>2, <2>3 DEF ScoreRefresh
<1> QED
  BY <1>1, <1>2, <1>3, <1>4, <1>5, <1>6 DEF ScoreCandidate

\* The request for a dossier moves in its own steps too.
LEMMA GenerateDossierMoves ==
  ASSUME TypeInv, NEW r \in Req, GenerateDossier(r) PROVE Moves(r)
<1>1. CASE DossierGetCandidate(r)
  <2>1. req[r].pc = "begin" /\ req[r] \in Request
    BY <1>1 DEF DossierGetCandidate, At, TypeInv, TypeOK
  <2>2. CASE Answer(r, "404")
    BY <2>1, <2>2, AnswerMoves
  <2>3. CASE Become(r, [req[r] EXCEPT !.pc = "consent", !.status = cand[req[r].cand]])
    <3> DEFINE q == [req[r] EXCEPT !.pc = "consent", !.status = cand[req[r].cand]]
    <3>1. q.pc = "consent" /\ Become(r, q)
      BY <2>1, <2>3 DEF Request
    <3> HIDE DEF q
    <3> QED
      BY <2>1, <3>1, Places, LaterMoves
  <2> QED
    BY <1>1, <2>2, <2>3 DEF DossierGetCandidate
<1>2. CASE DossierCheckConsent(r)
  BY <1>2, Places, AnswerMoves, GotoMoves DEF DossierCheckConsent, At
<1>3. CASE DossierLoadDocument(r)
  <2>1. req[r].pc = "document" /\ req[r] \in Request
    BY <1>3 DEF DossierLoadDocument, At, TypeInv, TypeOK
  <2>2. CASE Answer(r, "404")
    BY <2>1, <2>2, AnswerMoves
  <2> DEFINE q == [req[r] EXCEPT !.pc = "score_consent"]
  <2>3. q.pc = "score_consent" /\ q.cand = req[r].cand /\ q \in Request
    BY <2>1 DEF Request, Steps
  <2>4. req[r].cand \in Candidate
    BY <1>3 DEF DossierLoadDocument, At, TypeInv, Shape, OnCandidate
  <2> HIDE DEF q
  <2>5. Embedded(q, r).pc = "score_consent"
    BY <2>3, <2>4, EmbeddedType
  <2>6. CASE Become(r, Embedded(q, r))
    BY <2>1, <2>5, <2>6, Places, LaterMoves
  <2> QED
    BY <1>3, <2>2, <2>6 DEF DossierLoadDocument, q
<1>4. CASE DossierCompose(r)
  <2>1. PICK S, T, w : Become(r, Flushing([req[r] EXCEPT !.sets = S], "flush", T, w))
    BY <1>4, ComposesDossier
  <2>2. DOMAIN [req[r] EXCEPT !.sets = S] = DOMAIN req[r] /\ req[r].pc = "compose"
    BY <1>4 DEF DossierCompose, At
  <2> QED
    BY <2>1, <2>2, Places, FlushingMoves
<1>5. CASE DossierCommit(r)
  BY <1>5, Places, CommittedMoves DEF DossierCommit, At, Commit
<1>6. CASE DossierRefresh(r)
  BY <1>6, AnswerMoves DEF DossierRefresh, At
<1> QED
  BY <1>1, <1>2, <1>3, <1>4, <1>5, <1>6 DEF GenerateDossier

\* The recording of a decision moves.
LEMMA RecordDecisionMoves ==
  ASSUME TypeInv, NEW r \in Req, RecordDecision(r) PROVE Moves(r)
<1>1. CASE DecisionGetCandidate(r)
  BY <1>1, GetCandidateMoves DEF DecisionGetCandidate
<1>2. CASE DecisionReadDossier(r)
  <2>1. req[r].pc = "decide"
    BY <1>2 DEF DecisionReadDossier, At
  <2>2. CASE Answer(r, "409")
    BY <2>1, <2>2, AnswerMoves
  <2>3. ASSUME NEW v, Become(r, Flushing([req[r] EXCEPT !.draft = v], "flush",
                                        {"insDecision"}, "insDecision"))
        PROVE  Moves(r)
    <3>1. DOMAIN [req[r] EXCEPT !.draft = v] = DOMAIN req[r]
      OBVIOUS
    <3> QED
      BY <2>1, <2>3, <3>1, Places, FlushingMoves
  <2> QED
    BY <1>2, <2>2, <2>3 DEF DecisionReadDossier
<1>3. CASE DecisionCommit(r)
  BY <1>3, Places, CommittedMoves DEF DecisionCommit, At, Commit
<1>4. CASE DecisionRefresh(r)
  BY <1>4, AnswerMoves DEF DecisionRefresh, At
<1> QED
  BY <1>1, <1>2, <1>3, <1>4 DEF RecordDecision

\* The export moves.
LEMMA ExportMoves ==
  ASSUME TypeInv, NEW r \in Req, ExportDossierPdf(r) PROVE Moves(r)
<1>1. CASE ExportGetCandidate(r)
  BY <1>1, GetCandidateMoves DEF ExportGetCandidate
<1>2. CASE ExportReadDossier(r)
  BY <1>2, Places, AnswerMoves, GotoMoves DEF ExportReadDossier, At
<1>3. CASE ExportReadScore(r)
  <2>1. req[r].pc = "export_score" /\ req[r] \in Request
    BY <1>3 DEF ExportReadScore, At, TypeInv, TypeOK
  <2> DEFINE q == [req[r] EXCEPT !.pc = "export_decision", !.draft = score[req[r].cand]]
  <2>2. q.pc = "export_decision" /\ Become(r, q)
    BY <1>3, <2>1 DEF Request, ExportReadScore
  <2> HIDE DEF q
  <2> QED
    BY <2>1, <2>2, Places, LaterMoves
<1>4. CASE ExportReadDecision(r)
  BY <1>4, Places, AnswerMoves, GotoMoves DEF ExportReadDecision, At
<1>5. CASE ExportCommit(r)
  BY <1>5, AnswerMoves DEF ExportCommit, At, Commit, Answer
<1> QED
  BY <1>1, <1>2, <1>3, <1>4, <1>5 DEF ExportDossierPdf

\* What a deletion is about to delete is no longer on its list.
LEMMA PurgingRecord ==
  ASSUME NEW q \in Request, NEW c
  PROVE  /\ Purging(q, c).pc = "flush"
         /\ Purging(q, c).queue = q.queue \ {c}
BY DEF Purging, Flushing, Request

\* A commit leaves the request its kind and its list.
LEMMA CommittedRecord ==
  ASSUME NEW q \in Request, NEW p \in Steps
  PROVE  LET n == Committed(q, p)
         IN n \in Request /\ n.kind = q.kind /\ n.queue = q.queue
BY DEF Committed, Request

\* A deletion moves, in a sweep to the next candidate when there is one.
LEMMA DeleteCandidateMoves ==
  ASSUME TypeInv, NEW r \in Req, DeleteCandidate(r) PROVE Moves(r)
<1>1. CASE DeleteGetCandidate(r)
  <2>1. req[r].pc = "begin" /\ req[r] \in Request
    BY <1>1 DEF DeleteGetCandidate, At, TypeInv, TypeOK
  <2>2. CASE Answer(r, "404")
    BY <2>1, <2>2, AnswerMoves
  <2>3. CASE Become(r, Purging(req[r], req[r].cand))
    BY <2>1, <2>3, PurgingRecord, Places, LaterMoves
  <2> QED
    BY <1>1, <2>2, <2>3 DEF DeleteGetCandidate
<1>2. CASE FindExpired(r)
  <2>1. req[r].pc = "begin" /\ req[r] \in Request
    BY <1>2 DEF FindExpired, At, TypeInv, TypeOK
  <2>2. CASE Answer(r, "ok")
    BY <2>1, <2>2, AnswerMoves
  <2>3. ASSUME NEW E \in SUBSET Candidate, NEW c \in E,
               Become(r, Purging([req[r] EXCEPT !.queue = E, !.batch = E], c))
        PROVE  Moves(r)
    <3>1. [req[r] EXCEPT !.queue = E, !.batch = E] \in Request
      BY <2>1 DEF Request
    <3>2. Purging([req[r] EXCEPT !.queue = E, !.batch = E], c).pc = "flush"
      BY <3>1, PurgingRecord
    <3> QED
      BY <2>1, <2>3, <3>2, Places, LaterMoves
  <2> QED
    BY <1>2, <2>2, <2>3 DEF FindExpired
<1>3. CASE DeleteCommit(r)
  <2>1. req[r].pc = "flush" /\ req[r] \in Request
    BY <1>3 DEF DeleteCommit, At, TypeInv, TypeOK
  <2>2. CASE Become(r, Answered(req[r], "ok"))
    BY <2>1, <2>2, AnswerMoves DEF Answer
  <2>3. ASSUME NEW c \in req[r].queue,
               Become(r, Purging(Committed(req[r], "flush"), c))
        PROVE  Moves(r)
    <3> DEFINE q == Committed(req[r], "flush")
    <3>1. q \in Request /\ q.queue = req[r].queue
      BY <2>1, CommittedRecord DEF Steps
    <3> HIDE DEF q
    <3>2. Purging(q, c).pc = "flush" /\ Purging(q, c).queue = req[r].queue \ {c}
      BY <3>1, PurgingRecord
    <3>3. Nearer(req[r], Purging(q, c))
      BY <2>1, <2>3, <3>2 DEF Nearer
    <3> QED
      BY <2>3, <3>3, BecomeMoves DEF q
  <2> QED
    BY <1>3, <2>2, <2>3 DEF DeleteCommit, Commit
<1> QED
  BY <1>1, <1>2, <1>3 DEF DeleteCandidate

\* Every step takes one request nearer to its end: together with the fairness of
\* FairSpec this is why every request is answered.
THEOREM NoStepIsWasted == Spec => EveryStepCounts
<1>1. ASSUME TypeInv, [Next]_vars
      PROVE  [\E r \in Req : /\ Nearer(req[r], req'[r])
                             /\ \A s \in Req \ {r} : req'[s] = req[s]]_vars
  <2>1. CASE UNCHANGED vars
    BY <2>1
  <2>2. ASSUME NEW r \in Req, Advance(r) PROVE Moves(r)
    BY <1>1, <2>2, ExecuteMoves, CreateCandidateMoves, ScoreCandidateMoves,
       GenerateDossierMoves, RecordDecisionMoves, ExportMoves, DeleteCandidateMoves DEF Advance
  <2>3. ASSUME Next PROVE \E r \in Req : Moves(r)
    BY <1>1, <2>2, <2>3, StartMoves, AbortMoves DEF Next
  <2> QED
    BY <1>1, <2>1, <2>3 DEF Moves
<1> QED
  BY <1>1, ShapeCorrect, PTL DEF Spec, EveryStepCounts

-----------------------------------------------------------------------------
(* A request waits for nothing but locks of requests under way.             *)

AllGoing == \A r \in Req : Going(req[r])

\* The kinds and their positions, one by one.
LEMMA AwaitsByKind ==
  /\ Awaits["upload"] = {"begin", "flush", "refresh"}
  /\ Awaits["score"] = {"begin"} \cup Nested
  /\ Awaits["dossier"] = {"begin", "consent", "document", "compose", "flush", "refresh"} \cup Nested
  /\ Awaits["decision"] = {"begin", "decide", "flush", "refresh"}
  /\ Awaits["export"] = {"begin", "export", "export_score", "export_decision", "flush"}
  /\ Awaits["delete"] = {"begin", "flush"} /\ Awaits["ttl"] = {"begin", "flush"}
BY DEF Awaits

\* Only the request that takes a step has to be looked at.
LEMMA BecomeGoing ==
  ASSUME TypeInv, AllGoing, NEW r \in Req, NEW q, Become(r, q), Going(q)
  PROVE  AllGoing'
<1>1. \A s \in Req : req'[s] = IF s = r THEN q ELSE req[s]
  BY DEF Become, TypeInv, TypeOK
<1> QED
  BY <1>1 DEF AllGoing, Going

\* A request that was answered awaits nothing.
LEMMA AnswerGoing ==
  ASSUME TypeInv, AllGoing, NEW r \in Req, NEW code, Answer(r, code)
  PROVE  AllGoing'
<1>1. Answered(req[r], code).pc = "done"
  BY DEF TypeInv, TypeOK, Request, Answered
<1>2. Going(Answered(req[r], code))
  BY <1>1 DEF Going
<1> QED
  BY <1>2, BecomeGoing DEF Answer

\* A record at a position of its kind where nothing is sent.
LEMMA AtGoing ==
  ASSUME NEW q, q.pc \in Awaits[q.kind], q.pc \notin {"score_flush", "flush"}
  PROVE  Going(q)
BY DEF Going

\* A handler may go to any position of its kind where nothing is sent.
LEMMA GotoGoing ==
  ASSUME TypeInv, AllGoing, NEW r \in Req, NEW p, Goto(r, p),
         p \in Awaits[req[r].kind], p \notin {"score_flush", "flush"}
  PROVE  AllGoing'
<1> DEFINE q == [req[r] EXCEPT !.pc = p]
<1>1. q.pc = p /\ q.kind = req[r].kind /\ Become(r, q)
  BY DEF TypeInv, TypeOK, Request, Goto
<1> HIDE DEF q
<1> QED
  BY <1>1, AtGoing, BecomeGoing

\* After a commit too.
LEMMA CommittedGoing ==
  ASSUME TypeInv, AllGoing, NEW r \in Req, NEW p, Become(r, Committed(req[r], p)),
         p \in Awaits[req[r].kind], p \notin {"score_flush", "flush"}
  PROVE  AllGoing'
<1> DEFINE q == Committed(req[r], p)
<1>1. q.pc = p /\ q.kind = req[r].kind
  BY DEF TypeInv, TypeOK, Request, Committed
<1> HIDE DEF q
<1> QED
  BY <1>1, AtGoing, BecomeGoing DEF q

\* What is sent first is one of what is to be sent.
LEMMA UpcomingOne ==
  ASSUME NEW T, NEW w \in Upcoming(T) PROVE T # {} => w \in T
BY DEF Upcoming

\* A flush starts with one of its statements.
LEMMA FlushingGoing ==
  ASSUME TypeInv, AllGoing, NEW r \in Req, NEW q, DOMAIN q = DOMAIN req[r],
         NEW p, NEW T, NEW w, Become(r, Flushing(q, p, T, w)),
         p \in Awaits[q.kind], T # {} => w \in T
  PROVE  AllGoing'
<1> DEFINE n == Flushing(q, p, T, w)
<1>1. n.pc = p /\ n.kind = q.kind /\ n.todo = T /\ n.next = w
  BY DEF TypeInv, TypeOK, Request, Flushing
<1> HIDE DEF n
<1>2. Going(n)
  BY <1>1 DEF Going
<1> QED
  BY <1>2, BecomeGoing DEF n

\* Every deletion starts with the first of its statements.
LEMMA PurgingGoing ==
  ASSUME TypeInv, AllGoing, NEW r \in Req, NEW q \in Request, q.kind \in Deleting,
         NEW c, Become(r, Purging(q, c))
  PROVE  AllGoing'
<1> DEFINE n == Purging(q, c)
<1>1. n.pc = "flush" /\ n.kind = q.kind /\ n.todo = Purge /\ n.next = "delDecisions"
  BY DEF Purging, Flushing, Request, PurgeOrder
<1> HIDE DEF n
<1>2. Going(n)
  BY <1>1, AwaitsByKind DEF Going, Purge, Deleting
<1> QED
  BY <1>2, BecomeGoing DEF n

\* Lookups.
LEMMA GetCandidateGoing ==
  ASSUME TypeInv, AllGoing, NEW r \in Req, NEW k, NEW p, GetCandidate(r, k, p),
         p \in Awaits[k], p \notin {"score_flush", "flush"}
  PROVE  AllGoing'
<1>1. req[r].kind = k /\ (Answer(r, "404") \/ Goto(r, p))
  BY DEF GetCandidate, At
<1> QED
  BY <1>1, AnswerGoing, GotoGoing

\* Every kind of request starts at its begin.
LEMMA StartGoing ==
  ASSUME TypeInv, AllGoing, NEW r \in Req, Arrive(r) \/ StartTtl(r) PROVE AllGoing'
<1>1. req[r] \in Request
  BY DEF TypeInv, TypeOK
<1>2. ASSUME NEW q, Become(r, q), q.pc = "begin", q.kind \in AllKinds PROVE AllGoing'
  <2>1. q.pc \in Awaits[q.kind]
    BY <1>2, AwaitsByKind DEF AllKinds
  <2> QED
    BY <1>2, <2>1, AtGoing, BecomeGoing
<1>3. CASE Arrive(r)
  <2>1. PICK k \in Kinds \ {"ttl"}, c \in Candidate, o \in Org :
          Become(r, [req[r] EXCEPT !.kind = k, !.cand = c, !.org = o, !.pc = "begin"])
    BY <1>3 DEF Arrive
  <2> DEFINE q == [req[r] EXCEPT !.kind = k, !.cand = c, !.org = o, !.pc = "begin"]
  <2>2. q.pc = "begin" /\ q.kind \in AllKinds /\ Become(r, q)
    BY <1>1, <2>1, StoreAssumption DEF Request
  <2> HIDE DEF q
  <2> QED
    BY <1>2, <2>2
<1>4. CASE StartTtl(r)
  <2> DEFINE q == [req[r] EXCEPT !.kind = "ttl", !.pc = "begin"]
  <2>1. q.pc = "begin" /\ q.kind \in AllKinds /\ Become(r, q)
    BY <1>1, <1>4 DEF Request, StartTtl, AllKinds
  <2> HIDE DEF q
  <2> QED
    BY <1>2, <2>1
<1> QED
  BY <1>3, <1>4

\* While statements are left one of them is next.
LEMMA ExecuteGoing ==
  ASSUME TypeInv, AllGoing, NEW r \in Req, Execute(r) PROVE AllGoing'
<1>1. req[r] \in Request /\ Going(req[r])
  BY DEF TypeInv, TypeOK, AllGoing
<1>2. CASE Refused(req[r].next, req[r].cand)
  BY <1>2, AnswerGoing DEF Execute
<1>3. CASE ~Refused(req[r].next, req[r].cand)
  <2>1. PICK T, D : \E w \in Upcoming(T) :
          Become(r, [req[r] EXCEPT !.todo = T, !.next = w, !.done = D])
    BY <1>3 DEF Execute
  <2>2. PICK w \in Upcoming(T) :
          Become(r, [req[r] EXCEPT !.todo = T, !.next = w, !.done = D])
    BY <2>1
  <2> DEFINE n == [req[r] EXCEPT !.todo = T, !.next = w, !.done = D]
  <2>3. n.pc = req[r].pc /\ n.kind = req[r].kind /\ n.todo = T /\ n.next = w
    BY <1>1 DEF Request
  <2> HIDE DEF n
  <2>4. Going(n)
    BY <1>1, <2>3, UpcomingOne DEF Going
  <2> QED
    BY <2>2, <2>4, BecomeGoing DEF n
<1> QED
  BY <1>2, <1>3

\* An upload.
LEMMA CreateCandidateGoing ==
  ASSUME TypeInv, AllGoing, NEW r \in Req, CreateCandidate(r) PROVE AllGoing'
<1>1. CASE ParseCv(r)
  <2>1. req[r].kind = "upload"
    BY <1>1 DEF ParseCv, At
  <2>2. "flush" \in Awaits[req[r].kind]
    BY <2>1, AwaitsByKind
  <2>3. CASE Become(r, Flushing(req[r], "flush", {"insCand"}, "insCand"))
    BY <2>2, <2>3, FlushingGoing
  <2> QED
    BY <1>1, <2>3, AnswerGoing DEF ParseCv
<1>2. CASE CreateCandidateCommit(r)
  BY <1>2, AwaitsByKind, CommittedGoing DEF CreateCandidateCommit, At, Commit
<1>3. CASE CreateCandidateRefresh(r)
  BY <1>3, AnswerGoing DEF CreateCandidateRefresh
<1> QED
  BY <1>1, <1>2, <1>3 DEF CreateCandidate

\* Scoring goes through positions of both kinds of request that do it.
LEMMA ScoreCandidateGoing ==
  ASSUME TypeInv, AllGoing, NEW r \in Req, ScoreCandidate(r) PROVE AllGoing'
<1>1. CASE ScoreGetCandidate(r)
  BY <1>1, AwaitsByKind, GetCandidateGoing DEF ScoreGetCandidate, Nested
<1>2. CASE ~ScoreGetCandidate(r)
  <2>1. req[r].kind \in Scoring /\ req[r] \in Request
    BY <1>2 DEF ScoreCandidate, ScoreCheckConsent, ScoreLoadDocument, ScoreNarrate,
                ScoreCommit, ScoreRefresh, At, TypeInv, TypeOK
  <2>2. Nested \subseteq Awaits[req[r].kind]
    BY <2>1, AwaitsByKind DEF Scoring
  <2>3. CASE ScoreCheckConsent(r)
    BY <2>2, <2>3, AnswerGoing, GotoGoing DEF ScoreCheckConsent, Raise, Nested
  <2>4. CASE ScoreLoadDocument(r)
    <3>1. CASE \E code : Answer(r, code)
      BY <3>1, AnswerGoing
    <3> DEFINE q == [req[r] EXCEPT !.pc = "narrate"]
    <3>2. /\ q.pc = "narrate" /\ q.kind = req[r].kind
          /\ q.cand = req[r].cand /\ q \in Request
      BY <2>1 DEF Request, Steps
    <3>3. req[r].cand \in Candidate
      BY <2>4 DEF ScoreLoadDocument, At, Scoring, TypeInv, Shape, OnCandidate
    <3> HIDE DEF q
    <3>4. Embedded(q, r).pc = "narrate" /\ Embedded(q, r).kind = req[r].kind
      BY <3>2, <3>3, EmbeddedType
    <3>5. Going(q) /\ Going(Embedded(q, r))
      BY <2>2, <3>2, <3>4, AtGoing DEF Nested
    <3>6. CASE Become(r, q) \/ Become(r, Embedded(q, r))
      BY <3>5, <3>6, BecomeGoing
    <3> QED
      BY <2>4, <3>1, <3>6 DEF ScoreLoadDocument, Raise, q
  <2>5. CASE ScoreNarrate(r)
    <3>1. PICK v, S, T : \E w \in Upcoming(T) :
            Become(r, Flushing([req[r] EXCEPT !.draft = v, !.sets = S], "score_flush", T, w))
      BY <2>5, NarratesDraft
    <3>2. PICK w \in Upcoming(T) :
            Become(r, Flushing([req[r] EXCEPT !.draft = v, !.sets = S], "score_flush", T, w))
      BY <3>1
    <3> DEFINE q == [req[r] EXCEPT !.draft = v, !.sets = S]
    <3>3. DOMAIN q = DOMAIN req[r] /\ q.kind = req[r].kind
          /\ Become(r, Flushing(q, "score_flush", T, w))
      BY <2>1, <3>2 DEF Request
    <3> HIDE DEF q
    <3>4. "score_flush" \in Awaits[q.kind] /\ (T # {} => w \in T)
      BY <2>2, <3>3, UpcomingOne DEF Nested
    <3> QED
      BY <3>3, <3>4, FlushingGoing
  <2>6. CASE ScoreCommit(r)
    BY <2>2, <2>6, CommittedGoing DEF ScoreCommit, Commit, Nested
  <2>7. CASE ScoreRefresh(r)
    <3>1. CASE \E code : Answer(r, code)
      BY <3>1, AnswerGoing
    <3>2. ASSUME req[r].kind # "score", NEW v,
                 Become(r, [req[r] EXCEPT !.pc = "compose", !.draft = v])
          PROVE  AllGoing'
      <4> DEFINE q == [req[r] EXCEPT !.pc = "compose", !.draft = v]
      <4>1. q.pc = "compose" /\ q.kind = "dossier" /\ Become(r, q)
        BY <2>1, <3>2 DEF Request, Scoring
      <4> HIDE DEF q
      <4>2. Going(q)
        BY <4>1, AwaitsByKind, AtGoing
      <4> QED
        BY <4>1, <4>2, BecomeGoing
    <3> QED
      BY <2>7, <3>1, <3>2 DEF ScoreRefresh
  <2> QED
    BY <1>2, <2>3, <2>4, <2>5, <2>6, <2>7 DEF ScoreCandidate
<1> QED
  BY <1>1, <1>2

\* A dossier.
LEMMA GenerateDossierGoing ==
  ASSUME TypeInv, AllGoing, NEW r \in Req, GenerateDossier(r) PROVE AllGoing'
<1>1. req[r].kind = "dossier" /\ req[r] \in Request
  BY DEF GenerateDossier, DossierGetCandidate, DossierCheckConsent, DossierLoadDocument,
         DossierCompose, DossierCommit, DossierRefresh, At, TypeInv, TypeOK
<1>2. {"consent", "document", "score_consent", "flush", "refresh"} \subseteq Awaits[req[r].kind]
  BY <1>1, AwaitsByKind DEF Nested
<1>3. CASE DossierGetCandidate(r)
  <2>1. CASE Become(r, [req[r] EXCEPT !.pc = "consent", !.status = cand[req[r].cand]])
    <3> DEFINE q == [req[r] EXCEPT !.pc = "consent", !.status = cand[req[r].cand]]
    <3>1. q.pc = "consent" /\ q.kind = req[r].kind /\ Become(r, q)
      BY <1>1, <2>1 DEF Request
    <3> HIDE DEF q
    <3>2. Going(q)
      BY <1>2, <3>1, AtGoing
    <3> QED
      BY <3>1, <3>2, BecomeGoing
  <2> QED
    BY <1>3, <2>1, AnswerGoing DEF DossierGetCandidate
<1>4. CASE DossierCheckConsent(r)
  BY <1>2, <1>4, AnswerGoing, GotoGoing DEF DossierCheckConsent
<1>5. CASE DossierLoadDocument(r)
  <2> DEFINE q == [req[r] EXCEPT !.pc = "score_consent"]
  <2>1. /\ q.pc = "score_consent" /\ q.kind = req[r].kind
        /\ q.cand = req[r].cand /\ q \in Request
    BY <1>1 DEF Request, Steps
  <2>2. req[r].cand \in Candidate
    BY <1>5 DEF DossierLoadDocument, At, TypeInv, Shape, OnCandidate
  <2> HIDE DEF q
  <2>3. Embedded(q, r).pc = "score_consent" /\ Embedded(q, r).kind = req[r].kind
    BY <2>1, <2>2, EmbeddedType
  <2>4. CASE Become(r, Embedded(q, r))
    BY <1>2, <2>3, <2>4, AtGoing, BecomeGoing
  <2> QED
    BY <1>5, <2>4, AnswerGoing DEF DossierLoadDocument, q
<1>6. CASE DossierCompose(r)
  <2>1. PICK S, T : \E w \in Upcoming(T) :
          Become(r, Flushing([req[r] EXCEPT !.sets = S], "flush", T, w))
    BY <1>6, ComposesDossier
  <2> DEFINE q == [req[r] EXCEPT !.sets = S]
  <2>2. PICK w \in Upcoming(T) : Become(r, Flushing(q, "flush", T, w))
    BY <2>1
  <2>3. DOMAIN q = DOMAIN req[r] /\ q.kind = req[r].kind
    BY <1>1 DEF Request
  <2> HIDE DEF q
  <2>4. "flush" \in Awaits[q.kind] /\ (T # {} => w \in T)
    BY <1>2, <2>3, UpcomingOne
  <2> QED
    BY <2>2, <2>3, <2>4, FlushingGoing
<1>7. CASE DossierCommit(r)
  BY <1>2, <1>7, CommittedGoing DEF DossierCommit, Commit
<1>8. CASE DossierRefresh(r)
  BY <1>8, AnswerGoing DEF DossierRefresh
<1> QED
  BY <1>3, <1>4, <1>5, <1>6, <1>7, <1>8 DEF GenerateDossier

\* A decision.
LEMMA RecordDecisionGoing ==
  ASSUME TypeInv, AllGoing, NEW r \in Req, RecordDecision(r) PROVE AllGoing'
<1>1. CASE DecisionGetCandidate(r)
  BY <1>1, AwaitsByKind, GetCandidateGoing DEF DecisionGetCandidate
<1>2. CASE DecisionReadDossier(r)
  <2>1. req[r].kind = "decision" /\ req[r] \in Request
    BY <1>2 DEF DecisionReadDossier, At, TypeInv, TypeOK
  <2>2. ASSUME NEW v, Become(r, Flushing([req[r] EXCEPT !.draft = v], "flush",
                                        {"insDecision"}, "insDecision"))
        PROVE  AllGoing'
    <3> DEFINE q == [req[r] EXCEPT !.draft = v]
    <3>1. DOMAIN q = DOMAIN req[r] /\ q.kind = "decision"
          /\ Become(r, Flushing(q, "flush", {"insDecision"}, "insDecision"))
      BY <2>1, <2>2 DEF Request
    <3> HIDE DEF q
    <3>2. "flush" \in Awaits[q.kind]
      BY <3>1, AwaitsByKind
    <3> QED
      BY <3>1, <3>2, FlushingGoing
  <2> QED
    BY <1>2, <2>2, AnswerGoing DEF DecisionReadDossier
<1>3. CASE DecisionCommit(r)
  BY <1>3, AwaitsByKind, CommittedGoing DEF DecisionCommit, At, Commit
<1>4. CASE DecisionRefresh(r)
  BY <1>4, AnswerGoing DEF DecisionRefresh
<1> QED
  BY <1>1, <1>2, <1>3, <1>4 DEF RecordDecision

\* An export sends no statement.
LEMMA ExportGoing ==
  ASSUME TypeInv, AllGoing, NEW r \in Req, ExportDossierPdf(r) PROVE AllGoing'
<1>1. CASE ExportGetCandidate(r)
  BY <1>1, AwaitsByKind, GetCandidateGoing DEF ExportGetCandidate
<1>2. CASE ExportReadDossier(r)
  BY <1>2, AwaitsByKind, AnswerGoing, GotoGoing DEF ExportReadDossier, At
<1>3. CASE ExportReadScore(r)
  <2>1. req[r].kind = "export" /\ req[r] \in Request
    BY <1>3 DEF ExportReadScore, At, TypeInv, TypeOK
  <2> DEFINE q == [req[r] EXCEPT !.pc = "export_decision", !.draft = score[req[r].cand]]
  <2>2. q.pc = "export_decision" /\ q.kind = "export" /\ Become(r, q)
    BY <1>3, <2>1 DEF Request, ExportReadScore
  <2> HIDE DEF q
  <2>3. Going(q)
    BY <2>2, AwaitsByKind, AtGoing
  <2> QED
    BY <2>2, <2>3, BecomeGoing
<1>4. CASE ExportReadDecision(r)
  <2>1. /\ req[r].kind = "export" /\ req[r] \in Request /\ req[r].todo = {}
        /\ Answer(r, "409") \/ Goto(r, "flush")
    BY <1>4 DEF ExportReadDecision, At, TypeInv, TypeOK, Shape
  <2>2. CASE Goto(r, "flush")
    <3> DEFINE q == [req[r] EXCEPT !.pc = "flush"]
    <3>1. q.pc = "flush" /\ q.kind = "export" /\ q.todo = {} /\ Become(r, q)
      BY <2>1, <2>2 DEF Request, Goto
    <3> HIDE DEF q
    <3>2. Going(q)
      BY <3>1, AwaitsByKind DEF Going
    <3> QED
      BY <3>1, <3>2, BecomeGoing
  <2> QED
    BY <2>1, <2>2, AnswerGoing
<1>5. CASE ExportCommit(r)
  BY <1>5, AnswerGoing DEF ExportCommit, Commit, Answer
<1> QED
  BY <1>1, <1>2, <1>3, <1>4, <1>5 DEF ExportDossierPdf

\* A deletion.
LEMMA DeleteCandidateGoing ==
  ASSUME TypeInv, AllGoing, NEW r \in Req, DeleteCandidate(r) PROVE AllGoing'
<1>1. req[r].kind \in Deleting /\ req[r] \in Request
  BY DEF DeleteCandidate, DeleteGetCandidate, FindExpired, DeleteCommit, Deleting, At,
         TypeInv, TypeOK
<1>2. CASE DeleteGetCandidate(r)
  BY <1>1, <1>2, PurgingGoing, AnswerGoing DEF DeleteGetCandidate
<1>3. CASE FindExpired(r)
  <2>1. ASSUME NEW E \in SUBSET Candidate, NEW c \in E,
               Become(r, Purging([req[r] EXCEPT !.queue = E, !.batch = E], c))
        PROVE  AllGoing'
    <3> DEFINE q == [req[r] EXCEPT !.queue = E, !.batch = E]
    <3>1. q \in Request /\ q.kind = req[r].kind /\ Become(r, Purging(q, c))
      BY <1>1, <2>1 DEF Request
    <3> HIDE DEF q
    <3> QED
      BY <1>1, <3>1, PurgingGoing
  <2> QED
    BY <1>3, <2>1, AnswerGoing DEF FindExpired
<1>4. CASE DeleteCommit(r)
  <2>1. ASSUME NEW c \in req[r].queue,
               Become(r, Purging(Committed(req[r], "flush"), c))
        PROVE  AllGoing'
    <3> DEFINE q == Committed(req[r], "flush")
    <3>1. q \in Request /\ q.kind = req[r].kind
      BY <1>1, CommittedRecord DEF Steps
    <3> HIDE DEF q
    <3> QED
      BY <1>1, <2>1, <3>1, PurgingGoing DEF q
  <2> QED
    BY <1>4, <2>1, AnswerGoing DEF DeleteCommit, Commit, Answer
<1> QED
  BY <1>2, <1>3, <1>4 DEF DeleteCandidate

\* In every reachable state every handler is where its kind awaits something and sends
\* what it has planned.
THEOREM HandlersGoing == Spec => []AllGoing
<1>1. Init => AllGoing
  BY DEF Init, Idle, AllGoing, Going
<1>2. ASSUME TypeInv, AllGoing, [Next]_vars PROVE AllGoing'
  <2>1. CASE UNCHANGED vars
    BY <1>2, <2>1 DEF vars, AllGoing, Going
  <2>2. ASSUME NEW r \in Req, Advance(r) PROVE AllGoing'
    BY <1>2, <2>2, ExecuteGoing, CreateCandidateGoing, ScoreCandidateGoing,
       GenerateDossierGoing, RecordDecisionGoing, ExportGoing, DeleteCandidateGoing DEF Advance
  <2>3. ASSUME NEW r \in Req, Fail(r) \/ BreakDeadlock(r) PROVE AllGoing'
    BY <1>2, <2>3, AnswerGoing DEF Fail, BreakDeadlock
  <2> QED
    BY <1>2, <2>1, <2>2, <2>3, StartGoing DEF Next
<1> QED
  BY <1>1, <1>2, ShapeCorrect, PTL DEF Spec

\* Whoever is waited for is under way: a transaction that is over holds no lock.
LEMMA HoldersActive ==
  ASSUME TypeInv, NEW r \in Req, NEW s \in Req, Waits(r, s) PROVE Active(s)
<1>1. req[s].done # {} /\ Shape(req[s])
  BY DEF Waits, TypeInv
<1> QED
  BY <1>1 DEF Shape, Active

\* The handler has a step to take: when it is sending statements, the next of them
\* needs no lock that another transaction holds, or all are sent and it can commit.
Unblocked(r) ==
  /\ req[r].pc \in Awaits[req[r].kind]
  /\ req[r].pc \in {"score_flush", "flush"} /\ req[r].todo # {} =>
       req[r].next \in req[r].todo /\ \A s \in Req : ~Waits(r, s)

\* A request without a step to take waits for one that is under way.
LEMMA OnlyLocksHold ==
  ASSUME TypeInv, AllGoing, NEW r \in Req, Active(r), ~Unblocked(r)
  PROVE  \E s \in Req : Active(s) /\ Waits(r, s)
<1>1. req[r].pc \in Awaits[req[r].kind]
  BY DEF AllGoing, Going, Active
<1>2. PICK s \in Req : Waits(r, s)
  BY <1>1 DEF AllGoing, Going, Unblocked
<1> QED
  BY <1>2, HoldersActive

\* PostgreSQL has a cycle of waiting transactions before it.
Deadlock(r) ==
  \E R \in SUBSET Req : r \in R /\ \A a \in R : \E b \in R : Waits(a, b)

\* As long as a request is under way, one of them has a step to take or PostgreSQL has
\* a cycle to break: the requests never all wait for each other for good.
THEOREM SomebodyGoesOn ==
  Spec => [](\A r \in Req : Active(r) =>
               \E s \in Req : Active(s) /\ (Unblocked(s) \/ Deadlock(s)))
<1>1. ASSUME TypeInv, AllGoing, NEW r \in Req, Active(r)
      PROVE  \E s \in Req : Active(s) /\ (Unblocked(s) \/ Deadlock(s))
  <2> DEFINE R == {s \in Req : Active(s)}
  <2>1. CASE \E s \in R : Unblocked(s)
    BY <2>1
  <2>2. CASE ~ \E s \in R : Unblocked(s)
    <3>1. \A a \in R : \E b \in R : Waits(a, b)
      BY <1>1, <2>2, OnlyLocksHold
    <3>2. Deadlock(r)
      BY <1>1, <3>1 DEF Deadlock
    <3> QED
      BY <1>1, <3>2
  <2> QED
    BY <2>1, <2>2
<1>2. TypeInv /\ AllGoing => \A r \in Req : Active(r) =>
        \E s \in Req : Active(s) /\ (Unblocked(s) \/ Deadlock(s))
  BY <1>1
<1> QED
  BY <1>2, ShapeCorrect, HandlersGoing, PTL

\* All that is inductive holds in every reachable state.
THEOREM InvariantsHold == Spec => []SystemInv
<1>1. IInv /\ TraceInv /\ AllGoing => SystemInv
  BY DEF SystemInv, AllGoing
<1> QED
  BY <1>1, Inductive, Traceable, HandlersGoing, PTL
=============================================================================
