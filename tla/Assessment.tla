----------------------------- MODULE Assessment -----------------------------
(***************************************************************************)
(* The analysis of a CV against a vacancy, and how it changes when the CV  *)
(* says more.  Nothing but the CV varies: the engine is a pure function of *)
(* it, and a step compares the assessments of two CVs one word apart.      *)
(***************************************************************************)
EXTENDS DossierContents

CONSTANTS
  Lines,       \* lines of a CV
  MaxWords,    \* bound on the words of all lines together
  Cosines      \* values of the embeddings' similarity, in hundredths

ASSUME BoundAssumption == MaxWords \in Nat /\ Cosines \subseteq 0..100

VARIABLES
  vacancy,    \* the vacancy
  words,      \* the words on each line of the CV
  long,       \* whether the text has 200 characters
  cosine      \* the similarity the embedding provider finds

vars == <<vacancy, words, long, cosine>>

cv == Range(words)

ScoreOf(ws, c) == Value(vacancy, Range(ws), c)
score == ScoreOf(words, cosine)
recommendation == Recommendation(score)
signals == Signals(vacancy, cv, long)
questions == InterviewQuestions(vacancy, cv, long)
Raises(signal) == Raised(signal, vacancy, cv, long)

Init ==
  /\ vacancy \in Vacancies
  /\ words = [l \in Lines |-> {}]
  /\ long = FALSE
  /\ cosine \in Cosines

\* The embedding is of the detected skills alone: with the same skills it is the same.
Say(l, w) ==
  /\ Cardinality({p \in Lines \X Word : p[2] \in words[p[1]]}) < MaxWords
  /\ w \notin words[l]
  /\ words' = [words EXCEPT ![l] = @ \cup {w}]
  /\ cosine' \in IF Skills(Range(words')) = Skills(cv) THEN {cosine} ELSE Cosines
  /\ UNCHANGED <<vacancy, long>>

Elaborate ==
  /\ ~long /\ long' = TRUE
  /\ UNCHANGED <<vacancy, words, cosine>>

Next == Elaborate \/ \E l \in Lines, w \in Word : Say(l, w)

Spec == Init /\ [][Next]_vars

-----------------------------------------------------------------------------

\* Whatever the CV says, every factor is between 0 and 1 and the score between 0 and 100.
TypeOK ==
  /\ vacancy \in Vacancies /\ words \in [Lines -> Line]
  /\ long \in BOOLEAN /\ cosine \in Cosines
  /\ score \in 0..100
  /\ \A f \in Factor : LET sub == SubScore(vacancy, cv, cosine)[f] IN sub.num \in 0..sub.den

\* The words a step adds to line l.
Added(l) == words'[l] \ words[l]

\* A detected skill more, on a line that may be read, never makes the candidate
\* look worse: with the same embedding similarity the score does not fall, with
\* another one by no more than that factor's ten points; what the dossier lists stays
\* listed as it was, and no gap and no signal comes up that was not there.
MoreEvidenceNeverHurts ==
  [][\A l \in Lines :
       (Added(l) # {} /\ Added(l) \subseteq SkillVocab /\ ~IsSensitive(words'[l])) =>
         /\ ScoreOf(words', cosine') >= IF cosine' >= cosine THEN score ELSE score - 10
         /\ BuildSkills(vacancy, cv) \subseteq BuildSkills(vacancy, cv)'
         /\ Missing(vacancy, cv)' \subseteq Missing(vacancy, cv)
         /\ \A i \in DOMAIN SignalOrder : Raises(SignalOrder[i])' => Raises(SignalOrder[i])]_vars

\* Fairness: once a line names a sensitive attribute, nothing said on it counts
\* for score or signals, except a skill the parser detected before sanitizing.
SensitiveLinesIgnored ==
  [][\A l \in Lines :
       (Added(l) # {} /\ IsSensitive(words[l]) /\ Mentioned({Added(l)}) \cap SkillVocab = {}) =>
         ScoreOf(words', cosine') = score /\ signals' = signals]_vars

\* A dossier without any signal is never one of a candidate the score rates low:
\* detector and score are computed apart and must not contradict each other.
UnflaggedIsGoodFit ==
  (\A i \in DOMAIN SignalOrder : ~Raises(SignalOrder[i])) => recommendation >= 2

\* The top recommendation is out of reach without two fifths of the required skills.
HighPriorityHasSkills ==
  recommendation = 3 =>
    5 * Cardinality(Present(vacancy, cv)) >= 2 * Cardinality(Required(vacancy))

\* The breakdown shown to the recruiter adds up to the score, up to its rounding
\* to a whole point and that of the entries to four places.
BreakdownReconciles ==
  LET weighted == Weighted(vacancy, cv, cosine)
      sum == weighted.skills + weighted.experience + weighted.seniority
             + weighted.modality_location + weighted.evidence + weighted.inconsistency
      off == 10000 * score - sum
  IN off <= 5001 /\ -off <= 5001

\* The cap on questions never costs a gap or a signal while strengths are asked for.
GapsAskedFirst ==
  /\ Len(questions) <= MaxQuestions
  /\ (\E i \in DOMAIN questions : questions[i].based_on = "skill") =>
       {q.about : q \in {x \in Range(questions) : x.based_on # "skill"}}
         = Missing(vacancy, cv) \cup Range(signals)

\* "A signal is raised only from concrete, observable gaps between the CV and the
\* vacancy": a skill the CV names on a line that may be read is no gap.
GapsAreObservable ==
  Missing(vacancy, cv) \cap Mentioned(Sanitize(cv)) = {}

\* "Altering a sensitive attribute cannot change the computed score."
SensitiveAttributeInert ==
  [][\A l \in Lines :
       (Added(l) # {} /\ Added(l) \subseteq SensitiveMarkers)
         => ScoreOf(words', cosine') = score]_vars
=============================================================================
