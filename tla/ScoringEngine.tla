---------------------------- MODULE ScoringEngine ----------------------------
(***************************************************************************)
(* What a CV's text is read for: skill detection (cv_parser.py), the       *)
(* fairness guard, the six factors, the 0-100 value with its breakdown     *)
(* (scoring_service.compute_score) and the recommendation.                 *)
(*                                                                         *)
(* The code looks for substrings of lower-cased text.  Here a line is the  *)
(* set of words on it and Within gives the searched-for substrings a word  *)
(* contains ("javascript" has "java" in it, "manager" has "age").  Skills    *)
(* and countries come spelled as somebody typed them; Norm strips and      *)
(* lower-cases a spelling, where the code does and only there.             *)
(***************************************************************************)
EXTENDS Integers, FiniteSets, Functions, FiniteSetsExt

CONSTANTS
  Word,               \* words of CVs, lower-cased
  Spelling,           \* skills and countries as typed, Word among them
  Norm,               \* str.strip and str.lower on them
  Within,             \* the words found inside each word
  SkillVocab,         \* _SKILL_VOCAB
  SensitiveMarkers,   \* SENSITIVE_MARKERS
  SeniorTokens,       \* _SENIORITY_TOKENS[senior]
  JuniorTokens,       \* _SENIORITY_TOKENS[junior]
  Vacancies           \* the vacancies of an instance

Levels == 0..2    \* junior, mid, senior

\* The columns of a vacancy that an assessment reads.  Validation asks for at
\* least one required skill; english and salary say that the vacancy mentions them.
Vacancy ==
  [required : (SUBSET Spelling) \ {{}}, desired : SUBSET Spelling, seniority : Levels,
   remote : BOOLEAN, country : Spelling \cup {""}, english : BOOLEAN, salary : BOOLEAN]

ASSUME TextAssumption ==
  /\ Within \in [Word -> SUBSET Word]
  /\ \A w \in Word : w \in Within[w] /\ \A x \in Within[w] : Within[x] \subseteq Within[w]
  /\ Word \subseteq Spelling /\ "" \notin Spelling
  /\ Norm \in [Spelling -> Word] /\ \A w \in Word : Norm[w] = w
  /\ SkillVocab \cup SensitiveMarkers \cup SeniorTokens \cup JuniorTokens \subseteq Word
  /\ IsFiniteSet(SkillVocab)

ASSUME VacancyAssumption ==
  Vacancies \subseteq Vacancy /\ \A v \in Vacancies : IsFiniteSet(v.required)

Line == SUBSET Word

\* Everything a substring search finds on these lines.
Mentioned(lines) == UNION {UNION {Within[w] : w \in l} : l \in lines}

\* Variant: of overlapping skills the longest counts.
SkillsLongest(lines) ==
  LET found == SkillVocab \cap Mentioned(lines)
  IN {s \in found : \A t \in found \ {s} : s \notin Within[t]}

\* Detected when the CV is uploaded, on the text as it came.
Skills(lines) == SkillVocab \cap Mentioned(lines)

IsSensitive(l) == Mentioned({l}) \cap SensitiveMarkers # {}

\* Variant: the text is passed on as it came.
SanitizeNothing(lines) == lines

Sanitize(lines) == {l \in lines : ~IsSensitive(l)}

\* _norm: spellings of one skill are one.
Normalized(items) == {Norm[s] : s \in items}
Required(v) == Normalized(v.required)

Present(v, lines) == Required(v) \cap Normalized(Skills(lines))
Missing(v, lines) == Required(v) \ Normalized(Skills(lines))
Evidenced(v, lines) == Required(v) \cap Mentioned(Sanitize(lines))

InferSeniority(lines) ==
  LET text == Mentioned(Sanitize(lines))
  IN IF text \cap SeniorTokens # {} THEN 2
     ELSE IF text \cap JuniorTokens # {} THEN 0 ELSE 1

-----------------------------------------------------------------------------
(* A factor's sub-score is num / den; its weight is in points.              *)

Weight ==
  [skills |-> 35, experience |-> 20, seniority |-> 15, modality_location |-> 10,
   evidence |-> 10, inconsistency |-> 10]

Factor == DOMAIN Weight

\* Variant: every skill of the candidate counts.
SkillsMatchAll(v, lines) ==
  [num |-> Cardinality(Skills(lines)), den |-> Cardinality(Required(v))]

SkillsMatch(v, lines) ==
  [num |-> Cardinality(Present(v, lines)), den |-> Cardinality(Required(v))]

ExperienceRelevant(v, lines) ==
  [num |-> Cardinality(Evidenced(v, lines)), den |-> Cardinality(Required(v))]

SeniorityMatch(v, lines) ==
  LET inferred == InferSeniority(lines)
      dist == IF inferred > v.seniority THEN inferred - v.seniority ELSE v.seniority - inferred
  IN [num |-> IF dist = 0 THEN 5 ELSE IF dist = 1 THEN 3 ELSE 1, den |-> 5]

\* A vacancy without a country matches none.
Located(v, lines) == v.country # "" /\ Norm[v.country] \in Mentioned(Sanitize(lines))

\* 0.6 * modality + 0.4 * location
ModalityLocation(v, lines) ==
  [num |-> (IF v.remote THEN 15 ELSE 9) + (IF Located(v, lines) THEN 10 ELSE 5), den |-> 25]

\* The cosine of two embeddings, in hundredths, is the embedding provider's.
SubScore(v, lines, cosine) ==
  [skills |-> SkillsMatch(v, lines), experience |-> ExperienceRelevant(v, lines),
   seniority |-> SeniorityMatch(v, lines), modality_location |-> ModalityLocation(v, lines),
   evidence |-> [num |-> cosine, den |-> 100], inconsistency |-> [num |-> 1, den |-> 1]]

\* Variant: int() without round().
Truncate(n, d) == n \div d

\* Python's round: to the nearest, halves to the even neighbour.
Round(n, d) ==
  LET q == n \div d
      twice == 2 * (n % d)
  IN IF twice < d \/ (twice = d /\ q % 2 = 0) THEN q ELSE q + 1

\* The weighted sum over the common denominator 100 * |Required|.
TotalNum(v, s) ==
  LET n == Cardinality(Required(v))
  IN  100 * (35 * s.skills.num + 20 * s.experience.num)
      + n * (300 * s.seniority.num + 40 * s.modality_location.num + 10 * s.evidence.num + 1000)
TotalDen(v) == 100 * Cardinality(Required(v))

Value(v, lines, cosine) ==
  LET rounded == Round(TotalNum(v, SubScore(v, lines, cosine)), TotalDen(v))
  IN IF rounded > 100 THEN 100 ELSE IF rounded < 0 THEN 0 ELSE rounded

\* The breakdown's weighted column, in ten-thousandths of a point.
Weighted(v, lines, cosine) ==
  LET s == SubScore(v, lines, cosine)
  IN [f \in Factor |-> Round(10000 * Weight[f] * s[f].num, s[f].den)]

\* Variant: one threshold lower.
RecommendationLower(value) ==
  IF value >= 60 THEN 3 ELSE IF value >= 50 THEN 2 ELSE IF value >= 40 THEN 1 ELSE 0

\* low_fit, needs_human_review, good_review_gaps, high_priority_interview
Recommendation(value) ==
  IF value >= 80 THEN 3 ELSE IF value >= 60 THEN 2 ELSE IF value >= 40 THEN 1 ELSE 0
=============================================================================
