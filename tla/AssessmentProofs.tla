-------------------------- MODULE AssessmentProofs --------------------------
(***************************************************************************)
(* For every vocabulary, vacancy, CV and embedding similarity: the score   *)
(* and the signals of a dossier do not contradict each other.              *)
(***************************************************************************)
EXTENDS Assessment, FiniteSetTheorems, TLAPS

\* The state every assessment starts from: a vacancy of the instance, a
\* similarity in hundredths, words on lines.
Typed ==
  /\ vacancy \in Vacancies /\ words \in [Lines -> Line]
  /\ long \in BOOLEAN /\ cosine \in Cosines

\* Rounding is monotonic against a whole number.
LEMMA RoundAtLeast ==
  ASSUME NEW n \in Nat, NEW d \in Nat \ {0}, NEW k \in Nat, k * d <= n
  PROVE  Round(n, d) \in Nat /\ Round(n, d) >= k
<1> DEFINE q == n \div d
           r == n % d
<1>1. q \in Nat /\ r \in Nat /\ r < d /\ n = (d * q) + r
  BY SMT
<1>2. q >= k
  <2> SUFFICES ASSUME q < k PROVE FALSE
    BY <1>1, SMT
  <2>1. d * (q + 1) <= d * k
    BY <1>1, SMT
  <2> QED
    BY <1>1, <2>1, SMT
<1> QED
  BY <1>1, <1>2, SMT DEF Round

\* Rounding a quotient of at most c gives at most c.
LEMMA RoundAtMost ==
  ASSUME NEW n \in Nat, NEW d \in Nat \ {0}, NEW k \in Nat, n <= k * d
  PROVE  Round(n, d) <= k
<1> DEFINE q == n \div d
           r == n % d
<1>1. q \in Nat /\ r \in Nat /\ r < d /\ n = (d * q) + r
  BY SMT
<1>2. q <= k
  BY <1>1, SMT
<1>3. q = k => r = 0
  BY <1>1, SMT
<1> QED
  BY <1>1, <1>2, <1>3, SMT DEF Round

\* Spellings of one skill are one: a vacancy requires finitely many, and at least one.
LEMMA RequiredFinite ==
  ASSUME NEW v \in Vacancies
  PROVE  IsFiniteSet(Required(v)) /\ Required(v) # {}
<1> DEFINE S == v.required
           f == [s \in S |-> Norm[s]]
<1>1. v \in Vacancy /\ IsFiniteSet(S)
  BY VacancyAssumption
<1>2. S # {}
  BY <1>1 DEF Vacancy
<1>3. Required(v) = {Norm[s] : s \in S}
  BY DEF Required, Normalized
<1>4. f \in Surjection(S, Required(v))
  BY <1>3 DEF Surjection
<1>5. IsFiniteSet(Required(v))
  <2> HIDE DEF f, S
  <2> QED
    BY <1>1, <1>4, FS_Surjection
<1> QED
  BY <1>2, <1>3, <1>5

\* The counts behind the factors.
LEMMA Counts ==
  ASSUME Typed
  PROVE  /\ Cardinality(Required(vacancy)) \in Nat \ {0}
         /\ Cardinality(Present(vacancy, cv)) \in 0..Cardinality(Required(vacancy))
         /\ Cardinality(Evidenced(vacancy, cv)) \in 0..Cardinality(Required(vacancy))
<1>1. IsFiniteSet(Required(vacancy)) /\ Required(vacancy) # {}
  BY RequiredFinite DEF Typed
<1>2. Cardinality(Required(vacancy)) \in Nat \ {0}
  BY <1>1, FS_CardinalityType, FS_EmptySet
<1>3. \A S : S \subseteq Required(vacancy) =>
        Cardinality(S) \in 0..Cardinality(Required(vacancy))
  <2> TAKE S
  <2> HAVE S \subseteq Required(vacancy)
  <2>1. IsFiniteSet(S) /\ Cardinality(S) <= Cardinality(Required(vacancy))
    BY <1>1, FS_Subset
  <2> QED
    BY <1>2, <2>1, FS_CardinalityType
<1>4. Present(vacancy, cv) \subseteq Required(vacancy)
      /\ Evidenced(vacancy, cv) \subseteq Required(vacancy)
  BY DEF Present, Evidenced
<1> QED
  BY <1>2, <1>3, <1>4

\* The other factors: each sub-score is a fraction between 0 and 1.
LEMMA Fractions ==
  ASSUME Typed
  PROVE  /\ SeniorityMatch(vacancy, cv).num \in 1..5
         /\ ModalityLocation(vacancy, cv).num \in 14..25
         /\ cosine \in 0..100
<1>1. SeniorityMatch(vacancy, cv).num \in 1..5
  BY DEF SeniorityMatch
<1>2. ModalityLocation(vacancy, cv).num \in 14..25
  BY DEF ModalityLocation
<1> QED
  BY <1>1, <1>2, BoundAssumption DEF Typed

\* The weighted sum in terms of the counts, with its bounds.
LEMMA Total ==
  ASSUME Typed
  PROVE  LET n == Cardinality(Required(vacancy))
             k == Cardinality(Present(vacancy, cv))
             h == Cardinality(Evidenced(vacancy, cv))
             t == TotalNum(vacancy, SubScore(vacancy, cv, cosine))
         IN /\ t \in Nat
            /\ t >= 100 * (35 * k + 20 * h) + 1860 * n
            /\ t <= 100 * (35 * k + 20 * h) + 4500 * n
<1> DEFINE n == Cardinality(Required(vacancy))
           k == Cardinality(Present(vacancy, cv))
           h == Cardinality(Evidenced(vacancy, cv))
           a == SeniorityMatch(vacancy, cv).num
           b == ModalityLocation(vacancy, cv).num
           w == 300 * a + 40 * b + 10 * cosine + 1000
<1>1. TotalNum(vacancy, SubScore(vacancy, cv, cosine)) = 100 * (35 * k + 20 * h) + n * w
  BY DEF TotalNum, SubScore, SkillsMatch, ExperienceRelevant
<1>2. n \in Nat /\ k \in Nat /\ h \in Nat
  BY Counts
<1>3. a \in 1..5 /\ b \in 14..25 /\ cosine \in 0..100
  BY Fractions
<1> HIDE DEF n, k, h, a, b
<1>4. w \in Nat /\ 1860 <= w /\ w <= 4500
  BY <1>3
<1> HIDE DEF w
<1>5. n * w >= 1860 * n /\ n * w <= 4500 * n /\ n * w \in Nat
  BY <1>2, <1>4, SMT
<1>6. 100 * (35 * k + 20 * h) + n * w \in Nat
  BY <1>2, <1>5
<1> QED
  BY <1>1, <1>2, <1>5, <1>6 DEF n, k, h

\* The score is what Round makes of the total, kept between 0 and 100.
LEMMA ScoreBounds ==
  ASSUME Typed, NEW k \in 0..100
  PROVE  LET t == TotalNum(vacancy, SubScore(vacancy, cv, cosine))
             d == TotalDen(vacancy)
         IN /\ score \in 0..100
            /\ k * d <= t => score >= k
            /\ t <= k * d => score <= k
<1> DEFINE t == TotalNum(vacancy, SubScore(vacancy, cv, cosine))
           d == TotalDen(vacancy)
<1>1. t \in Nat /\ d \in Nat \ {0}
  BY Total, Counts DEF TotalDen
<1>2. score = IF Round(t, d) > 100 THEN 100 ELSE IF Round(t, d) < 0 THEN 0 ELSE Round(t, d)
  BY DEF score, ScoreOf, Value, cv
<1> HIDE DEF t, d
<1>3. Round(t, d) \in Nat
  <2>1. 0 * d <= t
    BY <1>1
  <2> QED
    BY <1>1, <2>1, RoundAtLeast
<1>4. k * d <= t => Round(t, d) >= k
  BY <1>1, RoundAtLeast
<1>5. t <= k * d => Round(t, d) <= k
  BY <1>1, RoundAtMost
<1>6. /\ score \in 0..100
      /\ k * d <= t => score >= k
      /\ t <= k * d => score <= k
  BY <1>2, <1>3, <1>4, <1>5
<1> QED
  BY <1>6 DEF t, d

\* With no signal all required skills are detected and half are evidenced.
LEMMA UnflaggedFits ==
  Typed => UnflaggedIsGoodFit
<1> SUFFICES ASSUME Typed, \A i \in DOMAIN SignalOrder : ~Raises(SignalOrder[i])
             PROVE  recommendation >= 2
  BY DEF UnflaggedIsGoodFit
<1> DEFINE n == Cardinality(Required(vacancy))
           k == Cardinality(Present(vacancy, cv))
           h == Cardinality(Evidenced(vacancy, cv))
<1>1. ~Raises("experience_insufficient_or_ambiguous") /\ ~Raises("required_skills_missing")
  <2>1. /\ 1 \in DOMAIN SignalOrder /\ SignalOrder[1] = "experience_insufficient_or_ambiguous"
        /\ 3 \in DOMAIN SignalOrder /\ SignalOrder[3] = "required_skills_missing"
    BY DEF SignalOrder
  <2> QED
    BY <2>1
<1>2. k = n
  <2>1. Missing(vacancy, cv) = {}
    BY <1>1 DEF Raises, Raised
  <2>2. Present(vacancy, cv) = Required(vacancy)
    BY <2>1 DEF Missing, Present
  <2> QED
    BY <2>2
<1>3. ~(2 * h < n)
  BY <1>1 DEF Raises, Raised, ExperienceLow, ExperienceRelevant
<1>4. n \in Nat /\ h \in Nat
  BY Counts
<1>5. 60 * TotalDen(vacancy) <= TotalNum(vacancy, SubScore(vacancy, cv, cosine))
  <2>1. TotalNum(vacancy, SubScore(vacancy, cv, cosine)) >= 100 * (35 * k + 20 * h) + 1860 * n
    BY Total
  <2>2. TotalNum(vacancy, SubScore(vacancy, cv, cosine)) \in Nat
    BY Total
  <2>3. TotalDen(vacancy) = 100 * n
    BY DEF TotalDen
  <2> HIDE DEF n, k, h
  <2> QED
    BY <1>2, <1>3, <1>4, <2>1, <2>2, <2>3
<1>6. score \in 0..100 /\ score >= 60
  BY <1>5, ScoreBounds
<1> QED
  BY <1>6 DEF recommendation, Recommendation

\* Without two fifths of the required skills all other factors end below 80.
LEMMA HighPriorityNeedsSkills ==
  Typed => HighPriorityHasSkills
<1> DEFINE n == Cardinality(Required(vacancy))
           k == Cardinality(Present(vacancy, cv))
           h == Cardinality(Evidenced(vacancy, cv))
<1> SUFFICES ASSUME Typed, 5 * k < 2 * n
             PROVE  recommendation # 3
  <2>1. Typed => n \in Nat /\ k \in Nat
    BY Counts
  <2> QED
    BY <2>1 DEF HighPriorityHasSkills
<1>1. n \in Nat /\ k \in Nat /\ h \in 0..n
  BY Counts
<1>2. TotalNum(vacancy, SubScore(vacancy, cv, cosine)) <= 79 * TotalDen(vacancy)
  <2>1. TotalNum(vacancy, SubScore(vacancy, cv, cosine)) <= 100 * (35 * k + 20 * h) + 4500 * n
    BY Total
  <2>2. TotalNum(vacancy, SubScore(vacancy, cv, cosine)) \in Nat
    BY Total
  <2>3. TotalDen(vacancy) = 100 * n
    BY DEF TotalDen
  <2> HIDE DEF n, k, h
  <2> QED
    BY <1>1, <2>1, <2>2, <2>3
<1>3. score \in 0..100 /\ score <= 79
  BY <1>2, ScoreBounds
<1> QED
  BY <1>3 DEF recommendation, Recommendation

\* The state stays of its type: a CV of sets of words and a vacancy of the instance.
LEMMA TypedInvariant ==
  /\ Init => Typed
  /\ Typed /\ [Next]_vars => Typed'
<1>1. Init => Typed
  BY DEF Init, Typed, Line
<1>2. Typed /\ [Next]_vars => Typed'
  <2> SUFFICES ASSUME Typed, [Next]_vars PROVE Typed'
    OBVIOUS
  <2>1. CASE Elaborate
    BY <2>1 DEF Elaborate, Typed
  <2>2. CASE \E l \in Lines, w \in Word : Say(l, w)
    <3> PICK l \in Lines, w \in Word : Say(l, w)
      BY <2>2
    <3>1. words' \in [Lines -> Line]
      BY DEF Say, Typed, Line
    <3>2. cosine' \in Cosines
      BY DEF Say, Typed
    <3> QED
      BY <3>1, <3>2 DEF Say, Typed
  <2>3. CASE UNCHANGED vars
    BY <2>3 DEF vars, Typed
  <2> QED
    BY <2>1, <2>2, <2>3 DEF Next
<1> QED
  BY <1>1, <1>2

\* Every sub-score lies between 0 and 1, and the score between 0 and 100.
LEMMA TypedScores ==
  Typed => TypeOK
<1> SUFFICES ASSUME Typed PROVE TypeOK
  OBVIOUS
<1>1. score \in 0..100
  <2>1. 0 \in 0..100
    OBVIOUS
  <2> QED
    BY <2>1, ScoreBounds
<1>2. ASSUME NEW f \in Factor
      PROVE  LET sub == SubScore(vacancy, cv, cosine)[f] IN sub.num \in 0..sub.den
  <2>1. f \in {"skills", "experience", "seniority", "modality_location", "evidence",
               "inconsistency"}
    BY DEF Factor, Weight
  <2>2. CASE f = "skills"
    BY <2>2, Counts DEF SubScore, SkillsMatch
  <2>3. CASE f = "experience"
    BY <2>3, Counts DEF SubScore, ExperienceRelevant
  <2>4. CASE f = "seniority"
    <3>1. SeniorityMatch(vacancy, cv).num \in 1..5 /\ SeniorityMatch(vacancy, cv).den = 5
      BY Fractions DEF SeniorityMatch
    <3> QED
      BY <2>4, <3>1 DEF SubScore
  <2>5. CASE f = "modality_location"
    <3>1. ModalityLocation(vacancy, cv).num \in 14..25 /\ ModalityLocation(vacancy, cv).den = 25
      BY Fractions DEF ModalityLocation
    <3> QED
      BY <2>5, <3>1 DEF SubScore
  <2>6. CASE f \in {"evidence", "inconsistency"}
    BY <2>6, Fractions DEF SubScore
  <2> QED
    BY <2>1, <2>2, <2>3, <2>4, <2>5, <2>6
<1> QED
  BY <1>1, <1>2 DEF TypeOK, Typed

\* Type correctness of every assessment: scores from 0 to 100, sub-scores from 0 to 1.
THEOREM AssessmentTypeCorrect == Spec => []TypeOK
<1>1. Spec => []Typed
  BY TypedInvariant, PTL DEF Spec
<1> QED
  BY <1>1, TypedScores, PTL

\* Score and signals agree: a CV without a signal is at least a good fit.
THEOREM UnflaggedIsFit == Spec => []UnflaggedIsGoodFit
<1>1. Spec => []Typed
  BY TypedInvariant, PTL DEF Spec
<1> QED
  BY <1>1, UnflaggedFits, PTL

\* The top recommendation takes two fifths of the required skills.
THEOREM HighPriorityEarned == Spec => []HighPriorityHasSkills
<1>1. Spec => []Typed
  BY TypedInvariant, PTL DEF Spec
<1> QED
  BY <1>1, HighPriorityNeedsSkills, PTL
=============================================================================
