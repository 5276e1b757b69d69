--------------------------- MODULE EvidenceProofs ---------------------------
(***************************************************************************)
(* For every vocabulary, vacancy and CV: what is shown beside a score      *)
(* agrees with it, what a guarded line says has no effect, and evidence    *)
(* never counts against a candidate.                                       *)
(***************************************************************************)
EXTENDS AssessmentProofs

-----------------------------------------------------------------------------
(* Lists, breakdown and score.                                              *)

\* What is beside a score is rounded to the nearest ten-thousandth.
LEMMA RoundNear ==
  ASSUME NEW n \in Nat, NEW d \in Nat \ {0}
  PROVE  /\ Round(n, d) \in Nat
         /\ 2 * (d * Round(n, d)) - 2 * n <= d
         /\ 2 * n - 2 * (d * Round(n, d)) <= d
<1> DEFINE q == n \div d
           r == n % d
<1>1. q \in Nat /\ r \in Nat /\ r < d /\ n = (d * q) + r
  BY SMT
<1>2. d * (q + 1) = d * q + d
  BY <1>1, SMT
<1>3. Round(n, d) = IF 2 * r < d \/ (2 * r = d /\ q % 2 = 0) THEN q ELSE q + 1
  BY DEF Round
<1> HIDE DEF q, r
<1>4. d * q \in Nat
  BY <1>1
<1>5. CASE Round(n, d) = q /\ 2 * r <= d
  BY <1>1, <1>4, <1>5
<1>6. CASE Round(n, d) = q + 1 /\ 2 * r >= d
  <2>1. d * Round(n, d) = d * q + d
    BY <1>2, <1>6
  <2> QED
    BY <1>1, <1>4, <1>6, <2>1
<1> QED
  BY <1>1, <1>3, <1>5, <1>6

\* A whole number stays what it is.
LEMMA RoundExact ==
  ASSUME NEW m \in Nat, NEW d \in Nat \ {0}
  PROVE  Round(m * d, d) = m
<1>1. m * d \in Nat /\ m * d <= m * d
  BY SMT
<1>2. Round(m * d, d) \in Nat /\ Round(m * d, d) >= m
  BY <1>1, RoundAtLeast
<1>3. Round(m * d, d) <= m
  BY <1>1, RoundAtMost
<1> QED
  BY <1>2, <1>3

\* The arithmetic: three roundings are off by half a unit each, the score's own in
\* units of ten thousand; n, k and h are the skills required, found and evidenced,
\* w what the other factors bring.
LEMMA RoundingsAddUp ==
  ASSUME NEW n \in Nat \ {0}, NEW k \in Nat, NEW h \in Nat, NEW w \in Nat,
         NEW x \in Nat, NEW y \in Nat, NEW z \in Nat, NEW t \in Nat,
         t = 100 * (35 * k + 20 * h) + n * w,
         2 * (n * x) - 2 * (350000 * k) <= n, 2 * (350000 * k) - 2 * (n * x) <= n,
         2 * (n * y) - 2 * (200000 * h) <= n, 2 * (200000 * h) - 2 * (n * y) <= n,
         2 * (100 * n * z) - 2 * t <= 100 * n, 2 * t - 2 * (100 * n * z) <= 100 * n
  PROVE  LET off == 10000 * z - (x + y + 100 * w)
         IN off <= 5001 /\ -off <= 5001
<1> DEFINE off == 10000 * z - (x + y + 100 * w)
<1>1. n * off = 10000 * (n * z) - (n * x + n * y + 100 * (n * w))
  BY SMT
<1>2. n * x \in Nat /\ n * y \in Nat /\ n * z \in Nat /\ n * w \in Nat
  BY SMT
<1>3. 100 * n * z = 100 * (n * z)
  BY SMT
<1>4. off \in Int
  OBVIOUS
<1> DEFINE nx == n * x
           ny == n * y
           nz == n * z
           nw == n * w
<1>5. /\ n * off = 10000 * nz - (nx + ny + 100 * nw)
      /\ nx \in Nat /\ ny \in Nat /\ nz \in Nat /\ nw \in Nat
      /\ t = 100 * (35 * k + 20 * h) + nw
      /\ 2 * nx - 2 * (350000 * k) <= n /\ 2 * (350000 * k) - 2 * nx <= n
      /\ 2 * ny - 2 * (200000 * h) <= n /\ 2 * (200000 * h) - 2 * ny <= n
      /\ 2 * (100 * nz) - 2 * t <= 100 * n /\ 2 * t - 2 * (100 * nz) <= 100 * n
  BY <1>1, <1>2, <1>3
<1> HIDE DEF off, nx, ny, nz, nw
<1>6. n * off <= 5001 * n /\ -(n * off) <= 5001 * n
  BY <1>5, SMT
<1>7. off <= 5001
  <2> SUFFICES ASSUME off >= 5002 PROVE FALSE
    BY <1>4
  <2>1. n * off >= n * 5002
    BY <1>4, SMT
  <2> QED
    BY <1>4, <1>6, <2>1, SMT
<1>8. -off <= 5001
  <2> SUFFICES ASSUME -off >= 5002 PROVE FALSE
    BY <1>4
  <2>1. n * (-off) >= n * 5002
    BY <1>4, SMT
  <2>2. n * (-off) = -(n * off)
    BY <1>4, SMT
  <2> QED
    BY <1>4, <1>6, <2>1, <2>2, SMT
<1> QED
  BY <1>7, <1>8 DEF off

\* The score is the rounded total: the total never needs the cut at 0 or 100.
LEMMA ScoreIsRounded ==
  ASSUME Typed
  PROVE  score = Round(TotalNum(vacancy, SubScore(vacancy, cv, cosine)), TotalDen(vacancy))
<1> DEFINE t == TotalNum(vacancy, SubScore(vacancy, cv, cosine))
           d == TotalDen(vacancy)
           n == Cardinality(Required(vacancy))
           k == Cardinality(Present(vacancy, cv))
           h == Cardinality(Evidenced(vacancy, cv))
<1>1. t \in Nat /\ d \in Nat \ {0} /\ d = 100 * n
  BY Total, Counts DEF TotalDen
<1>2. t <= 100 * d
  <2>1. t <= 100 * (35 * k + 20 * h) + 4500 * n
    BY Total
  <2>2. n \in Nat /\ k \in 0..n /\ h \in 0..n
    BY Counts
  <2> HIDE DEF t, d, n, k, h
  <2> QED
    BY <1>1, <2>1, <2>2
<1>3. Round(t, d) \in Nat /\ Round(t, d) <= 100
  <2> HIDE DEF t, d
  <2>1. Round(t, d) <= 100
    BY <1>1, <1>2, RoundAtMost
  <2>2. Round(t, d) \in Nat
    BY <1>1, RoundNear
  <2> QED
    BY <2>1, <2>2
<1>4. score = IF Round(t, d) > 100 THEN 100 ELSE IF Round(t, d) < 0 THEN 0 ELSE Round(t, d)
  BY DEF score, ScoreOf, Value, cv
<1> HIDE DEF t, d
<1>5. score = Round(t, d)
  BY <1>3, <1>4
<1> QED
  BY <1>5 DEF t, d

\* The breakdown reconciles with the score: four of its entries are exact.
LEMMA BreakdownAddsUp == Typed => BreakdownReconciles
<1> SUFFICES ASSUME Typed PROVE BreakdownReconciles
  OBVIOUS
<1> DEFINE n == Cardinality(Required(vacancy))
           k == Cardinality(Present(vacancy, cv))
           h == Cardinality(Evidenced(vacancy, cv))
           a == SeniorityMatch(vacancy, cv).num
           b == ModalityLocation(vacancy, cv).num
           w == 300 * a + 40 * b + 10 * cosine + 1000
           t == TotalNum(vacancy, SubScore(vacancy, cv, cosine))
           e == Weighted(vacancy, cv, cosine)
<1>1. n \in Nat \ {0} /\ k \in Nat /\ h \in Nat
  BY Counts
<1>2. a \in Nat /\ b \in Nat /\ cosine \in Nat
  BY Fractions
<1>3. t = 100 * (35 * k + 20 * h) + n * w /\ t \in Nat
  BY Total DEF TotalNum, SubScore, SkillsMatch, ExperienceRelevant
<1>4. /\ e.skills = Round(10000 * 35 * k, n)
      /\ e.experience = Round(10000 * 20 * h, n)
      /\ e.seniority = Round(10000 * 15 * a, 5)
      /\ e.modality_location = Round(10000 * 10 * b, 25)
      /\ e.evidence = Round(10000 * 10 * cosine, 100)
      /\ e.inconsistency = Round(10000 * 10 * 1, 1)
  BY DEF Weighted, Factor, Weight, SubScore, SkillsMatch, ExperienceRelevant,
         SeniorityMatch, ModalityLocation
<1>5. score = Round(t, 100 * n)
  BY ScoreIsRounded DEF TotalDen
<1>6. ASSUME LET off == 10000 * score - (e.skills + e.experience + e.seniority
                          + e.modality_location + e.evidence + e.inconsistency)
             IN off <= 5001 /\ -off <= 5001
      PROVE  BreakdownReconciles
  BY <1>6 DEF BreakdownReconciles
<1> HIDE DEF n, k, h, a, b, t, e
<1>7. /\ e.seniority = 30000 * a
      /\ e.modality_location = 4000 * b
      /\ e.evidence = 1000 * cosine
      /\ e.inconsistency = 100000
  <2>1. /\ 30000 * a \in Nat /\ (30000 * a) * 5 = 10000 * 15 * a
        /\ 4000 * b \in Nat /\ (4000 * b) * 25 = 10000 * 10 * b
        /\ 1000 * cosine \in Nat /\ (1000 * cosine) * 100 = 10000 * 10 * cosine
        /\ 100000 * 1 = 10000 * 10 * 1
    BY <1>2
  <2>2. Round((30000 * a) * 5, 5) = 30000 * a
    BY <2>1, RoundExact
  <2>3. Round((4000 * b) * 25, 25) = 4000 * b
    BY <2>1, RoundExact
  <2>4. Round((1000 * cosine) * 100, 100) = 1000 * cosine
    BY <2>1, RoundExact
  <2>5. Round(100000 * 1, 1) = 100000
    BY RoundExact
  <2> QED
    BY <1>4, <2>1, <2>2, <2>3, <2>4, <2>5
<1>8. /\ e.skills \in Nat
      /\ 2 * (n * e.skills) - 2 * (350000 * k) <= n
      /\ 2 * (350000 * k) - 2 * (n * e.skills) <= n
  <2>1. 10000 * 35 * k = 350000 * k /\ 350000 * k \in Nat
    BY <1>1
  <2> QED
    BY <1>1, <1>4, <2>1, RoundNear
<1>9. /\ e.experience \in Nat
      /\ 2 * (n * e.experience) - 2 * (200000 * h) <= n
      /\ 2 * (200000 * h) - 2 * (n * e.experience) <= n
  <2>1. 10000 * 20 * h = 200000 * h /\ 200000 * h \in Nat
    BY <1>1
  <2> QED
    BY <1>1, <1>4, <2>1, RoundNear
<1>10. /\ score \in Nat
       /\ 2 * (100 * n * score) - 2 * t <= 100 * n
       /\ 2 * t - 2 * (100 * n * score) <= 100 * n
  <2> DEFINE d == 100 * n
  <2>1. d \in Nat \ {0}
    BY <1>1
  <2>2. score = Round(t, d)
    BY <1>5
  <2> HIDE DEF d
  <2>3. t \in Nat
    BY <1>3
  <2>4. /\ score \in Nat
        /\ 2 * (d * score) - 2 * t <= d
        /\ 2 * t - 2 * (d * score) <= d
    BY <2>1, <2>2, <2>3, RoundNear
  <2> QED
    BY <2>4 DEF d
<1>11. w \in Nat /\ 100 * w = 30000 * a + 4000 * b + 1000 * cosine + 100000
  BY <1>2
<1> HIDE DEF w
<1>12. LET off == 10000 * score - (e.skills + e.experience + 100 * w)
       IN off <= 5001 /\ -off <= 5001
  BY <1>1, <1>3, <1>8, <1>9, <1>10, <1>11, RoundingsAddUp
<1>13. e.skills + e.experience + e.seniority + e.modality_location + e.evidence
         + e.inconsistency = e.skills + e.experience + 100 * w
  BY <1>2, <1>7, <1>8, <1>9, <1>11
<1> QED
  BY <1>6, <1>12, <1>13

\* The breakdown adds up to the score, to a bit more than half a point.
THEOREM BreakdownsReconcile == Spec => []BreakdownReconciles
<1>1. Spec => []Typed
  BY TypedInvariant, PTL DEF Spec
<1> QED
  BY <1>1, BreakdownAddsUp, PTL

-----------------------------------------------------------------------------
(* One word more.                                                           *)

\* What a step that says something changes: one line, by one word.
LEMMA OneWord ==
  ASSUME Typed, NEW m \in Lines, NEW w \in Word, Say(m, w), NEW l \in Lines, Added(l) # {}
  PROVE  /\ l = m /\ Added(l) = {w} /\ words'[l] = words[l] \cup {w}
         /\ words[l] \subseteq Word
         /\ \A i \in Lines : i # l => words'[i] = words[i]
         /\ DOMAIN words = Lines /\ DOMAIN words' = Lines
         /\ vacancy' = vacancy /\ long' = long
         /\ Skills(cv') = Skills(cv) => cosine' = cosine
<1>1. words \in [Lines -> Line] /\ words' = [words EXCEPT ![m] = @ \cup {w}] /\ w \notin words[m]
  BY DEF Say, Typed
<1>2. l = m
  BY <1>1 DEF Added
<1>3. words'[l] = words[l] \cup {w} /\ words[l] \subseteq Word
  BY <1>1, <1>2 DEF Line
<1>4. Added(l) = {w}
  BY <1>1, <1>2, <1>3 DEF Added
<1>5. \A i \in Lines : i # l => words'[i] = words[i]
  BY <1>1, <1>2
<1>6. vacancy' = vacancy /\ long' = long
  BY DEF Say
<1>7. Skills(cv') = Skills(cv) => cosine' = cosine
  BY DEF Say, cv
<1> QED
  BY <1>1, <1>2, <1>3, <1>4, <1>5, <1>6, <1>7

\* With a word more, what the CV mentions grows by what is within that word.
LEMMA MentionedGrows ==
  ASSUME NEW w \in Word, NEW l \in Lines, NEW ws, NEW ns,
         DOMAIN ws = Lines, DOMAIN ns = Lines,
         ns[l] = ws[l] \cup {w}, \A i \in Lines : i # l => ns[i] = ws[i]
  PROVE  Mentioned(Range(ns)) = Mentioned(Range(ws)) \cup Within[w]
<1>1. \A lines, x : x \in Mentioned(lines) <=> \E k \in lines : \E y \in k : x \in Within[y]
  BY DEF Mentioned
<1>2. \A k : k \in Range(ws) <=> \E i \in Lines : k = ws[i]
  BY DEF Range
<1>3. \A k : k \in Range(ns) <=> \E i \in Lines : k = ns[i]
  BY DEF Range
<1>4. ASSUME NEW x \in Mentioned(Range(ns)) PROVE x \in Mentioned(Range(ws)) \cup Within[w]
  <2>1. PICK i \in Lines : \E y \in ns[i] : x \in Within[y]
    BY <1>1, <1>3
  <2>2. PICK y \in ns[i] : x \in Within[y]
    BY <2>1
  <2>3. CASE y \in ws[i]
    BY <1>1, <1>2, <2>2, <2>3
  <2>4. CASE y \notin ws[i]
    <3>1. i = l /\ y = w
      BY <2>2, <2>4
    <3> QED
      BY <2>2, <3>1
  <2> QED
    BY <2>3, <2>4
<1>5. ASSUME NEW x \in Mentioned(Range(ws)) PROVE x \in Mentioned(Range(ns))
  <2>1. PICK i \in Lines : \E y \in ws[i] : x \in Within[y]
    BY <1>1, <1>2
  <2>2. ws[i] \subseteq ns[i]
    BY DEF Range
  <2> QED
    BY <1>1, <1>3, <2>1, <2>2
<1>6. ASSUME NEW x \in Within[w] PROVE x \in Mentioned(Range(ns))
  <2>1. w \in ns[l] /\ ns[l] \in Range(ns)
    BY <1>3
  <2> QED
    BY <1>1, <1>6, <2>1
<1> QED
  BY <1>4, <1>5, <1>6

\* A line with a sensitive word in it stays sensitive whatever is added.
LEMMA SensitiveStays ==
  ASSUME NEW k, NEW j, k \subseteq j, IsSensitive(k)
  PROVE  IsSensitive(j)
<1>1. Mentioned({k}) \subseteq Mentioned({j})
  BY DEF Mentioned
<1> QED
  BY <1>1 DEF IsSensitive

\* The seven signals and what raises each.
LEMMA SevenSignals ==
  ASSUME NEW v, NEW lines, NEW lg
  PROVE  /\ Range(SignalOrder) =
              {"experience_insufficient_or_ambiguous", "seniority_unsupported",
               "required_skills_missing", "required_language_not_evidenced",
               "certifications_unverifiable", "salary_expectation_missing",
               "low_structured_evidence"}
         /\ Raised("experience_insufficient_or_ambiguous", v, lines, lg)
              <=> ExperienceLow(v, lines)
         /\ Raised("seniority_unsupported", v, lines, lg)
              <=> InferSeniority(lines) < v.seniority
         /\ Raised("required_skills_missing", v, lines, lg) <=> Missing(v, lines) # {}
         /\ Raised("required_language_not_evidenced", v, lines, lg)
              <=> v.english /\ Mentioned(Sanitize(lines)) \cap EnglishTokens = {}
         /\ Raised("certifications_unverifiable", v, lines, lg)
              <=> /\ Mentioned(Sanitize(lines)) \cap CertTokens # {}
                  /\ Mentioned(Sanitize(lines)) \cap VerifiableTokens = {}
         /\ Raised("salary_expectation_missing", v, lines, lg)
              <=> v.salary /\ Mentioned(Sanitize(lines)) \cap SalaryTokens = {}
         /\ Raised("low_structured_evidence", v, lines, lg)
              <=> ~lg \/ Cardinality(Skills(lines)) <= 1
<1>1. Range(SignalOrder) =
        {"experience_insufficient_or_ambiguous", "seniority_unsupported",
         "required_skills_missing", "required_language_not_evidenced",
         "certifications_unverifiable", "salary_expectation_missing",
         "low_structured_evidence"}
  <2>1. DOMAIN SignalOrder = 1..7
    BY DEF SignalOrder
  <2>2. 1..7 = {1, 2, 3, 4, 5, 6, 7}
    OBVIOUS
  <2> QED
    BY <2>1, <2>2 DEF Range, SignalOrder
<1>2. Raised("experience_insufficient_or_ambiguous", v, lines, lg) <=> ExperienceLow(v, lines)
  BY DEF Raised
<1>3. Raised("seniority_unsupported", v, lines, lg) <=> InferSeniority(lines) < v.seniority
  BY DEF Raised
<1>4. Raised("required_skills_missing", v, lines, lg) <=> Missing(v, lines) # {}
  BY DEF Raised
<1>5. Raised("required_language_not_evidenced", v, lines, lg)
        <=> v.english /\ Mentioned(Sanitize(lines)) \cap EnglishTokens = {}
  BY DEF Raised
<1>6. Raised("certifications_unverifiable", v, lines, lg)
        <=> /\ Mentioned(Sanitize(lines)) \cap CertTokens # {}
            /\ Mentioned(Sanitize(lines)) \cap VerifiableTokens = {}
  BY DEF Raised
<1>7. Raised("salary_expectation_missing", v, lines, lg)
        <=> v.salary /\ Mentioned(Sanitize(lines)) \cap SalaryTokens = {}
  BY DEF Raised
<1>8. Raised("low_structured_evidence", v, lines, lg) <=> ~lg \/ Cardinality(Skills(lines)) <= 1
  BY DEF Raised
<1> QED
  BY <1>1, <1>2, <1>3, <1>4, <1>5, <1>6, <1>7, <1>8

\* What is read of a CV beside its skills is the sanitized text: with the same of
\* both the score and the signals are the same.
LEMMA SameReading ==
  ASSUME NEW v, NEW a, NEW b, NEW c, NEW lg,
         Skills(a) = Skills(b), Sanitize(a) = Sanitize(b)
  PROVE  Value(v, a, c) = Value(v, b, c) /\ Signals(v, a, lg) = Signals(v, b, lg)
<1>1. /\ Present(v, a) = Present(v, b) /\ Missing(v, a) = Missing(v, b)
      /\ Evidenced(v, a) = Evidenced(v, b) /\ InferSeniority(a) = InferSeniority(b)
      /\ Located(v, a) <=> Located(v, b)
  BY DEF Present, Missing, Evidenced, InferSeniority, Located
<1>2. /\ SkillsMatch(v, a) = SkillsMatch(v, b)
      /\ ExperienceRelevant(v, a) = ExperienceRelevant(v, b)
      /\ SeniorityMatch(v, a) = SeniorityMatch(v, b)
      /\ ModalityLocation(v, a) = ModalityLocation(v, b)
  BY <1>1 DEF SkillsMatch, ExperienceRelevant, SeniorityMatch, ModalityLocation
<1>3. SubScore(v, a, c) = SubScore(v, b, c)
  BY <1>2 DEF SubScore
<1>4. Value(v, a, c) = Value(v, b, c)
  BY <1>3 DEF Value
<1>5. \A signal \in Range(SignalOrder) : Raised(signal, v, a, lg) <=> Raised(signal, v, b, lg)
  <2>1. ExperienceLow(v, a) <=> ExperienceLow(v, b)
    BY <1>2 DEF ExperienceLow
  <2>2. Mentioned(Sanitize(a)) = Mentioned(Sanitize(b))
    OBVIOUS
  <2> QED
    BY <1>1, <2>1, <2>2, SevenSignals
<1>6. {signal \in Range(SignalOrder) : Raised(signal, v, a, lg)}
        = {signal \in Range(SignalOrder) : Raised(signal, v, b, lg)}
  BY <1>5
<1>7. Signals(v, a, lg) = Signals(v, b, lg)
  BY <1>6 DEF Signals
<1> QED
  BY <1>4, <1>7

\* A word on a guarded line leaves the sanitized text alone.
LEMMA GuardedWord ==
  ASSUME NEW w \in Word, NEW l \in Lines, NEW ws, NEW ns,
         DOMAIN ws = Lines, DOMAIN ns = Lines, IsSensitive(ws[l]),
         ns[l] = ws[l] \cup {w}, \A i \in Lines : i # l => ns[i] = ws[i]
  PROVE  Sanitize(Range(ns)) = Sanitize(Range(ws))
<1>1. IsSensitive(ns[l])
  BY SensitiveStays
<1>2. \A k : k \in Range(ws) <=> \E i \in Lines : k = ws[i]
  BY DEF Range
<1>3. \A k : k \in Range(ns) <=> \E i \in Lines : k = ns[i]
  BY DEF Range
<1>4. \A k : k \in Sanitize(Range(ns)) <=> k \in Sanitize(Range(ws))
  BY <1>1, <1>2, <1>3 DEF Sanitize
<1> QED
  BY <1>4

\* No step's word on a guarded line counts.
LEMMA GuardedStep ==
  ASSUME Typed, [Next]_vars, NEW l \in Lines,
         Added(l) # {}, IsSensitive(words[l]), Mentioned({Added(l)}) \cap SkillVocab = {}
  PROVE  ScoreOf(words', cosine') = score /\ signals' = signals
<1>1. PICK m \in Lines, w \in Word : Say(m, w)
  BY DEF Next, Elaborate, vars, Added
<1>2. /\ Added(l) = {w} /\ words'[l] = words[l] \cup {w}
      /\ \A i \in Lines : i # l => words'[i] = words[i]
      /\ DOMAIN words = Lines /\ DOMAIN words' = Lines
      /\ vacancy' = vacancy /\ long' = long
      /\ Skills(cv') = Skills(cv) => cosine' = cosine
  BY <1>1, OneWord
<1>3. Within[w] \cap SkillVocab = {}
  <2>1. Mentioned({{w}}) = Within[w]
    BY DEF Mentioned
  <2> QED
    BY <1>2, <2>1
<1>4. Mentioned(cv') = Mentioned(cv) \cup Within[w]
  BY <1>2, MentionedGrows DEF cv
<1>5. Skills(cv') = Skills(cv)
  BY <1>3, <1>4 DEF Skills
<1>6. Sanitize(cv') = Sanitize(cv)
  BY <1>2, GuardedWord DEF cv
<1>7. cosine' = cosine
  BY <1>2, <1>5
<1>8. /\ Value(vacancy, cv', cosine) = Value(vacancy, cv, cosine)
      /\ Signals(vacancy, cv', long) = Signals(vacancy, cv, long)
  BY <1>5, <1>6, SameReading
<1>9. ScoreOf(words', cosine') = score
  BY <1>7, <1>8 DEF score, ScoreOf, cv
<1>10. signals' = signals
  BY <1>2, <1>8 DEF signals
<1> QED
  BY <1>9, <1>10

\* Fairness: what a guarded line says beside the skills never counts.
THEOREM GuardedLinesIgnored == Spec => SensitiveLinesIgnored
<1>1. Spec => []Typed
  BY TypedInvariant, PTL DEF Spec
<1>2. Typed /\ [Next]_vars =>
        [\A l \in Lines :
           (Added(l) # {} /\ IsSensitive(words[l]) /\ Mentioned({Added(l)}) \cap SkillVocab = {}) =>
             ScoreOf(words', cosine') = score /\ signals' = signals]_vars
  BY GuardedStep
<1> QED
  BY <1>1, <1>2, PTL DEF Spec, SensitiveLinesIgnored

-----------------------------------------------------------------------------
(* More evidence.                                                           *)

\* Ten points more in the total are ten points more in its rounding: ten is even,
\* and so a half is rounded to the same side.
LEMMA RoundMonotone ==
  ASSUME NEW t \in Nat, NEW u \in Nat, NEW d \in Nat \ {0}, NEW k \in {0, 10}, t <= u + k * d
  PROVE  Round(t, d) <= Round(u, d) + k
<1> DEFINE p == t \div d
           q == u \div d
           r == t % d
           s == u % d
<1>1. /\ p \in Nat /\ r \in Nat /\ r < d /\ t = (d * p) + r
      /\ q \in Nat /\ s \in Nat /\ s < d /\ u = (d * q) + s
  BY SMT
<1>2. /\ Round(t, d) = IF 2 * r < d \/ (2 * r = d /\ p % 2 = 0) THEN p ELSE p + 1
      /\ Round(u, d) = IF 2 * s < d \/ (2 * s = d /\ q % 2 = 0) THEN q ELSE q + 1
  BY DEF Round
<1> HIDE DEF p, q, r, s
<1>3. d * (q + k) = d * q + k * d
  BY <1>1, SMT
<1>4. d * p + r <= d * (q + k) + s
  BY <1>1, <1>3, SMT
<1>5. p <= q + k
  <2> SUFFICES ASSUME p >= q + k + 1 PROVE FALSE
    BY <1>1
  <2>1. d * p >= d * (q + k + 1)
    BY <1>1, SMT
  <2>2. d * (q + k + 1) = d * (q + k) + d
    BY <1>1, SMT
  <2> QED
    BY <1>1, <1>4, <2>1, <2>2, SMT
<1>6. CASE p < q + k
  BY <1>1, <1>2, <1>6
<1>7. CASE p = q + k
  <2>1. r <= s
    BY <1>1, <1>4, <1>7, SMT
  <2>2. p % 2 = q % 2
    BY <1>1, <1>7
  <2> QED
    BY <1>1, <1>2, <1>7, <2>1, <2>2
<1> QED
  BY <1>1, <1>5, <1>6, <1>7

\* What a skill on a line that may be read does to the text that is read.
LEMMA OpenWord ==
  ASSUME NEW w \in Word, NEW l \in Lines, NEW ws \in [Lines -> Line],
         ~IsSensitive(ws[l] \cup {w})
  PROVE  Mentioned(Sanitize(Range([ws EXCEPT ![l] = @ \cup {w}])))
           = Mentioned(Sanitize(Range(ws))) \cup Within[w]
<1> DEFINE ns == [ws EXCEPT ![l] = @ \cup {w}]
<1>0. /\ DOMAIN ws = Lines /\ DOMAIN ns = Lines
      /\ ns[l] = ws[l] \cup {w} /\ \A i \in Lines : i # l => ns[i] = ws[i]
  OBVIOUS
<1> HIDE DEF ns
<1>1. ~IsSensitive(ns[l]) /\ ~IsSensitive(ws[l])
  BY <1>0, SensitiveStays
<1>2. \A k : k \in Sanitize(Range(ws)) <=> \E i \in Lines : k = ws[i] /\ ~IsSensitive(ws[i])
  BY <1>0 DEF Range, Sanitize
<1>3. \A k : k \in Sanitize(Range(ns)) <=> \E i \in Lines : k = ns[i] /\ ~IsSensitive(ns[i])
  BY <1>0 DEF Range, Sanitize
<1>4. \A lines, x : x \in Mentioned(lines) <=> \E k \in lines : \E y \in k : x \in Within[y]
  BY DEF Mentioned
<1>5. ASSUME NEW x \in Mentioned(Sanitize(Range(ns)))
      PROVE  x \in Mentioned(Sanitize(Range(ws))) \cup Within[w]
  <2>1. PICK i \in Lines : ~IsSensitive(ns[i]) /\ \E y \in ns[i] : x \in Within[y]
    BY <1>3, <1>4
  <2>2. PICK y \in ns[i] : x \in Within[y]
    BY <2>1
  <2>3. ~IsSensitive(ws[i])
    BY <1>0, <1>1, <2>1
  <2>4. CASE y \in ws[i]
    BY <1>2, <1>4, <2>2, <2>3, <2>4
  <2>5. CASE y \notin ws[i]
    <3>1. y = w
      BY <1>0, <2>2, <2>5
    <3> QED
      BY <2>2, <3>1
  <2> QED
    BY <2>4, <2>5
<1>6. ASSUME NEW x \in Mentioned(Sanitize(Range(ws)))
      PROVE  x \in Mentioned(Sanitize(Range(ns)))
  <2>1. PICK i \in Lines : ~IsSensitive(ws[i]) /\ \E y \in ws[i] : x \in Within[y]
    BY <1>2, <1>4
  <2>2. ws[i] \subseteq ns[i] /\ ~IsSensitive(ns[i])
    BY <1>0, <1>1, <2>1
  <2> QED
    BY <1>3, <1>4, <2>1, <2>2
<1>7. ASSUME NEW x \in Within[w] PROVE x \in Mentioned(Sanitize(Range(ns)))
  <2>1. w \in ns[l] /\ ns[l] \in Sanitize(Range(ns))
    BY <1>0, <1>1, <1>3
  <2> QED
    BY <1>4, <1>7, <2>1
<1>8. Mentioned(Sanitize(Range(ns))) = Mentioned(Sanitize(Range(ws))) \cup Within[w]
  BY <1>5, <1>6, <1>7
<1> QED
  BY <1>8 DEF ns

\* With a skill more that may be read, and nothing else: more skills, fewer gaps, more
\* evidence, the same seniority.
LEMMA ReadSkill ==
  ASSUME NEW v \in Vacancies, NEW a, NEW b, NEW w \in SkillVocab,
         Mentioned(b) = Mentioned(a) \cup Within[w],
         Mentioned(Sanitize(b)) = Mentioned(Sanitize(a)) \cup Within[w]
  PROVE  /\ Skills(a) \subseteq Skills(b) /\ Missing(v, b) \subseteq Missing(v, a)
         /\ BuildSkills(v, a) \subseteq BuildSkills(v, b)
         /\ Present(v, a) \subseteq Present(v, b) /\ Evidenced(v, a) \subseteq Evidenced(v, b)
         /\ InferSeniority(b) = InferSeniority(a)
         /\ Mentioned(Sanitize(a)) \subseteq Mentioned(Sanitize(b))
         /\ Mentioned(Sanitize(b)) \cap CertTokens = Mentioned(Sanitize(a)) \cap CertTokens
<1>1. Skills(a) \subseteq Skills(b)
  BY DEF Skills
<1>2. Within[w] \cap (SeniorTokens \cup JuniorTokens \cup CertTokens) = {}
  BY PlainSkillsAssumption
<1>3. /\ Mentioned(Sanitize(b)) \cap SeniorTokens = Mentioned(Sanitize(a)) \cap SeniorTokens
      /\ Mentioned(Sanitize(b)) \cap JuniorTokens = Mentioned(Sanitize(a)) \cap JuniorTokens
      /\ Mentioned(Sanitize(b)) \cap CertTokens = Mentioned(Sanitize(a)) \cap CertTokens
  BY <1>2
<1>4. InferSeniority(b) = InferSeniority(a)
  BY <1>3 DEF InferSeniority
<1>5. Normalized(Skills(a)) \subseteq Normalized(Skills(b))
  BY <1>1 DEF Normalized
<1>6. BuildSkills(v, a) \subseteq BuildSkills(v, b)
  BY <1>1 DEF BuildSkills
<1> QED
  BY <1>1, <1>3, <1>4, <1>5, <1>6 DEF Missing, Present, Evidenced

\* The counts grow with the sets.
LEMMA MoreCounted ==
  ASSUME NEW v \in Vacancies, NEW a, NEW b,
         Skills(a) \subseteq Skills(b),
         Present(v, a) \subseteq Present(v, b), Evidenced(v, a) \subseteq Evidenced(v, b)
  PROVE  /\ Cardinality(Required(v)) \in Nat
         /\ Cardinality(Present(v, a)) \in Nat /\ Cardinality(Present(v, b)) \in Nat
         /\ Cardinality(Present(v, a)) <= Cardinality(Present(v, b))
         /\ Cardinality(Evidenced(v, a)) \in Nat /\ Cardinality(Evidenced(v, b)) \in Nat
         /\ Cardinality(Evidenced(v, a)) <= Cardinality(Evidenced(v, b))
         /\ Cardinality(Skills(a)) \in Nat /\ Cardinality(Skills(b)) \in Nat
         /\ Cardinality(Skills(a)) <= Cardinality(Skills(b))
<1>1. IsFiniteSet(Required(v)) /\ IsFiniteSet(SkillVocab)
  BY RequiredFinite, TextAssumption
<1>2. Present(v, b) \subseteq Required(v) /\ Evidenced(v, b) \subseteq Required(v)
      /\ Skills(b) \subseteq SkillVocab
  BY DEF Present, Evidenced, Skills
<1>3. IsFiniteSet(Present(v, b)) /\ IsFiniteSet(Evidenced(v, b)) /\ IsFiniteSet(Skills(b))
  BY <1>1, <1>2, FS_Subset
<1>4. /\ IsFiniteSet(Present(v, a)) /\ Cardinality(Present(v, a)) <= Cardinality(Present(v, b))
      /\ IsFiniteSet(Evidenced(v, a))
      /\ Cardinality(Evidenced(v, a)) <= Cardinality(Evidenced(v, b))
      /\ IsFiniteSet(Skills(a)) /\ Cardinality(Skills(a)) <= Cardinality(Skills(b))
  BY <1>3, FS_Subset
<1> QED
  BY <1>1, <1>3, <1>4, FS_CardinalityType

\* No signal comes up.
LEMMA NoNewSignal ==
  ASSUME NEW v \in Vacancies, NEW a, NEW b, NEW lg,
         Skills(a) \subseteq Skills(b), Missing(v, b) \subseteq Missing(v, a),
         Present(v, a) \subseteq Present(v, b), Evidenced(v, a) \subseteq Evidenced(v, b),
         InferSeniority(b) = InferSeniority(a),
         Mentioned(Sanitize(a)) \subseteq Mentioned(Sanitize(b)),
         Mentioned(Sanitize(b)) \cap CertTokens = Mentioned(Sanitize(a)) \cap CertTokens
  PROVE  \A signal \in Range(SignalOrder) : Raised(signal, v, b, lg) => Raised(signal, v, a, lg)
<1>1. ExperienceLow(v, b) => ExperienceLow(v, a)
  BY MoreCounted DEF ExperienceLow, ExperienceRelevant
<1>2. Cardinality(Skills(b)) <= 1 => Cardinality(Skills(a)) <= 1
  BY MoreCounted
<1>3. \A tokens : Mentioned(Sanitize(b)) \cap tokens = {} => Mentioned(Sanitize(a)) \cap tokens = {}
  OBVIOUS
<1>4. SUFFICES ASSUME NEW signal \in Range(SignalOrder), Raised(signal, v, b, lg)
               PROVE  Raised(signal, v, a, lg)
  OBVIOUS
<1>5. signal \in {"experience_insufficient_or_ambiguous", "seniority_unsupported",
                  "required_skills_missing", "required_language_not_evidenced",
                  "certifications_unverifiable", "salary_expectation_missing",
                  "low_structured_evidence"}
  BY SevenSignals
<1>6. CASE signal = "experience_insufficient_or_ambiguous"
  BY <1>1, <1>4, <1>6, SevenSignals
<1>7. CASE signal = "seniority_unsupported"
  BY <1>4, <1>7, SevenSignals
<1>8. CASE signal = "required_skills_missing"
  BY <1>4, <1>8, SevenSignals
<1>9. CASE signal = "required_language_not_evidenced"
  BY <1>3, <1>4, <1>9, SevenSignals
<1>10. CASE signal = "certifications_unverifiable"
  BY <1>3, <1>4, <1>10, SevenSignals
<1>11. CASE signal = "salary_expectation_missing"
  BY <1>3, <1>4, <1>11, SevenSignals
<1>12. CASE signal = "low_structured_evidence"
  BY <1>2, <1>4, <1>12, SevenSignals
<1> QED
  BY <1>5, <1>6, <1>7, <1>8, <1>9, <1>10, <1>11, <1>12

\* The total does not fall but for the embeddings' ten points.
LEMMA TotalMonotone ==
  ASSUME NEW v \in Vacancies, NEW a, NEW b, NEW c \in 0..100, NEW g \in 0..100,
         NEW k \in {0, 10}, g >= c \/ k = 10,
         Skills(a) \subseteq Skills(b),
         Present(v, a) \subseteq Present(v, b), Evidenced(v, a) \subseteq Evidenced(v, b),
         InferSeniority(b) = InferSeniority(a),
         Mentioned(Sanitize(a)) \subseteq Mentioned(Sanitize(b))
  PROVE  TotalNum(v, SubScore(v, a, c)) <= TotalNum(v, SubScore(v, b, g)) + k * TotalDen(v)
<1> DEFINE n == Cardinality(Required(v))
           p1 == Cardinality(Present(v, a))
           p2 == Cardinality(Present(v, b))
           h1 == Cardinality(Evidenced(v, a))
           h2 == Cardinality(Evidenced(v, b))
           s == SeniorityMatch(v, a).num
           m1 == ModalityLocation(v, a).num
           m2 == ModalityLocation(v, b).num
           w1 == 300 * s + 40 * m1 + 10 * c + 1000
           w2 == 300 * s + 40 * m2 + 10 * g + 1000
<1>1. n \in Nat /\ p1 \in Nat /\ p2 \in Nat /\ h1 \in Nat /\ h2 \in Nat /\ p1 <= p2 /\ h1 <= h2
  BY MoreCounted
<1>2. s \in Nat /\ SeniorityMatch(v, b).num = s
  BY DEF SeniorityMatch
<1>3. m1 \in Nat /\ m2 \in Nat /\ m1 <= m2
  <2>1. Located(v, a) => Located(v, b)
    BY DEF Located
  <2> QED
    BY <2>1 DEF ModalityLocation
<1>4. /\ TotalNum(v, SubScore(v, a, c)) = 100 * (35 * p1 + 20 * h1) + n * w1
      /\ TotalNum(v, SubScore(v, b, g)) = 100 * (35 * p2 + 20 * h2) + n * w2
      /\ k * TotalDen(v) = k * (100 * n)
  BY <1>2 DEF TotalNum, TotalDen, SubScore, SkillsMatch, ExperienceRelevant
<1> HIDE DEF n, p1, p2, h1, h2, s, m1, m2
<1>5. w1 \in Nat /\ w2 \in Nat /\ w1 <= w2 + 100 * k
  BY <1>2, <1>3
<1> HIDE DEF w1, w2
<1>6. n * w1 <= n * (w2 + 100 * k) /\ n * w1 \in Nat /\ n * w2 \in Nat
  BY <1>1, <1>5, SMT
<1>7. n * (w2 + 100 * k) = n * w2 + k * (100 * n)
  BY <1>1, <1>5, SMT
<1>8. k * (100 * n) \in Nat
  BY <1>1
<1> DEFINE x == n * w1
           y == n * w2
           z == k * (100 * n)
<1>9. x <= y + z /\ x \in Nat /\ y \in Nat /\ z \in Nat
  BY <1>6, <1>7, <1>8
<1> HIDE DEF x, y, z
<1>10. 100 * (35 * p1 + 20 * h1) + x <= 100 * (35 * p2 + 20 * h2) + y + z
  BY <1>1, <1>9
<1> QED
  BY <1>4, <1>10 DEF x, y, z

\* The score a step leads to is the rounded total as well.
LEMMA ScoreAfter ==
  Typed' => (/\ score = Round(TotalNum(vacancy, SubScore(vacancy, cv, cosine)),
                              TotalDen(vacancy))
             /\ TotalNum(vacancy, SubScore(vacancy, cv, cosine)) \in Nat)'
<1>1. Typed => /\ score = Round(TotalNum(vacancy, SubScore(vacancy, cv, cosine)),
                               TotalDen(vacancy))
               /\ TotalNum(vacancy, SubScore(vacancy, cv, cosine)) \in Nat
  BY ScoreIsRounded, Total
<1> QED
  BY <1>1, PTL

\* A step that lets the parser find a skill more on a line that may be read.
LEMMA SkillStep ==
  ASSUME Typed, Typed', [Next]_vars, NEW l \in Lines,
         Added(l) # {}, Added(l) \subseteq SkillVocab, ~IsSensitive(words'[l])
  PROVE  /\ ScoreOf(words', cosine') >= IF cosine' >= cosine THEN score ELSE score - 10
         /\ BuildSkills(vacancy, cv) \subseteq BuildSkills(vacancy, cv)'
         /\ Missing(vacancy, cv)' \subseteq Missing(vacancy, cv)
         /\ \A i \in DOMAIN SignalOrder : Raises(SignalOrder[i])' => Raises(SignalOrder[i])
<1>1. PICK m \in Lines, w \in Word : Say(m, w)
  BY DEF Next, Elaborate, vars, Added
<1>2. /\ Added(l) = {w} /\ words'[l] = words[l] \cup {w}
      /\ \A i \in Lines : i # l => words'[i] = words[i]
      /\ DOMAIN words = Lines /\ DOMAIN words' = Lines
      /\ vacancy' = vacancy /\ long' = long
  BY <1>1, OneWord
<1>3. w \in SkillVocab
  BY <1>2
<1>4. PICK v \in Vacancies : v = vacancy
  BY DEF Typed
<1>5. PICK a : a = cv
  OBVIOUS
<1>6. PICK b : b = cv'
  OBVIOUS
<1>7. Mentioned(b) = Mentioned(a) \cup Within[w]
  BY <1>2, <1>5, <1>6, MentionedGrows DEF cv
<1>8. Mentioned(Sanitize(b)) = Mentioned(Sanitize(a)) \cup Within[w]
  <2>1. PICK ws \in [Lines -> Line] : ws = words
    BY DEF Typed
  <2>2. words' = [ws EXCEPT ![l] = @ \cup {w}]
    BY <1>1, <1>2, <2>1, OneWord DEF Say
  <2>3. ~IsSensitive(ws[l] \cup {w})
    BY <1>2, <2>1
  <2>4. Mentioned(Sanitize(Range([ws EXCEPT ![l] = @ \cup {w}])))
          = Mentioned(Sanitize(Range(ws))) \cup Within[w]
    BY <2>3, OpenWord
  <2> QED
    BY <1>5, <1>6, <2>1, <2>2, <2>4 DEF cv
<1>9. /\ Skills(a) \subseteq Skills(b) /\ Missing(v, b) \subseteq Missing(v, a)
      /\ BuildSkills(v, a) \subseteq BuildSkills(v, b)
      /\ Present(v, a) \subseteq Present(v, b) /\ Evidenced(v, a) \subseteq Evidenced(v, b)
      /\ InferSeniority(b) = InferSeniority(a)
      /\ Mentioned(Sanitize(a)) \subseteq Mentioned(Sanitize(b))
      /\ Mentioned(Sanitize(b)) \cap CertTokens = Mentioned(Sanitize(a)) \cap CertTokens
  BY <1>3, <1>7, <1>8, ReadSkill
<1>10. /\ BuildSkills(vacancy, cv) \subseteq BuildSkills(vacancy, cv)'
       /\ Missing(vacancy, cv)' \subseteq Missing(vacancy, cv)
  BY <1>2, <1>4, <1>5, <1>6, <1>9
<1>11. \A i \in DOMAIN SignalOrder : Raises(SignalOrder[i])' => Raises(SignalOrder[i])
  <2>1. \A signal \in Range(SignalOrder) :
          Raised(signal, v, b, long) => Raised(signal, v, a, long)
    BY <1>9, NoNewSignal
  <2>2. \A i \in DOMAIN SignalOrder : SignalOrder[i] \in Range(SignalOrder)
    BY DEF Range
  <2> QED
    BY <1>2, <1>4, <1>5, <1>6, <2>1, <2>2 DEF Raises
<1>12. ScoreOf(words', cosine') >= IF cosine' >= cosine THEN score ELSE score - 10
  <2> DEFINE k == IF cosine' >= cosine THEN 0 ELSE 10
             t == TotalNum(v, SubScore(v, a, cosine))
             u == TotalNum(v, SubScore(v, b, cosine'))
             d == TotalDen(v)
  <2>1. cosine \in 0..100 /\ cosine' \in 0..100
    BY BoundAssumption DEF Typed
  <2>2. k \in {0, 10} /\ (cosine' >= cosine \/ k = 10)
    OBVIOUS
  <2>3. score = Round(t, d) /\ t \in Nat /\ d \in Nat \ {0} /\ score \in Nat
    <3>1. t \in Nat /\ d \in Nat \ {0}
      BY <1>4, <1>5, Total, Counts DEF TotalDen
    <3>2. score = Round(t, d)
      BY <1>4, <1>5, ScoreIsRounded
    <3> QED
      BY <3>1, <3>2, RoundNear
  <2>4. ScoreOf(words', cosine') = Round(u, d) /\ u \in Nat
    <3>1. score' = Round(u, d) /\ u \in Nat
      BY <1>2, <1>4, <1>6, ScoreAfter
    <3>2. ScoreOf(words', cosine') = score'
      BY <1>2 DEF score, ScoreOf
    <3> QED
      BY <3>1, <3>2
  <2>5. t <= u + k * d
    BY <1>9, <2>1, <2>2, TotalMonotone
  <2> HIDE DEF k, t, u, d
  <2>6. Round(t, d) <= Round(u, d) + k
    BY <2>2, <2>3, <2>4, <2>5, RoundMonotone
  <2>7. Round(u, d) \in Nat
    BY <2>3, <2>4, RoundNear
  <2> QED
    BY <2>3, <2>4, <2>6, <2>7 DEF k
<1> QED
  BY <1>10, <1>11, <1>12

\* More evidence never counts against a candidate.
THEOREM EvidenceNeverHurts == Spec => MoreEvidenceNeverHurts
<1>1. Spec => []Typed
  BY TypedInvariant, PTL DEF Spec
<1>2. Typed /\ Typed' /\ [Next]_vars =>
        [\A l \in Lines :
           (Added(l) # {} /\ Added(l) \subseteq SkillVocab /\ ~IsSensitive(words'[l])) =>
             /\ ScoreOf(words', cosine') >= IF cosine' >= cosine THEN score ELSE score - 10
             /\ BuildSkills(vacancy, cv) \subseteq BuildSkills(vacancy, cv)'
             /\ Missing(vacancy, cv)' \subseteq Missing(vacancy, cv)
             /\ \A i \in DOMAIN SignalOrder : Raises(SignalOrder[i])' => Raises(SignalOrder[i])]_vars
  BY SkillStep
<1> QED
  BY <1>1, <1>2, PTL DEF Spec, MoreEvidenceNeverHurts

-----------------------------------------------------------------------------
(* The questions are capped, and those about gaps and signals come first.   *)

\* The sequence of a finite set has exactly its members, each in one place.
LEMMA SequenceOfSet ==
  ASSUME NEW S, IsFiniteSet(S)
  PROVE  /\ SetToSeq(S) \in Seq(S)
         /\ Len(SetToSeq(S)) = Cardinality(S)
         /\ Range(SetToSeq(S)) = S
<1> DEFINE n == Cardinality(S)
           f == SetToSeq(S)
<1>1. n \in Nat /\ ExistsBijection(1..n, S)
  BY FS_CardinalityType
<1>2. \E g \in [1..n -> S] : IsInjective(g)
  BY <1>1 DEF ExistsBijection, Bijection, Injection
<1>3. f \in [1..n -> S] /\ IsInjective(f)
  BY <1>2 DEF SetToSeq
<1>4. f \in Injection(1..n, S)
  BY <1>3 DEF Injection
<1>5. Cardinality(1..n) = n
  BY <1>1, FS_Interval
<1>6. f \in Surjection(1..n, S)
  BY <1>4, <1>5, FS_Injection
<1>7. Range(f) = S
  BY <1>3, <1>6 DEF Surjection, Range
<1>8. f \in Seq(S) /\ Len(f) = n
  BY <1>1, <1>3
<1> QED
  BY <1>7, <1>8

\* The signals are a sequence of names of signals.
LEMMA SignalsListed ==
  ASSUME NEW raised
  PROVE  InOrder(raised) \in Seq(Range(SignalOrder))
<1> DEFINE If(i) == IF SignalOrder[i] \in raised THEN <<SignalOrder[i]>> ELSE <<>>
           T == Range(SignalOrder)
<1>1. \A i \in 1..7 : SignalOrder[i] \in T
  BY DEF SignalOrder, Range
<1>2. /\ If(1) \in Seq(T) /\ If(2) \in Seq(T) /\ If(3) \in Seq(T) /\ If(4) \in Seq(T)
      /\ If(5) \in Seq(T) /\ If(6) \in Seq(T) /\ If(7) \in Seq(T)
  BY <1>1
<1>3. \A s, t \in Seq(T) : s \o t \in Seq(T)
  OBVIOUS
<1> HIDE DEF If, T
<1>4. If(1) \o If(2) \o If(3) \o If(4) \o If(5) \o If(6) \o If(7) \in Seq(T)
  BY <1>2, <1>3
<1> QED
  BY <1>4 DEF InOrder, If, T

\* A function on 1..n is a sequence of length n.
LEMMA FunctionIsSequence ==
  ASSUME NEW Q, NEW n \in Nat, NEW f \in [1..n -> Q]
  PROVE  f \in Seq(Q) /\ Len(f) = n
OBVIOUS

\* The first m of a sequence.
LEMMA FirstOnes ==
  ASSUME NEW Q, NEW s \in Seq(Q), NEW m \in Nat, m <= Len(s)
  PROVE  /\ SubSeq(s, 1, m) \in Seq(Q)
         /\ Len(SubSeq(s, 1, m)) = m
         /\ DOMAIN SubSeq(s, 1, m) = 1..m
         /\ \A k \in 1..m : SubSeq(s, 1, m)[k] = s[k]
OBVIOUS

\* Questions of some kinds about some things, and what those of other kinds than
\* strengths are about.
Kinds == {"gap", "inconsistency", "skill"}
Asked(K, T) == [based_on : K, about : T]
Concerns(qs) == {q.about : q \in {x \in Range(qs) : x.based_on # "skill"}}

\* Questions of one kind are about what they are given, in that order.
LEMMA QuestionsAbout ==
  ASSUME NEW T, NEW kind \in Kinds, NEW s \in Seq(T)
  PROVE  /\ Questions(kind, s) \in Seq(Asked(Kinds, T))
         /\ Len(Questions(kind, s)) = Len(s)
         /\ \A k \in 1..Len(s) : Questions(kind, s)[k].based_on = kind
         /\ {q.about : q \in Range(Questions(kind, s))} = Range(s)
<1> DEFINE qs == Questions(kind, s)
           Q == Asked(Kinds, T)
<1>1. Len(s) \in Nat /\ DOMAIN s = 1..Len(s) /\ \A i \in 1..Len(s) : s[i] \in T
  OBVIOUS
<1>2. qs = [i \in 1..Len(s) |-> [based_on |-> kind, about |-> s[i]]]
  BY <1>1 DEF Questions
<1>3. qs \in [1..Len(s) -> Q]
  <2> HIDE DEF Kinds
  <2> QED
    BY <1>1, <1>2 DEF Asked
<1>4. qs \in Seq(Q) /\ Len(qs) = Len(s)
  <2> HIDE DEF qs, Q
  <2>1. Len(s) \in Nat /\ qs \in [1..Len(s) -> Q]
    BY <1>1, <1>3
  <2> QED
    BY <2>1, FunctionIsSequence
<1>5. \A k \in 1..Len(s) : qs[k].based_on = kind
  BY <1>1, <1>2
<1>6. {q.about : q \in Range(qs)} = Range(s)
  BY <1>1, <1>2 DEF Range
<1> QED
  BY <1>4, <1>5, <1>6

\* Questions about gaps and signals come before those about strengths: when one of the
\* latter is among the first ones, all of the former are.
LEMMA CappedInOrder ==
  ASSUME NEW T, NEW g \in Seq(T), NEW i \in Seq(T), NEW s \in Seq(T)
  PROVE  /\ Len(Generate(g, s, i)) <= MaxQuestions
         /\ (\E k \in DOMAIN Generate(g, s, i) : Generate(g, s, i)[k].based_on = "skill") =>
              Concerns(Generate(g, s, i)) = Range(g) \cup Range(i)
<1> DEFINE G == Questions("gap", g)
           I == Questions("inconsistency", i)
           S == Questions("skill", s)
           Q == Asked(Kinds, T)
           all == G \o I \o S
           m == Min({MaxQuestions, Len(all)})
           asked == SubSeq(all, 1, m)
           early == Len(G) + Len(I)
<1>1. "gap" \in Kinds /\ "inconsistency" \in Kinds /\ "skill" \in Kinds
  BY DEF Kinds
<1>2. /\ G \in Seq(Q) /\ \A k \in 1..Len(G) : G[k].based_on = "gap"
      /\ I \in Seq(Q) /\ \A k \in 1..Len(I) : I[k].based_on = "inconsistency"
      /\ S \in Seq(Q) /\ \A k \in 1..Len(S) : S[k].based_on = "skill"
      /\ {q.about : q \in Range(G)} = Range(g) /\ {q.about : q \in Range(I)} = Range(i)
  <2>1. /\ G \in Seq(Q) /\ Len(G) = Len(g)
        /\ \A k \in 1..Len(g) : G[k].based_on = "gap"
        /\ {q.about : q \in Range(G)} = Range(g)
    <3> HIDE DEF Q
    <3> QED
      BY <1>1, QuestionsAbout DEF Q
  <2>2. /\ I \in Seq(Q) /\ Len(I) = Len(i)
        /\ \A k \in 1..Len(i) : I[k].based_on = "inconsistency"
        /\ {q.about : q \in Range(I)} = Range(i)
    BY <1>1, QuestionsAbout
  <2>3. /\ S \in Seq(Q) /\ Len(S) = Len(s)
        /\ \A k \in 1..Len(s) : S[k].based_on = "skill"
    BY <1>1, QuestionsAbout
  <2> HIDE DEF G, I, S, Q
  <2> QED
    BY <2>1, <2>2, <2>3
<1>3. Len(G) \in Nat /\ Len(I) \in Nat /\ Len(S) \in Nat /\ early \in Nat
  BY <1>2
<1> HIDE DEF G, I, S
<1>4. /\ all \in Seq(Q) /\ Len(all) = early + Len(S)
      /\ \A k \in 1..Len(G) : all[k] = G[k]
      /\ \A k \in 1..Len(I) : all[Len(G) + k] = I[k]
      /\ \A k \in 1..Len(S) : all[early + k] = S[k]
  BY <1>2, <1>3
<1>5. m \in Nat /\ m <= MaxQuestions /\ m <= Len(all)
  <2>1. Len(all) \in Nat /\ MaxQuestions \in Nat
    BY <1>4, DossierAssumption
  <2>2. CASE MaxQuestions <= Len(all)
    <3>1. m = MaxQuestions
      BY <2>1, <2>2 DEF Min
    <3> QED
      BY <2>1, <2>2, <3>1
  <2>3. CASE Len(all) <= MaxQuestions
    <3>1. m = Len(all)
      BY <2>1, <2>3 DEF Min
    <3> QED
      BY <2>1, <2>3, <3>1
  <2> QED
    BY <2>1, <2>2, <2>3
<1> HIDE DEF all, m
<1>6. /\ asked \in Seq(Q) /\ Len(asked) = m
      /\ DOMAIN asked = 1..m /\ \A k \in 1..m : asked[k] = all[k]
  <2> HIDE DEF Q
  <2>1. all \in Seq(Q) /\ m \in Nat /\ m <= Len(all)
    BY <1>4, <1>5
  <2> QED
    BY <2>1, FirstOnes
<1> HIDE DEF asked
<1>7. Generate(g, s, i) = asked
  BY DEF Generate, G, I, S, all, m, asked
<1>8. ASSUME NEW k \in DOMAIN asked, asked[k].based_on = "skill"
      PROVE  Concerns(asked) = Range(g) \cup Range(i)
  <2>1. k \in Nat /\ early < k /\ k <= m
    <3> SUFFICES ASSUME k <= early PROVE FALSE
      BY <1>3, <1>5, <1>6, <1>8
    <3>1. CASE k <= Len(G)
      <4>1. k \in 1..Len(G) /\ k \in 1..m
        BY <1>3, <1>5, <1>6, <1>8, <3>1
      <4>2. asked[k] = G[k]
        BY <1>4, <1>6, <4>1
      <4> QED
        BY <1>2, <1>8, <4>1, <4>2
    <3>2. CASE k > Len(G)
      <4>1. k - Len(G) \in 1..Len(I) /\ k = Len(G) + (k - Len(G))
        BY <1>3, <1>5, <1>6, <1>8, <3>2
      <4>2. all[k] = I[k - Len(G)]
        BY <1>4, <4>1
      <4> QED
        BY <1>2, <1>6, <1>8, <4>1, <4>2
    <3> QED
      BY <1>3, <1>5, <1>6, <1>8, <3>1, <3>2
  <2>2. {x \in Range(asked) : x.based_on # "skill"} = Range(G) \cup Range(I)
    <3>1. ASSUME NEW x \in Range(G) PROVE x \in Range(asked) /\ x.based_on # "skill"
      <4>1. PICK j \in 1..Len(G) : x = G[j]
        BY <1>2 DEF Range
      <4>2. j \in 1..m /\ asked[j] = x
        BY <1>3, <1>4, <1>5, <1>6, <2>1, <4>1
      <4> QED
        BY <1>2, <1>6, <4>1, <4>2 DEF Range
    <3>2. ASSUME NEW x \in Range(I) PROVE x \in Range(asked) /\ x.based_on # "skill"
      <4>1. PICK j \in 1..Len(I) : x = I[j]
        BY <1>2 DEF Range
      <4>2. Len(G) + j \in 1..m /\ asked[Len(G) + j] = x
        BY <1>3, <1>4, <1>5, <1>6, <2>1, <4>1
      <4> QED
        BY <1>2, <1>6, <4>1, <4>2 DEF Range
    <3>3. ASSUME NEW x \in Range(asked), x.based_on # "skill"
          PROVE  x \in Range(G) \cup Range(I)
      <4>1. PICK j \in 1..m : x = asked[j] /\ x = all[j]
        BY <1>6 DEF Range
      <4>2. CASE j <= Len(G)
        <5>1. j \in DOMAIN G /\ x = G[j]
          BY <1>2, <1>3, <1>4, <1>5, <4>1, <4>2
        <5> QED
          BY <5>1 DEF Range
      <4>3. CASE Len(G) < j /\ j <= early
        <5>1. j - Len(G) \in 1..Len(I) /\ j = Len(G) + (j - Len(G))
          BY <1>3, <1>5, <4>3
        <5>2. x = I[j - Len(G)]
          BY <1>4, <4>1, <5>1
        <5>3. DOMAIN I = 1..Len(I)
          BY <1>2
        <5> QED
          BY <5>1, <5>2, <5>3 DEF Range
      <4>4. CASE early < j
        <5>1. j - early \in 1..Len(S) /\ j = early + (j - early)
          BY <1>3, <1>4, <1>5, <4>4
        <5>2. x = S[j - early]
          BY <1>4, <4>1, <5>1
        <5> QED
          BY <1>2, <3>3, <5>1, <5>2
      <4> QED
        BY <1>3, <1>5, <4>2, <4>3, <4>4
    <3> QED
      BY <3>1, <3>2, <3>3
  <2>3. {q.about : q \in Range(G) \cup Range(I)}
          = {q.about : q \in Range(G)} \cup {q.about : q \in Range(I)}
    OBVIOUS
  <2>4. {q.about : q \in Range(G)} = Range(g) /\ {q.about : q \in Range(I)} = Range(i)
    BY <1>2
  <2> QED
    BY <2>2, <2>3, <2>4 DEF Concerns
<1> QED
  BY <1>5, <1>6, <1>7, <1>8

\* The cap on questions never costs a gap or a signal while strengths are asked for.
THEOREM GapsComeFirst == Spec => []GapsAskedFirst
<1>1. Typed => GapsAskedFirst
  <2> SUFFICES ASSUME Typed PROVE GapsAskedFirst
    OBVIOUS
  <2> DEFINE g == SetToSeq(Missing(vacancy, cv))
             s == SetToSeq(Present(vacancy, cv))
             T == Missing(vacancy, cv) \cup Present(vacancy, cv) \cup Range(SignalOrder)
  <2>1. IsFiniteSet(Required(vacancy))
    BY RequiredFinite DEF Typed
  <2>2. IsFiniteSet(Missing(vacancy, cv)) /\ IsFiniteSet(Present(vacancy, cv))
    <3>1. Missing(vacancy, cv) \subseteq Required(vacancy)
          /\ Present(vacancy, cv) \subseteq Required(vacancy)
      BY DEF Missing, Present
    <3> QED
      BY <2>1, <3>1, FS_Subset
  <2>3. g \in Seq(T) /\ s \in Seq(T) /\ Range(g) = Missing(vacancy, cv)
    BY <2>2, SequenceOfSet
  <2>4. signals \in Seq(T)
    <3>1. signals \in Seq(Range(SignalOrder))
      BY SignalsListed DEF Signals, signals
    <3> QED
      BY <3>1
  <2>5. questions = Generate(g, s, signals)
    BY DEF questions, InterviewQuestions, signals
  <2> HIDE DEF g, s, T
  <2>6. /\ Len(questions) <= MaxQuestions
        /\ (\E i \in DOMAIN questions : questions[i].based_on = "skill") =>
             Concerns(questions) = Range(g) \cup Range(signals)
    <3>1. g \in Seq(T) /\ s \in Seq(T) /\ signals \in Seq(T)
      BY <2>3, <2>4
    <3>2. /\ Len(Generate(g, s, signals)) <= MaxQuestions
          /\ (\E k \in DOMAIN Generate(g, s, signals) :
                Generate(g, s, signals)[k].based_on = "skill") =>
               Concerns(Generate(g, s, signals)) = Range(g) \cup Range(signals)
      BY <3>1, CappedInOrder
    <3> QED
      BY <2>5, <3>2
  <2>7. (\E i \in DOMAIN questions : questions[i].based_on = "skill") =>
          Concerns(questions) = Missing(vacancy, cv) \cup Range(signals)
    BY <2>3, <2>6
  <2> QED
    BY <2>6, <2>7 DEF GapsAskedFirst, Concerns
<1>2. Spec => []Typed
  BY TypedInvariant, PTL DEF Spec
<1> QED
  BY <1>1, <1>2, PTL
=============================================================================
