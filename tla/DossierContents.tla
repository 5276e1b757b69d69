--------------------------- MODULE DossierContents ---------------------------
(***************************************************************************)
(* What generate_dossier puts into a dossier: gaps, the seven neutral      *)
(* signals of inconsistency_detector.detect, and the interview questions.  *)
(***************************************************************************)
EXTENDS ScoringEngine, Sequences, SequencesExt

CONSTANTS
  EnglishTokens,      \* _ENGLISH_EVIDENCE_TOKENS
  CertTokens,         \* _CERT_TOKENS
  VerifiableTokens,   \* what _URL_OR_ID_RE matches
  SalaryTokens,       \* _SALARY_TOKENS
  MaxQuestions        \* _MAX_QUESTIONS

ASSUME DossierAssumption ==
  /\ EnglishTokens \cup CertTokens \cup VerifiableTokens \cup SalaryTokens \subseteq Word
  /\ MaxQuestions \in Nat

\* No word of _SKILL_VOCAB has in it a token of a seniority or of a certificate.
ASSUME PlainSkillsAssumption ==
  \A s \in SkillVocab : Within[s] \cap (SeniorTokens \cup JuniorTokens \cup CertTokens) = {}

\* The signals in the order in which detect looks for them.
SignalOrder ==
  <<"experience_insufficient_or_ambiguous", "seniority_unsupported",
    "required_skills_missing", "required_language_not_evidenced",
    "certifications_unverifiable", "salary_expectation_missing",
    "low_structured_evidence">>

\* Variant: the experience is looked for in the text as it came.
ExperienceLowUnsanitized(v, lines) ==
  2 * Cardinality(Required(v) \cap Mentioned(lines)) < Cardinality(Required(v))

\* A factor of 0.5 is not below 0.5: the four places it is rounded to are too
\* many to matter for fewer than ten thousand required skills.
ExperienceLow(v, lines) ==
  2 * ExperienceRelevant(v, lines).num < ExperienceRelevant(v, lines).den

Raised(signal, v, lines, long) ==
  LET text == Mentioned(Sanitize(lines))
  IN CASE signal = "experience_insufficient_or_ambiguous" ->
            ExperienceLow(v, lines)
       [] signal = "seniority_unsupported" -> InferSeniority(lines) < v.seniority
       [] signal = "required_skills_missing" -> Missing(v, lines) # {}
       [] signal = "required_language_not_evidenced" ->
            v.english /\ text \cap EnglishTokens = {}
       [] signal = "certifications_unverifiable" ->
            text \cap CertTokens # {} /\ text \cap VerifiableTokens = {}
       [] signal = "salary_expectation_missing" -> v.salary /\ text \cap SalaryTokens = {}
       [] signal = "low_structured_evidence" -> ~long \/ Cardinality(Skills(lines)) <= 1

\* One after the other, each signal is appended when it is raised.
InOrder(raised) ==
  LET If(i) == IF SignalOrder[i] \in raised THEN <<SignalOrder[i]>> ELSE <<>>
  IN If(1) \o If(2) \o If(3) \o If(4) \o If(5) \o If(6) \o If(7)

Signals(v, lines, long) ==
  InOrder({signal \in Range(SignalOrder) : Raised(signal, v, lines, long)})

\* Every detected skill is listed, with whether the vacancy requires it and whether that
\* or a wish of the vacancy is among its evidence.
SkillItem(v, skill) ==
  [name |-> skill, required |-> Norm[skill] \in Required(v),
   listed |-> Norm[skill] \in Required(v) \cup Normalized(v.desired)]

BuildSkills(v, lines) == {SkillItem(v, skill) : skill \in Skills(lines)}

Questions(kind, abouts) == [i \in DOMAIN abouts |-> [based_on |-> kind, about |-> abouts[i]]]

\* Variant: the strengths are asked for first.
GenerateSkillsFirst(missing, present, signals) ==
  LET questions == Questions("skill", present) \o Questions("gap", missing)
                   \o Questions("inconsistency", signals)
  IN SubSeq(questions, 1, Min({MaxQuestions, Len(questions)}))

\* Gaps, then signals, then strengths, and no more than MaxQuestions of them.
Generate(missing, present, signals) ==
  LET questions == Questions("gap", missing) \o Questions("inconsistency", signals)
                   \o Questions("skill", present)
  IN SubSeq(questions, 1, Min({MaxQuestions, Len(questions)}))

\* The order of a vacancy's skills is left open.
InterviewQuestions(v, lines, long) ==
  Generate(SetToSeq(Missing(v, lines)), SetToSeq(Present(v, lines)), Signals(v, lines, long))
=============================================================================
