SPECIFICATION Spec
CONSTANTS
  Candidate = {c1, c2}
  Req = {r1, r2, r3}
  o1 = o1
  o2 = o2
  v1 = v1
  v2 = v2
  c1 = c1
  c2 = c2
  Org = {o1, o2}
  Vacancy = {v1, v2}
  Owner <- OwnerByCandidate
  VacancyOf <- VacancyByCandidate
  Uploaded <- OnlyFirst
  s1 = s1
  s2 = s2
  s3 = s3
  low = low
  high = high
  Value = {s1, s3}
  Grade = {low, high}
  GradeOf <- Thresholds
  Rewording <- Wavering
  Kinds <- Everything
  NoRow = NoRow
CHECK_DEADLOCK FALSE
SYMMETRY Symmetry
VIEW Unanswered
INVARIANTS
  SystemInv
  TenantIsolation
  TypeOK
  NothingOutlivesCandidate
  DossierHasScore
  StatusMatchesDossier
  DecisionHasDossier
  AuditedDecisionKept
  DeletedStaysGone
  AnalysisUnderConsent
  ScoreUsesStoredEmbedding
  RowsAreAudited
  DecisionQuotesDossier
PROPERTIES
  EveryStepCounts
  OnlyAuditedDeletionRemoves
  ImplementsLifecycle
