SPECIFICATION Spec
CONSTANTS
  Candidate = {c1}
  Req = {r1, r2}
  o1 = o1
  o2 = o2
  v1 = v1
  v2 = v2
  c1 = c1
  c2 = c2
  Org = {o1}
  Vacancy = {v1}
  Owner <- OneOrg
  VacancyOf <- OneVacancy
  Uploaded <- AllUploaded
  s1 = s1
  s2 = s2
  s3 = s3
  low = low
  high = high
  Value = {s1}
  Grade = {low, high}
  GradeOf <- Thresholds
  Rewording <- Deterministic
  Kinds <- Lifecycle
  NoRow = NoRow
CHECK_DEADLOCK FALSE
PROPERTIES
  MissingConsentIs409
