SPECIFICATION Spec
CONSTANTS
  Word = {"java", "javascript", "docker", "cobol", "senior", "intern", "age", "chile", "english", "certified", "credential", "salary"}
  Spelling = {"java", "javascript", "docker", "cobol", "senior", "intern", "age", "chile", "english", "certified", "credential", "salary", "Java", "JavaScript", "Docker", "Chile"}
  Norm <- LowerCase
  Within <- Substrings
  SkillVocab = {"java", "javascript", "docker"}
  SensitiveMarkers = {"age"}
  SeniorTokens = {"senior"}
  JuniorTokens = {"intern"}
  EnglishTokens = {"english"}
  CertTokens = {"certified"}
  VerifiableTokens = {"credential"}
  SalaryTokens = {"salary"}
  Vacancies <- Openings
  MaxQuestions = 8
  Lines = {l1, l2}
  MaxWords = 4
  Cosines = {0, 100}
CHECK_DEADLOCK FALSE
SYMMETRY Symmetry
INVARIANTS
  TypeOK
  UnflaggedIsGoodFit
  HighPriorityHasSkills
  BreakdownReconciles
  GapsAskedFirst
PROPERTIES
  MoreEvidenceNeverHurts
  
