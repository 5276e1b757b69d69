SPECIFICATION Spec
CONSTANTS
  Req = {r1, r2, r3}
  o1 = o1
  o2 = o2
  e1 = "e1"
  e2 = "e2"
  p1 = p1
  p2 = p2
  Org = {o1, o2}
  Email = {"e1", "E1", "e2"}
  Lower <- Spelling
  Password = {p1, p2}
  Staff <- Viewer
  Seed <- SeedUser
  Kinds <- Founding
  Nil = Nil
CHECK_DEADLOCK FALSE
PROPERTIES
  ValidCredentialsAccepted
