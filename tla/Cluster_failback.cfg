CONSTANTS
  c1 = c1
  c2 = c2
  NUM_TABLETS = 6
  TABLET = 5
  Writer = {c1}
  Reader = {}
  MaxWrites = 2
  Failing = {5}
  ColdStart = FALSE
  Comeback = "any"
SPECIFICATION Spec
INVARIANTS FailoverKeepsAcked
