CONSTANTS
  c1 = c1
  c2 = c2
  NUM_TABLETS = 6
  TABLET = 5
  Writer = {c1}
  Reader = {c2}
  MaxWrites = 1
  Failing = {5, 6, 1}
  ColdStart = TRUE
  Comeback = "orderly"
SPECIFICATION Spec
INVARIANTS ReadsSeeAcked FailoverKeepsAcked
