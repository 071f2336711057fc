CONSTANTS
  w1 = w1
  Worker = {w1}
  SEC = 2
  MaxDelay = 3
SPECIFICATION FairSpec
INVARIANTS TypeOK DetectedInTime AdmittedInTime
PROPERTIES NoFalseDown ViewConverges
