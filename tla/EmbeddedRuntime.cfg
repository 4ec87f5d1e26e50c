SPECIFICATION Spec
CONSTANTS
  Main = Main
  A = A
  B = B
  Starter = Main
  Workers <- MCWorkers
  MaxTexts = 3
INVARIANTS TypeOK OnceAvailableAlways GenerateNeverLoads ModelsBounded
CHECK_DEADLOCK FALSE
