SPECIFICATION Spec
CONSTANTS
  P = P
  Q = Q
  Writers = {P, Q}
  Batches <- MCBatches
  MaxTears = 2
  Input <- MCInput
  MaxLines = 2
INVARIANTS TypeOK RowsAreRecords LossesAreBounded RequestsAnsweredInOrder
PROPERTY EveryRequestAnswered
CHECK_DEADLOCK FALSE
