CONSTANTS
  t1 = t1  t2 = t2  t3 = t3  brief = brief  broken = broken
  Bodies <- MCBodies  Rewritings = {brief}  Empty = empty  Unencodable = {broken}  BlockMark = blocked
  MinTier = 2  MaxFlips = 3
SPECIFICATION Spec
CHECK_DEADLOCK FALSE
INVARIANT EngagedFailsClosed
