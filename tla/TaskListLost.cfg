CONSTANTS
  raw = raw
  periodic = periodic
  stall = stall
  array1 = array1
  array2 = array2
  array3 = array3
  array4 = array4
  NoTask = NoTask
  Task <- MCTask
  Array <- MCArray
  MaxCap = 4
  How <- MCHow
  Kind <- MCKind
  Delay <- MCDelay
SPECIFICATION Spec
CHECK_DEADLOCK FALSE
INVARIANT RunAgainNextCycle
