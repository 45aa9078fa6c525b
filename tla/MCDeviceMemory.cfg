SPECIFICATION Spec
CONSTANTS
  m1 = m1
  m2 = m2
  m3 = m3
  m4 = m4
  Mem = {m1, m2, m3, m4}
  Kind <- MCKind
  Size <- MCSize
  Capacity <- MCCapacity
  Count = 1
  MaxBytes = 1
  MaxOwners = 3
  MaxDeferred = 1
INVARIANTS OwnersKeepMemory NothingForgotten RefctIsOwners FailsOnlyWhenOwned
PROPERTY Disposes
CHECK_DEADLOCK FALSE
