SPECIFICATION Spec
CONSTANTS
  i1 = i1
  i2 = i2
  i3 = i3
  i4 = i4
  Thread = {t1, t2}
  Item <- MCItem
  Size <- MCSize
  Count = 2
  MaxBytes = 3
  Faulty = {i1}
  Block = {b1, b2}
  NoItem = NoItem
SYMMETRY ThreadSymmetry
INVARIANTS TypeOK ExactlyOnePlace NeverUndercounts QuietWithinLimits
PROPERTY Disposes
