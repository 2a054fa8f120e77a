SPECIFICATION Spec
CONSTANTS
  t1 = t1
  t2 = t2
  empty = empty
  short = short
  zero = zero
  long = long
  undefined = undefined
  Nobody = Nobody
  Threads = {t1, t2}
  Values = {empty, short, zero, long}
  Empty = empty
  Undefined = undefined
  Text <- MCText
SYMMETRY ThreadSymmetry
PROPERTIES
  TrueMeansExisted
  SetMeansWritten
  GetMeansRead
  ExactWhenUndisturbed
