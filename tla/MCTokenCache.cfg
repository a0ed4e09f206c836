SPECIFICATION Spec
CONSTANTS
  Threads = {t1, t2}
  Life = 4
  Margin = 2
  Timeout = 1
  MaxNow = 8
  None = None
SYMMETRY ThreadSymmetry
INVARIANTS
  TypeOK
  SentTokenUnexpired
PROPERTY
  CacheFallsBackLittle
