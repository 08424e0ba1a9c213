SPECIFICATION Spec
CONSTANTS
  t1 = t1
  t2 = t2
  t3 = t3
  p1 = p1
  p2 = p2
  Tx = {t1, t2, t3}
  NonceOf <- NonceSpeedUp
  GasOf <- GasSpeedUp
  NoTx = NoTx
  Relayed = {t1}
  Poll = {p1, p2}
  MaxMishaps = 2
INVARIANTS
  TypeOK
  Followed
PROPERTIES
  CompletedIsFinal
  Completes
CHECK_DEADLOCK FALSE
