SPECIFICATION Spec
CONSTANTS
  r1 = r1
  r2 = r2
  r3 = r3
  r4 = r4
  a = a
  b = b
  Request = {r1, r2, r3, r4}
  NoRequest = NoRequest
  Origin = {a, b}
  Permitted = {b}
  Kind <- KindMixed
  OriginOf <- OriginMixed
  MaxSheets = 6
  MaxFails = 1
INVARIANTS
  TypeOK
  QueueConsistent
  NoGhostApproval
  LockOwned
  ConnectHeld
  ConsentRequired
  SigningTracked
  OnlyKnownLosses
PROPERTIES
  Answered
CHECK_DEADLOCK FALSE
