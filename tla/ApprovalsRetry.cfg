SPECIFICATION MachineSpec
CONSTANTS
  r1 = r1
  r2 = r2
  r3 = r3
  r4 = r4
  a = a
  b = b
  Request = {r1}
  NoRequest = NoRequest
  Origin = {a, b}
  Permitted = {b}
  Kind <- KindTx
  OriginOf <- OriginTx
  MaxSheets = 6
  MaxFails = 1
PROPERTIES
  RetryEnds
CHECK_DEADLOCK FALSE
