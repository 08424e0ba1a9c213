SPECIFICATION FairSpec
CONSTANTS
  h1 = h1
  h2 = h2
  w1 = w1
  w2 = w2
  p1 = p1
  p2 = p2
  user = user
  auto = auto
  conv = conv
  Sensitive = {h1, h2}
  Public = {w1}
  Password = {p1, p2}
  BuiltIn = p1
  NoPassword = NoPassword
  NoVault = NoVault
  Absent = Absent
  Proc = {user, auto, conv}
  Ops <- OpsConverging
  MaxOps <- StartsConverging
  MaxCopies = 2
  MaxRestores = 6
  MaxFailures = 1
  MaxCrashes = 0
  Installed <- OneInstall
  Screened = FALSE
PROPERTIES
  SubmissionEnds
  OperationsEnd
  RestoringEnds
