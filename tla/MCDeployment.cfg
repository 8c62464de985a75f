SPECIFICATION Spec
CONSTANTS
  ops = ops
  admin = admin
  pw1 = pw1
  pw2 = pw2
  work = work
  home = home
  Emails = {ops, admin}
  Passwords = {pw1, pw2}
  NoPassword = NoPassword
  MaxUsers = 2
  MaxGrants = 2
  Boxes = {work, home}
  MaxDeploys = 3
SYMMETRY Symmetry
CONSTRAINT Region
INVARIANTS
  OldPasswordOpensNothing
  ServedOperatorIsProvisioned
PROPERTIES
  NoMailboxLosesItsMail
  TakesNothingOver
CHECK_DEADLOCK FALSE
