SPECIFICATION Spec
CONSTANTS
  inbox = inbox
  sales = sales
  i1 = i1
  i2 = i2
  i3 = i3
  i4 = i4
  NoId = NoId
  NoRule = NoRule
  Foreign = Foreign
  Nobody = Nobody
  Mailboxes <- OneMailbox
  Seed <- Unseeded
  RuleIds = {i1, i2}
  RouteLimit = 1
  MaxFaults = 1
  MaxEdits = 0
INVARIANTS
  RetirementIsScheduled
CHECK_DEADLOCK FALSE
