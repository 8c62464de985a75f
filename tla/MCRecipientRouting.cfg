SPECIFICATION MCFairSpec
CONSTANTS
  inbox = inbox
  sales = sales
  i1 = i1
  i2 = i2
  i3 = i3
  i4 = i4
  NoId = NoId
  NoRule = NoRule
  Foreign = Foreign
  Nobody = Nobody
  Mailboxes <- TwoMailboxes
  Seed <- Seeded
  RuleIds = {i1, i2, i3, i4}
  RouteLimit = 2
  MaxFaults = 2
  MaxEdits = 1
CONSTRAINT
  Region
INVARIANTS
  ReadyTellsTheTruth
  RulesCanBeFound
PROPERTIES
  RoutesSettle
  OnlyOwnRulesTouched
CHECK_DEADLOCK FALSE
