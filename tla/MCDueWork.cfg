SPECIFICATION FairSpec
CONSTANTS
  m1 = m1
  r1 = r1
  b1 = b1
  NoJob = NoJob
  Never = Never
  Settled = Settled
  Mails = {m1}
  Receipts = {r1}
  Mailboxes = {b1}
  ApprovalTime = 2
  ClaimTime = 2
  RedriveTime = 2
  RetryTime = 1
  Horizon = 2
  SendBatch = 1
  RowBatch = 1
  MaxPass = 1
  MaxArms = 1
  MaxFaults = 2
CONSTRAINT OneOrTheOther
INVARIANTS
  AlarmCoversWork
PROPERTIES
  NoSpin
  EveryJobEnds
  DueRowsAreTakenUp
