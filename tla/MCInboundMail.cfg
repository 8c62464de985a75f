SPECIFICATION LiveSpec
CONSTANTS
  e1 = e1
  e2 = e2
  d1 = d1
  d2 = d2
  c1 = c1
  c2 = c2
  Receipts <- MCReceipts
  Raws <- BothRaws
  RawOf <- MCRawOf
  Mailboxes <- OneMailbox
  MailboxOf <- MCMailboxOf
  TooLarge = {}
  Mime <- MCMime
  MaxAttachments = 1
  MaxPersisted = 1
  Destinations = {"home", "work"}
  NoDestination = NoDestination
  Deliveries = {d1, d2}
  Consumers = {c1, c2}
  NoReceipt = NoReceipt
  RedriveLimit = 1
  MaxFaults = 2
CONSTRAINT OneQuestion
INVARIANTS
  ForwardedOnce
  ForwardTellsTheTruth
  AcceptedIsKept
  MessageIffIndexed
PROPERTIES
  EveryReceiptSettles
CHECK_DEADLOCK FALSE
