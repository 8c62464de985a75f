SPECIFICATION Spec
CONSTANTS
  a = a
  b = b
  c = c
  Messages = {1, 2, 3, 4, 5, 6, 7}
  Ids = {a, b, c}
  NoId = NoId
  Mailboxes = {"mine", "other", "unread"}
  Scopes <- AllScopes
  Outgoing = {4, 7}
  MailboxOf <- MCMailboxOf
  HeadersOf <- MCHeadersOf
  ReceivedAt <- MCReceivedAt
  Queries <- MCQueries
  PageLimit = 1
  MaxTime = 2
  NoMessage = NoMessage
  NoCursor = NoCursor
CONSTRAINT LinkingOrReading
INVARIANTS
  ThreadsAreComponents
  WalksAreComplete
  ListsAgree
PROPERTIES
  ThreadsNeverSplit
  ScopeIsRespected
CHECK_DEADLOCK FALSE
