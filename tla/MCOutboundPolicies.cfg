CONSTANTS
  work = work
  home = home
  friend = friend
  stranger = stranger
  client = client
  operator = operator
  toFriend = toFriend
  toBoth = toBoth
  fromHome = fromHome
  NoPolicy = NoPolicy
  NoContent = NoContent
  Idle = Idle
  NoJob = NoJob
  r1 = r1
  r2 = r2
  Requests = {r1, r2}
  Mailboxes <- MCMailboxes
  Recipients <- MCRecipients
  Clients <- MCClients
  Operator = operator
  Requester <- MCRequester
  Contents <- MCContents
  MailboxOf <- MCMailboxOf
  RecipientsOf <- MCRecipientsOf
  Policies <- MCPolicies
  BatchSize = 1
  MaxFaults = 0

SPECIFICATION Spec
CONSTRAINT PoliciesOrRequests

INVARIANTS
  NoUnapprovedMail
  FailureIsExplained
  ApprovalInStep
