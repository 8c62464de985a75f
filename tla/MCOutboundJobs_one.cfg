CONSTANTS
  mb = mb
  rcpt = rcpt
  client = client
  operator = operator
  note = note
  r1 = r1
  NoPolicy = NoPolicy
  NoContent = NoContent
  Idle = Idle
  NoJob = NoJob
  Requests = {r1}
  Mailboxes <- MCMailboxes
  Recipients <- MCRecipients
  Clients <- MCClients
  Operator = operator
  Requester <- FromClient
  Contents <- MCContents
  MailboxOf <- MCMailboxOf
  RecipientsOf <- MCRecipientsOf
  Policies <- MCPolicies
  BatchSize = 2
  MaxFaults = 2

SPECIFICATION FairSpec

INVARIANTS
  TypeOK
  WaitingIsDecidable
  DeletedStaysUnsent

PROPERTIES
  KeepsPromise
  EverySubmissionSettles
