SPECIFICATION Spec
CONSTANTS
  work = work
  home = home
  friend = friend
  stranger = stranger
  client = client
  operator = operator
  s1 = s1
  s2 = s2
  e1 = e1
  r1 = r1
  r2 = r2
  question = question
  reply = reply
  Mailboxes <- MCMailboxes
  Recipients = {friend, stranger}
  NoPolicy = NoPolicy
  Clients = {client}
  Forms <- MCForms
  All = All
  Invalid = Invalid
  Screens = {s1, s2}
  Edits = {e1}
  MaxConsents = 2
  MaxDeaths = 1
  Operator = operator
  Messages = {question, reply}
  MailboxOf <- MCMailboxOf
  Inbound = {question}
  Senders = {work}
  Participants <- MCParticipants
  Contents <- MCContents
  NoMessage = NoMessage
  RequestIds = {1}
  Destinations = {1}
  NoDestination = 0
  Requests = {r1, r2}
  MaxLost = 3
CONSTRAINT Region
INVARIANTS
  AnswersStayInScope
  OneJobPerRequestId
  CliTellsTheTruth
  ForwardsToRegistered
  PolicyIsForItsConsent
  NoConsentLeftWithoutPolicy
