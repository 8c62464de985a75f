------------------------- MODULE MCOutboundPolicies -------------------------
(***************************************************************************)
(* A client's request whose content may go to a preapproved friend or also *)
(* to a stranger, from either of two mailboxes, while the operator moves   *)
(* the client between policies that differ in each of their fields; and    *)
(* the client's request under one policy beside a request of the operator. *)
(***************************************************************************)
EXTENDS OutboundJobs

CONSTANTS work, home, friend, stranger, client, operator,
          toFriend, toBoth, fromHome, r1, r2

MCMailboxes == {work, home}
MCRecipients == {friend, stranger}
MCClients == {client}
MCContents == {toFriend, toBoth, fromHome}
MCMailboxOf == [c \in MCContents |-> IF c = fromHome THEN home ELSE work]
MCRecipientsOf ==
  [c \in MCContents |-> IF c = toBoth THEN {friend, stranger} ELSE {friend}]
MCRequester == [r \in Requests |-> IF r = r1 THEN client ELSE operator]

ForWork(mode, allowlist, preapproved) ==
  [mailboxIds |-> {work}, sendMode |-> mode, recipientAllowlist |-> allowlist,
   preapprovedRecipients |-> preapproved]

ApprovalOnly == ForWork("require_approval", {friend}, {})

MCPolicies == {ApprovalOnly,
               ForWork("require_approval", {friend, stranger}, {friend}),
               ForWork("require_approval", {friend}, {friend, stranger}),
               ForWork("allow", {friend}, {}),
               ForWork("deny", {friend, stranger}, {friend}),
               OPERATOR_POLICY}

\* Bounds the instance.  The mailboxes stay open (the run of one request
\* pauses and retires one), and either the operator's request is not made or
\* both requests carry the same mail and the client has one policy.
MailboxesStayOpen == \A m \in Mailboxes : mailbox[m] = "active"

ClientAlone == content[r2] = NoContent /\ caller[r2] = Idle /\ faults = 0

OnePolicy ==
  /\ policy[client] \in {NoPolicy, ApprovalOnly}
  /\ caller[r1] \in {Idle, ApprovalOnly}
  /\ \A r \in Requests : content[r] \in {NoContent, toFriend}

PoliciesOrRequests == MailboxesStayOpen /\ (ClientAlone \/ OnePolicy)
=============================================================================
