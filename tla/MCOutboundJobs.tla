--------------------------- MODULE MCOutboundJobs ---------------------------
(***************************************************************************)
(* A small instance of OutboundJobs: one mailbox, one MCP client, one      *)
(* request, and the kinds of policy the operator can choose.               *)
(***************************************************************************)
EXTENDS OutboundJobs

CONSTANTS mb, rcpt, client, operator, note, r1

MCMailboxes == {mb}
MCRecipients == {rcpt}
MCClients == {client}
MCContents == {note}
MCMailboxOf == [c \in {note} |-> mb]
MCRecipientsOf == [c \in {note} |-> {rcpt}]

PolicyWith(mode) == [mailboxIds |-> {mb}, sendMode |-> mode,
                     recipientAllowlist |-> {rcpt}, preapprovedRecipients |-> {}]
MCPolicies == {PolicyWith("allow"), PolicyWith("require_approval")}
ApprovalOnly == {PolicyWith("require_approval")}

FromClient == [r \in Requests |-> client]

=============================================================================
