----------------------------- MODULE SendPolicy -----------------------------
(***************************************************************************)
(* What a requester may send: the store's `authorizeOutbound`.             *)
(*                                                                         *)
(* A policy is the record the operator chose for an MCP client, or         *)
(* NoPolicy when the client has none (never granted, or revoked).  The     *)
(* code's "all" mailboxes and "any" recipients are the full sets here.     *)
(***************************************************************************)
CONSTANTS Mailboxes, Recipients, NoPolicy

SendModes == {"deny", "allow", "require_approval"}

Policy == [mailboxIds : SUBSET Mailboxes,
           sendMode : SendModes,
           recipientAllowlist : SUBSET Recipients,
           preapprovedRecipients : SUBSET Recipients]

(* The operator's own policy: every mailbox, every recipient, no approval. *)
OPERATOR_POLICY == [mailboxIds |-> Mailboxes,
                    sendMode |-> "allow",
                    recipientAllowlist |-> Recipients,
                    preapprovedRecipients |-> {}]

(* Without a policy everything is denied. *)
Denied(policy, mailbox, recipients) ==
  policy # NoPolicy =>
    \/ mailbox \notin policy.mailboxIds
    \/ policy.sendMode = "deny"
    \/ ~ (recipients \subseteq policy.recipientAllowlist)

(* Preapproved recipients lift the approval, never the allowlist. *)
Allowed(policy, mailbox, recipients) ==
  /\ ~ Denied(policy, mailbox, recipients)
  /\ \/ policy.sendMode = "allow"
     \/ recipients \subseteq policy.preapprovedRecipients

RequiresApproval(policy, mailbox, recipients) ==
  /\ ~ Denied(policy, mailbox, recipients)
  /\ ~ Allowed(policy, mailbox, recipients)
=============================================================================
