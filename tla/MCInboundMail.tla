---------------------------- MODULE MCInboundMail ----------------------------
(***************************************************************************)
(* InboundMail for TLC.  A "borderline" raw message can get either verdict *)
(* of prepareInbound; a "plain" one is always indexed.                     *)
(***************************************************************************)
EXTENDS InboundMail, TLC

CONSTANTS e1, e2, d1, d2, c1, c2

BothRaws == {"plain", "borderline"}
MCMime ==
  [plain |-> [parsed |-> TRUE, deep |-> FALSE, attachments |-> 1, bytes |-> 1, html |-> 0],
   borderline |-> [parsed |-> TRUE, deep |-> FALSE, attachments |-> 0, bytes |-> 1, html |-> 1]]
OneMailbox == {"inbox"}
MCReceipts == {e1, e2}
MCRawOf == e1 :> "borderline" @@ e2 :> "plain"
MCMailboxOf == e1 :> "inbox" @@ e2 :> "inbox"

\* Bounds the instance to one question at a time.
Untouched(e) == \A d \in Deliveries : delivery[d].receipt # e
Rests(c) == consumer[c] = Idle
Plain ==
  /\ mailbox["inbox"] \in {"none", "active"}
  /\ forwardTo["inbox"] = NoDestination
  /\ \A e \in Receipts : forward[e] = "none"
  /\ \A d \in Deliveries : delivery[d].target = NoDestination

\* One mail delivered twice to a mailbox that changes its target.
ForwardingAlone ==
  /\ Untouched(e2) /\ Rests(c1) /\ Rests(c2) /\ due = {}

\* One delivery, and two runs of the consumer.
IndexingAlone == Plain /\ Untouched(e2) /\ delivery[d2].at = "new"

\* Two mails, and one run of the consumer at a time.
TwoMails == Plain /\ Rests(c2) /\ faults < 2

OneQuestion == ForwardingAlone \/ IndexingAlone \/ TwoMails
=============================================================================
