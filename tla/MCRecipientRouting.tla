-------------------------- MODULE MCRecipientRouting --------------------------
(***************************************************************************)
(* RecipientRouting for TLC: one or two mailboxes, of which the first may  *)
(* have a rule left from an earlier deployment to take over.               *)
(***************************************************************************)
EXTENDS RecipientRouting, TLC

CONSTANTS inbox, sales, i1, i2, i3, i4

OneMailbox == {inbox}
TwoMailboxes == {inbox, sales}
Seeded == inbox :> i1 @@ sales :> NoId
Unseeded == inbox :> NoId

\* Others edit the rules of one mailbox, in behaviours without the other.
Alone ==
  /\ \/ mailbox[sales] = "none" /\ sales \in configured /\ faults = 0
     \/ mailbox[inbox] = "none" /\ inbox \in configured /\ faults <= 1
  /\ i4 \notin issued

Region == edits > 0 => Alone

MCNext ==
  \/ PassStep
  \/ CallStep
  \/ \E m \in Mailboxes : RetryComesDue(m)
  \/ \E domains \in SUBSET Mailboxes : Crash(domains)
  \/ /\ Alone
     /\ \E id \in RuleIds, rule \in Rule \cup {NoRule} : EditRule(id, rule)

MCFairSpec ==
  /\ Init /\ [][MCNext]_vars
  /\ WF_vars(PassStep)
  /\ \A m \in Mailboxes : WF_vars(RetryComesDue(m))
===============================================================================
