-------------------------------- MODULE Cutover --------------------------------
(***************************************************************************)
(* A receiving zone at Cloudflare that an installation shares with others, *)
(* and its move from one catch-all to a rule for each mailbox: the         *)
(* operator's cutover command inspects, and with --execute disables the    *)
(* catch-all.  Meanwhile mailboxes change, the controller works on their   *)
(* rules (RecipientRouting has it call by call), and others edit the zone. *)
(***************************************************************************)
EXTENDS Naturals, FiniteSets

CONSTANTS Boxes

VARIABLES
  zone,       \* shared: enabled, dkim; and the installation's child domain
  catchAll,   \* whose worker it points to; off: disabled by somebody, drop: by
              \* the cutover
  box,        \* mailboxes: none, active, paused, retired
  rule,       \* the rule for a mailbox's address: none, ours, foreign
  ready,      \* mailboxes whose route the server calls ready
  tool,       \* the cutover command
  \* history
  changed,    \* what others have changed since the code last looked at it
  since       \* mailboxes made, or whose rule others changed, since the
              \* command asked for them

zoneVars == <<zone, catchAll, box, rule, ready, tool, changed, since>>

Resting == [at |-> "idle"]

-----------------------------------------------------------------------------
(* Slips the properties are there to catch; the specification uses none.   *)

ReceivingOnly == {m \in Boxes : box[m] = "active"}

LooksOnce(task) == TRUE

-----------------------------------------------------------------------------
(* Mailboxes and their rules.                                              *)

SetBox(m, state) ==
  /\ box' = [box EXCEPT ![m] = state]
  /\ since' = IF box[m] = "none" THEN since \cup {m} ELSE since
  /\ UNCHANGED <<zone, catchAll, rule, ready, tool, changed>>

ChangeBox(m) ==
  \/ box[m] = "none" /\ SetBox(m, "active")
  \/ box[m] = "active" /\ SetBox(m, "paused")
  \/ box[m] = "paused" /\ SetBox(m, "active")
  \/ box[m] \in {"active", "paused"} /\ SetBox(m, "retired")

\* The controller's pass: makes the missing rule, reports what it has found,
\* and removes its own rule of a retired mailbox.
Reconcile(m) ==
  /\ box[m] # "none"
  /\ rule' = [rule EXCEPT ![m] =
       CASE box[m] = "retired" /\ @ = "ours" -> "none"
         [] box[m] # "retired" /\ @ = "none" -> "ours"
         [] OTHER -> @]
  /\ ready' = IF box[m] # "retired" /\ rule'[m] = "ours" THEN ready \cup {m} ELSE ready \ {m}
  /\ UNCHANGED <<zone, catchAll, box, tool, changed, since>>

\* Somebody else deletes the rule, or has one of their own for the address.
OthersRule(m, to) ==
  /\ to \in {"none", "foreign"} \ {rule[m]}
  /\ rule' = [rule EXCEPT ![m] = to]
  /\ since' = since \cup {m}
  /\ UNCHANGED <<zone, catchAll, box, ready, tool, changed>>

OthersCatchAll(to) ==
  /\ to \in {"foreign", "off"} \ {catchAll}
  /\ catchAll' = to
  /\ changed' = changed \cup {"catchAll"}
  /\ UNCHANGED <<zone, box, rule, ready, tool, since>>

\* The shared zone is switched on or off, its DKIM record added or removed,
\* and the child's records spread or are lost.
OthersZone ==
  /\ \E part \in {"enabled", "dkim"} : zone' = [zone EXCEPT ![part] = ~ @]
  /\ changed' = changed \cup {"zone"}
  /\ UNCHANGED <<catchAll, box, rule, ready, tool, since>>

ChildChanges ==
  /\ ~ zone.apex
  /\ \/ zone.child = "registered" /\ zone' = [zone EXCEPT !.child = "ready"]
     \/ zone.child = "ready" /\ zone' = [zone EXCEPT !.child = "registered"]
  /\ UNCHANGED <<catchAll, box, rule, ready, tool, changed, since>>

-----------------------------------------------------------------------------
(* A deploy's receiving domain.                                            *)

DomainReady ==
  zone.enabled /\ (IF zone.apex THEN zone.dkim ELSE zone.child = "ready")

\* reconcileEmailRoutingDomain: a ready domain is adopted, an apex is never
\* repaired.
InspectDomain(next) ==
  /\ next = IF DomainReady THEN "done" ELSE IF zone.apex THEN "failed" ELSE "foundation"
  /\ UNCHANGED zoneVars

\* requireReceivingFoundation.
FoundationIsThere == zone.enabled /\ zone.dkim

RequireReceivingFoundation(next) ==
  /\ next = IF FoundationIsThere THEN "create" ELSE "failed"
  /\ changed' = changed \ {"zone"}
  /\ UNCHANGED <<zone, catchAll, box, rule, ready, tool, since>>

\* Cloudflare's createDns also enables the zone and adds the DKIM record.
CreateDns(next) ==
  /\ next = "wait"
  /\ zone' = [zone EXCEPT !.enabled = TRUE, !.dkim = TRUE,
                          !.child = IF @ = "ready" THEN @ ELSE "registered"]
  /\ UNCHANGED <<catchAll, box, rule, ready, tool, changed, since>>

\* Twelve looks, five seconds apart.
WaitUntilReady(next) ==
  /\ next \in (IF DomainReady THEN {"done"} ELSE {"failed"})
  /\ UNCHANGED zoneVars

\* deleteEmailRoutingDomain, for a domain that is no longer configured: a
\* request that names the child, and none for an apex.
RemoveDomain ==
  /\ ~ zone.apex /\ zone.child # "none"
  /\ zone' = [zone EXCEPT !.child = "none"]
  /\ UNCHANGED <<catchAll, box, rule, ready, tool, changed, since>>

DomainStep(at, next) ==
  \/ at = "inspect" /\ InspectDomain(next)
  \/ at = "foundation" /\ RequireReceivingFoundation(next)
  \/ at = "create" /\ CreateDns(next)
  \/ at = "wait" /\ WaitUntilReady(next)

-----------------------------------------------------------------------------
(* The cutover command.                                                    *)

\* Every mailbox that has not been retired.
NotRetired == {m \in Boxes : box[m] \in {"active", "paused"}}

\* The command asks the server for its mailboxes and their routes.
AskServer(execute) ==
  /\ tool = Resting
  /\ tool' = [at |-> "rules", execute |-> execute,
              boxes |-> NotRetired, ready |-> ready \cap NotRetired]
  /\ since' = {}
  /\ UNCHANGED <<zone, catchAll, box, rule, ready, changed>>

\* Then Cloudflare for the rules: the mailboxes whose rule is as it should be.
ListRules ==
  /\ tool.at = "rules"
  /\ tool' = [tool EXCEPT !.at = "catchAll",
                          !.ready = {m \in @ : rule[m] = "ours"}]
  /\ UNCHANGED <<zone, catchAll, box, rule, ready, changed, since>>

\* The whole plan is ready.
Covered(task) == task.boxes # {} /\ task.boxes \subseteq task.ready

\* What is to be changed, if anything: a dry run, a refusal and a catch-all
\* that is disabled already end here.
InspectCatchAll ==
  /\ tool.at = "catchAll"
  /\ tool' = IF tool.execute /\ Covered(tool) /\ catchAll = "ours"
             THEN [at |-> "fresh", saw |-> catchAll] ELSE Resting
  /\ UNCHANGED <<zone, catchAll, box, rule, ready, changed, since>>

SameAsSeen(task) == task.saw = catchAll

LookAgain ==
  /\ tool.at = "fresh"
  /\ tool' = IF SameAsSeen(tool) THEN [at |-> "put"] ELSE Resting
  /\ changed' = changed \ {"catchAll"}
  /\ UNCHANGED <<zone, catchAll, box, rule, ready, since>>

\* Cloudflare may do it and its answer be lost.
DisableCatchAll ==
  /\ tool.at = "put"
  /\ catchAll' = "drop"
  /\ tool' = Resting
  /\ UNCHANGED <<zone, box, rule, ready, changed, since>>

\* A call fails or times out: no further operation is attempted.
ToolFails ==
  /\ tool # Resting
  /\ tool' = Resting
  /\ UNCHANGED <<zone, catchAll, box, rule, ready, changed, since>>

-----------------------------------------------------------------------------
ZoneInit ==
  /\ zone \in [apex : BOOLEAN, enabled : BOOLEAN, dkim : BOOLEAN, child : {"none", "ready"}]
  /\ catchAll \in {"ours", "foreign"}
  /\ box \in [Boxes -> {"none", "active"}]
  /\ rule = [m \in Boxes |-> "none"]
  /\ ready = {}
  /\ tool = Resting
  /\ changed = {}
  /\ since = {}

ToolStep ==
  \/ \E execute \in BOOLEAN : AskServer(execute)
  \/ ListRules \/ InspectCatchAll \/ LookAgain \/ DisableCatchAll \/ ToolFails

OthersStep ==
  \/ \E m \in Boxes, to \in {"none", "foreign"} : OthersRule(m, to)
  \/ \E to \in {"foreign", "off"} : OthersCatchAll(to)
  \/ OthersZone
  \/ ChildChanges

-----------------------------------------------------------------------------
(* Properties.                                                             *)

\* The cutover takes no mailbox its mail: when the catch-all goes, each one
\* that is not retired has its own rule, unless it was made, or its rule taken
\* away by others, after the command had asked.
NoMailboxLosesItsMail ==
  [][catchAll = "ours" /\ catchAll' = "drop" =>
       \A m \in Boxes : box[m] \in {"active", "paused"} => rule[m] = "ours" \/ m \in since
    ]_zoneVars

\* Neither a deploy nor the cutover changes what it shares with others: the
\* zone is not switched on nor given its DKIM record, and a catch-all of
\* somebody else stays, unless they changed it after the code's last look.
\* ("umail will not enable it", "it cannot create or take over a catch-all".)
TakesNothingOver ==
  [][/\ <<zone.enabled, zone.dkim>> # <<zone'.enabled, zone'.dkim>> => "zone" \in changed'
     /\ catchAll # catchAll' => catchAll = "ours" \/ "catchAll" \in changed'
    ]_zoneVars
=============================================================================
