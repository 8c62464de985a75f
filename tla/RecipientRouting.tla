--------------------------- MODULE RecipientRouting ---------------------------
(***************************************************************************)
(* Giving every mailbox its Cloudflare routing rule, and taking it away    *)
(* when the mailbox retires.  The operator's calls write down an intent in *)
(* mailbox_routes; the due-work pass reconciles the rows that are due with *)
(* the zone's rules, one row and one Cloudflare call at a time.  The calls *)
(* interleave with the pass at each of its awaits, and so may anyone who   *)
(* edits the rules in Cloudflare.                                          *)
(*                                                                         *)
(* A call that changes a rule is two steps, Cloudflare's and the arrival   *)
(* of its answer, so that an answer can be lost.  A write that Cloudflare  *)
(* applies after its caller gave up on it is an edit by somebody else.     *)
(* Retry times are events, so the backoff and its count are left out.      *)
(***************************************************************************)
EXTENDS Naturals, FiniteSets

CONSTANTS
  Mailboxes,
  RuleIds,      \* the ids Cloudflare gives to rules
  NoId,
  NoRule,       \* no rule has this id
  Foreign,      \* a rule name that is not the owner name of a mailbox
  Nobody,       \* matchers that address none of the mailboxes
  Seed,         \* [Mailboxes -> RuleIds \cup {NoId}], legacySeeds
  RouteLimit,   \* the rows one pass takes
  MaxFaults,    \* bound: failed calls, crashes and redeployments
  MaxEdits      \* bound: changes to rules by others

Rule == [name : Mailboxes \cup {Foreign}, to : Mailboxes \cup {Nobody},
         worker : BOOLEAN, enabled : BOOLEAN]

ASSUME RoutingAssumption ==
  /\ NoId \notin RuleIds
  /\ NoRule \notin Rule
  /\ Foreign \notin Mailboxes
  /\ Nobody \notin Mailboxes
  /\ NoId \notin Mailboxes
  /\ Seed \in [Mailboxes -> RuleIds \cup {NoId}]
  /\ \A m, n \in Mailboxes : m # n => Seed[m] # Seed[n] \/ Seed[m] = NoId
  /\ RouteLimit \in Nat \ {0}
  /\ MaxFaults \in Nat
  /\ MaxEdits \in Nat

VARIABLES
  mailbox,      \* addresses: none, live, or retired (retired_at is set)
  route,        \* mailbox_routes
  configured,   \* mailboxes whose domain this deployment receives for
  rules,        \* the zone's rules at Cloudflare
  issued,       \* rule ids given out so far
  pass,         \* the row the pass works on and what it knows of it
  rows,         \* the rows it has still to do
  \* history and bounds
  meddled,      \* mailboxes whose rules somebody else has changed
  stale,        \* those of them since the pass last looked at them
  asked,        \* mailboxes whose last call no pass has looked at yet
  faults, edits

history == <<meddled, edits>>
world == <<history, stale>>
vars == <<mailbox, route, configured, rules, issued, pass, rows, world, asked,
          faults>>

RouteRow == [state : {"none", "pending", "ready", "error"},
             rule : RuleIds \cup {NoId}, zone : BOOLEAN,
             retry : {"none", "waiting", "due"}]

NoRow == [state |-> "none", rule |-> NoId, zone |-> FALSE, retry |-> "none"]

Pass == [at : {"idle", "next", "list", "read", "save", "saved", "remove", "removed"},
         box : Mailboxes \cup {NoId}, rule : RuleIds \cup {NoId},
         own : RuleIds \cup {NoId}, retired : BOOLEAN, confirmed : BOOLEAN]

Quiet == [at |-> "idle", box |-> NoId, rule |-> NoId, own |-> NoId,
          retired |-> FALSE, confirmed |-> FALSE]

Retired(m) == mailbox[m] = "retired"

-----------------------------------------------------------------------------
(* Slips the properties are there to catch; the specification uses none.   *)

ConfirmsWithoutRetirement(m, id) ==
  route' = [route EXCEPT ![m] = [@ EXCEPT !.rule = id, !.state = "ready",
                                          !.retry = "none"]]

RivalsAreIgnored(m, found) == {}

FailsAsFailed(m, retryable) ==
  route' = [route EXCEPT ![m] =
    [@ EXCEPT !.state = "failed", !.retry = IF retryable THEN "waiting" ELSE "none"]]

FailureDropsZone(m, retryable) ==
  route' = [route EXCEPT ![m] =
    [@ EXCEPT !.state = "error", !.zone = FALSE,
              !.retry = IF retryable THEN "waiting" ELSE "none"]]

FailureForgets(m, retryable) ==
  route' = [route EXCEPT ![m] = [@ EXCEPT !.state = "pending", !.retry = "none"]]

-----------------------------------------------------------------------------
(* Rules as the reconciliation sees them.                                  *)

\* ruleMatches and the owner's name, or the legacy seed to be taken over.
Permitted(m, id) ==
  /\ rules[id].to = m /\ rules[id].worker
  /\ rules[id].name = m \/ id = Seed[m]

\* Rules that claim to be m's: by the stored id, by name, or as its seed.
Candidates(m) ==
  {id \in RuleIds : /\ rules[id] # NoRule
                    /\ id = pass.rule \/ rules[id].name = m \/ id = Seed[m]}

\* Other rules for m's address.
Rivals(m, found) ==
  {id \in RuleIds \ found : rules[id] # NoRule /\ rules[id].to = m}

OwnRule(m, enabled) ==
  [name |-> m, to |-> m, worker |-> TRUE, enabled |-> enabled]

-----------------------------------------------------------------------------
Init ==
  /\ mailbox = [m \in Mailboxes |-> "none"]
  /\ route = [m \in Mailboxes |-> NoRow]
  /\ configured = Mailboxes
  /\ issued = {Seed[m] : m \in Mailboxes} \ {NoId}
  /\ rules = [id \in RuleIds |->
       IF id \in issued
       THEN [name |-> Foreign, to |-> CHOOSE m \in Mailboxes : Seed[m] = id,
             worker |-> TRUE, enabled |-> TRUE]
       ELSE NoRule]
  /\ pass = Quiet
  /\ rows = {}
  /\ meddled = {} /\ stale = {} /\ asked = {}
  /\ faults = 0 /\ edits = 0

-----------------------------------------------------------------------------
(* The operator's calls.  Pausing a mailbox leaves its route alone.        *)

CreateAddress(m) ==
  /\ mailbox[m] = "none"
  /\ mailbox' = [mailbox EXCEPT ![m] = "live"]
  /\ route' = [route EXCEPT ![m] = [NoRow EXCEPT !.state = "pending", !.retry = "due"]]
  /\ asked' = asked \cup {m}
  /\ UNCHANGED <<configured, rules, issued, pass, rows, world, faults>>

\* Intent: what retireAddress and retryAddressRouting write to the row.
Asks(m) ==
  /\ route' = [route EXCEPT ![m] = [@ EXCEPT !.state = "pending", !.retry = "due"]]
  /\ asked' = asked \cup {m}

RetireAddress(m) ==
  /\ mailbox[m] = "live"
  /\ mailbox' = [mailbox EXCEPT ![m] = "retired"]
  /\ Asks(m)
  /\ UNCHANGED <<configured, rules, issued, pass, rows, world, faults>>

RetryAddressRouting(m) ==
  /\ mailbox[m] # "none"
  /\ Asks(m)
  /\ UNCHANGED <<mailbox, configured, rules, issued, pass, rows, world, faults>>

RetryComesDue(m) ==
  /\ route[m].retry = "waiting"
  /\ route' = [route EXCEPT ![m].retry = "due"]
  /\ UNCHANGED <<mailbox, configured, rules, issued, pass, rows, world, asked,
                 faults>>

-----------------------------------------------------------------------------
(* The pass.                                                               *)

Due == {m \in Mailboxes : route[m].retry = "due"}

\* The rows that are due, up to the limit; which are the oldest is left open.
StartRoutes(batch) ==
  /\ pass.at = "idle"
  /\ batch \subseteq Due /\ batch # {}
  /\ Cardinality(batch) <= RouteLimit
  /\ batch = Due \/ Cardinality(batch) = RouteLimit
  /\ rows' = batch
  /\ pass' = [Quiet EXCEPT !.at = "next"]
  /\ UNCHANGED <<mailbox, route, configured, rules, issued, world, asked, faults>>

FinishRoutes ==
  /\ pass.at = "next" /\ rows = {}
  /\ pass' = Quiet
  /\ UNCHANGED <<mailbox, route, configured, rules, issued, rows, world, asked,
                 faults>>

NextRow == pass' = [Quiet EXCEPT !.at = "next"]

\* reconcileDueRecipientRoutes' catch: the row is overwritten, whatever a
\* call has written to it since the pass opened it.
FailRow(m, retryable) ==
  route' = [route EXCEPT ![m] =
    [@ EXCEPT !.state = "error", !.retry = IF retryable THEN "waiting" ELSE "none"]]

\* The zone is written down before a rule can be created in it.
OpenRoute(m) ==
  /\ pass.at = "next" /\ m \in rows
  /\ rows' = rows \ {m}
  /\ asked' = asked \ {m}
  /\ IF route[m].zone \/ m \in configured
     THEN /\ route' = [route EXCEPT ![m].zone = TRUE]
          /\ pass' = [Quiet EXCEPT !.at = "list", !.box = m, !.rule = route[m].rule]
     ELSE FailRow(m, FALSE) /\ NextRow
  /\ UNCHANGED <<mailbox, configured, rules, issued, world, faults>>

\* The last write asks again whether the mailbox retired meanwhile.
Confirm(m, id) ==
  route' = [route EXCEPT ![m] =
    [@ EXCEPT !.rule = id,
              !.state = IF Retired(m) THEN "pending" ELSE "ready",
              !.retry = IF Retired(m) THEN "due" ELSE "none"]]

\* A retired mailbox without a rule is done.
Gone(m) ==
  /\ route' = [route EXCEPT ![m] =
       [@ EXCEPT !.rule = NoId, !.state = "ready", !.retry = "none"]]
  /\ NextRow

\* Without a rule of its own a live mailbox is given a new one.
WithoutRule(m, retired) ==
  IF retired THEN Gone(m)
  ELSE /\ pass' = [pass EXCEPT !.at = "save", !.own = NoId]
       /\ UNCHANGED route

Refuse(m) == FailRow(m, FALSE) /\ NextRow

\* Nothing is changed where rules are contested.  The retirement read here
\* is the one the row is reconciled with.
ListRules ==
  LET m == pass.box
      found == Candidates(m)
      contested == \/ \E id, other \in found : id # other
                   \/ \E id \in found : ~ Permitted(m, id)
                   \/ Rivals(m, found) # {}
  IN
  /\ pass.at = "list"
  /\ stale' = stale \ {m}
  /\ \/ contested /\ Refuse(m)
     \/ ~ contested /\ found = {} /\ WithoutRule(m, Retired(m))
     \/ \E id \in found :
          /\ ~ contested
          /\ pass' = [pass EXCEPT !.at = "read", !.own = id, !.retired = Retired(m)]
          /\ UNCHANGED route
  /\ UNCHANGED <<mailbox, configured, rules, issued, rows, history, asked, faults>>

\* The rule is read once more before it is changed.
ReadRule ==
  LET m == pass.box
      id == pass.own
  IN
  /\ pass.at = "read"
  /\ stale' = IF rules[id] # NoRule THEN stale \ {m} ELSE stale
  /\ \/ rules[id] = NoRule /\ WithoutRule(m, pass.retired)
     \/ rules[id] # NoRule /\ ~ Permitted(m, id) /\ Refuse(m)
     \/ /\ rules[id] # NoRule /\ Permitted(m, id)
        /\ IF ~ pass.retired /\ rules[id].enabled /\ rules[id].name = m
           THEN Confirm(m, id) /\ NextRow
           ELSE /\ pass' = [pass EXCEPT !.at = IF pass.retired THEN "remove" ELSE "save"]
                /\ UNCHANGED route
  /\ UNCHANGED <<mailbox, configured, rules, issued, rows, history, asked, faults>>

\* Cloudflare creates the rule, or updates the one it is given; it may save
\* something else than it was asked to (here, a disabled rule).
SaveRule(id, asAsked) ==
  /\ pass.at = "save"
  /\ IF pass.own = NoId THEN id \notin issued
     ELSE id = pass.own /\ rules[id] # NoRule
  /\ rules' = [rules EXCEPT ![id] = OwnRule(pass.box, asAsked)]
  /\ issued' = issued \cup {id}
  /\ pass' = [pass EXCEPT !.at = "saved", !.own = id, !.confirmed = asAsked]
  /\ asAsked \/ faults < MaxFaults
  /\ faults' = IF asAsked THEN faults ELSE faults + 1
  /\ UNCHANGED <<mailbox, route, configured, rows, world, asked>>

\* The answer's id is kept even if it does not confirm the rule.
RuleSaved ==
  LET m == pass.box IN
  /\ pass.at = "saved"
  /\ IF pass.confirmed THEN Confirm(m, pass.own)
     ELSE route' = [route EXCEPT ![m] =
            [@ EXCEPT !.rule = pass.own, !.state = "error", !.retry = "none"]]
  /\ NextRow
  /\ UNCHANGED <<mailbox, configured, rules, issued, rows, world, asked, faults>>

\* A rule that is gone already counts as removed.
RemoveRule ==
  /\ pass.at = "remove"
  /\ rules' = [rules EXCEPT ![pass.own] = NoRule]
  /\ pass' = [pass EXCEPT !.at = "removed"]
  /\ UNCHANGED <<mailbox, route, configured, issued, rows, world, asked, faults>>

RuleRemoved ==
  /\ pass.at = "removed"
  /\ Gone(pass.box)
  /\ UNCHANGED <<mailbox, configured, rules, issued, rows, world, asked, faults>>

-----------------------------------------------------------------------------
(* Faults.                                                                 *)

\* A call times out or Cloudflare refuses it.  A call that has changed a
\* rule is only ever known as lost, which is worth a retry, and updating a
\* rule that is gone fails in the same way.
CallFails(retryable) ==
  /\ pass.at \notin {"idle", "next"}
  /\ pass.at \in {"saved", "removed"} => retryable
  /\ FailRow(pass.box, retryable)
  /\ NextRow
  /\ IF pass.at = "save" /\ pass.own # NoId /\ rules[pass.own] = NoRule /\ retryable
     THEN UNCHANGED faults
     ELSE faults < MaxFaults /\ faults' = faults + 1
  /\ UNCHANGED <<mailbox, configured, rules, issued, rows, world, asked>>

\* The object dies, also to serve a new deployment with other domains, or a
\* defect ends the pass.
Crash(domains) ==
  /\ faults < MaxFaults
  /\ faults' = faults + 1
  /\ configured' = domains
  /\ pass' = Quiet
  /\ rows' = {}
  /\ UNCHANGED <<mailbox, route, rules, issued, world, asked>>

\* Somebody else creates, changes or deletes a rule.
Concerned(id, rule) ==
  {m \in Mailboxes : \/ Seed[m] = id \/ route[m].rule = id
                     \/ pass.box = m /\ pass.own = id
                     \/ \E r \in {rule, rules[id]} \ {NoRule} : r.name = m \/ r.to = m}

EditRule(id, rule) ==
  /\ edits < MaxEdits
  /\ edits' = edits + 1
  /\ rule # rules[id]
  /\ rules[id] = NoRule => id \notin issued
  /\ rules' = [rules EXCEPT ![id] = rule]
  /\ issued' = issued \cup {id}
  /\ meddled' = meddled \cup Concerned(id, rule)
  /\ stale' = stale \cup Concerned(id, rule)
  /\ UNCHANGED <<mailbox, route, configured, pass, rows, asked, faults>>

-----------------------------------------------------------------------------
PassStep ==
  \/ \E batch \in SUBSET Mailboxes : StartRoutes(batch)
  \/ FinishRoutes
  \/ \E m \in Mailboxes : OpenRoute(m)
  \/ ListRules
  \/ ReadRule
  \/ \E id \in RuleIds, asAsked \in BOOLEAN : SaveRule(id, asAsked)
  \/ RuleSaved
  \/ RemoveRule
  \/ RuleRemoved
  \/ \E retryable \in BOOLEAN : CallFails(retryable)

CallStep ==
  \E m \in Mailboxes :
    CreateAddress(m) \/ RetireAddress(m) \/ RetryAddressRouting(m)

Next ==
  \/ PassStep
  \/ CallStep
  \/ \E m \in Mailboxes : RetryComesDue(m)
  \/ \E domains \in SUBSET Mailboxes : Crash(domains)
  \/ \E id \in RuleIds, rule \in Rule \cup {NoRule} : EditRule(id, rule)

Spec == Init /\ [][Next]_vars

\* The alarm fires while a row is due and a pass goes on to its end; retry
\* times pass.  Nobody has to ask again, and calls to Cloudflare may fail.
FairSpec ==
  /\ Spec
  /\ WF_vars(PassStep)
  /\ \A m \in Mailboxes : WF_vars(RetryComesDue(m))

-----------------------------------------------------------------------------
(* Properties.                                                             *)

TypeOK ==
  /\ mailbox \in [Mailboxes -> {"none", "live", "retired"}]
  /\ route \in [Mailboxes -> RouteRow]
  /\ configured \subseteq Mailboxes
  /\ issued \subseteq RuleIds
  /\ rules \in [RuleIds -> Rule \cup {NoRule}]
  /\ \A id \in RuleIds \ issued : rules[id] = NoRule
  /\ pass \in Pass
  /\ pass.at \notin {"idle", "next"} => pass.box \in Mailboxes
  /\ pass.at \in {"read", "saved", "remove", "removed"} => pass.own \in RuleIds
  /\ rows \subseteq Mailboxes
  /\ meddled \subseteq Mailboxes
  /\ stale \subseteq meddled
  /\ asked \subseteq Mailboxes
  /\ faults \in 0 .. MaxFaults
  /\ edits \in 0 .. MaxEdits

RulesTo(m) == {id \in RuleIds : rules[id] # NoRule /\ rules[id].to = m}

\* A route shown as ready is what Cloudflare has, unless somebody else
\* changed the mailbox's rules: a live mailbox has its one enabled rule, the
\* stored one, and a retired one has none, although either may have been
\* asked for while the pass was working on the other.
ReadyTellsTheTruth ==
  \A m \in Mailboxes \ meddled :
    route[m].state = "ready" =>
      IF Retired(m) THEN RulesTo(m) = {}
      ELSE /\ RulesTo(m) = {route[m].rule}
           /\ rules[route[m].rule] = OwnRule(m, TRUE)

\* Lost answers, crashes and retries leave no second rule behind, and a rule
\* the pass created can be found again: its zone is written down first, and
\* survives a deployment that no longer names the domain.
RulesCanBeFound ==
  \A m \in Mailboxes \ meddled :
    /\ \A id, other \in RulesTo(m) : id = other
    /\ \A id \in RulesTo(m) :
         \/ rules[id].name = m /\ route[m].zone
         \/ rules[id].name = Foreign /\ id = Seed[m]

\* The pass changes and removes only rules that are the mailbox's own, and
\* creates one only for an address without a rule, unless somebody else
\* changed them after it last looked ("umail will not take it over").
OnlyOwnRulesTouched ==
  [][\A id \in RuleIds :
       rules'[id] # rules[id] /\ edits' = edits /\ pass.box \notin stale =>
         \/ rules[id] # NoRule /\ Permitted(pass.box, id)
         \/ rules[id] = NoRule /\ RulesTo(pass.box) = {}]_vars

\* A retirement that no pass has taken up yet is scheduled while the mailbox
\* has a rule: it may have come while the pass was creating that rule.
\* (recipient-routing.ts: "Always retain the returned ID. A retirement during
\* create must schedule its deletion.")
RetirementIsScheduled ==
  \A m \in asked :
    Retired(m) /\ RulesTo(m) # {} => route[m].retry # "none"

\* Every mailbox that is to be routed is, every retirement removes its rule,
\* or the row ends in an error that is not retried until the operator asks
\* again (failRoute): nothing stays pending with no pass to come.
RoutesSettle ==
  \A m \in Mailboxes :
    Retired(m) \/ (mailbox[m] = "live" /\ route[m].state # "ready") ~>
      IF Retired(m)
      THEN /\ route[m].retry = "none"
           /\ route[m].state = "error" \/ m \in meddled \/ RulesTo(m) = {}
      ELSE \/ route[m].state = "ready"
           \/ route[m].state = "error" /\ route[m].retry = "none"

-----------------------------------------------------------------------------
(* The inductive invariant behind the safety properties.                   *)

Working == pass.at \notin {"idle", "next"}

\* A row that is due, or that the pass has taken or works on, is not ready.
RowsInStep ==
  /\ \A m \in Mailboxes :
       /\ mailbox[m] = "none" <=> route[m].state = "none"
       /\ mailbox[m] = "none" => ~ route[m].zone
       /\ route[m].retry # "none" => route[m].state \in {"pending", "error"}
       /\ m \in rows => route[m].state \in {"pending", "error"}
  /\ Working => /\ pass.box \notin rows
                /\ route[pass.box].state \in {"pending", "error"}
                /\ route[pass.box].zone
  /\ pass.at = "idle" => rows = {}

\* The rules of a mailbox whose rules nobody else has changed.
RulesAreOwn(m) ==
  /\ \A id, other \in RulesTo(m) : id = other
  /\ \A id \in RuleIds :
       rules[id] # NoRule /\ (rules[id].name = m \/ rules[id].to = m \/ id = Seed[m]) =>
         /\ rules[id].to = m /\ rules[id].worker
         /\ \/ rules[id].name = m /\ route[m].zone
            \/ rules[id].name = Foreign /\ id = Seed[m]

\* What the pass knows of the rules of such a mailbox still holds.
PassIsRight(m) ==
  /\ pass.at = "read" => RulesTo(m) = {pass.own} /\ (pass.retired => Retired(m))
  /\ pass.at = "save" =>
       RulesTo(m) = IF pass.own = NoId THEN {} ELSE {pass.own}
  /\ pass.at = "saved" =>
       /\ RulesTo(m) = {pass.own}
       /\ pass.confirmed => rules[pass.own] = OwnRule(m, TRUE)
  /\ pass.at = "remove" => RulesTo(m) = {pass.own} /\ Retired(m)
  /\ pass.at = "removed" => RulesTo(m) = {} /\ Retired(m)

\* The rule the pass works on is no other such mailbox's.
OthersAreSafe ==
  Working /\ pass.own # NoId =>
    \A m \in Mailboxes \ meddled :
      m # pass.box => pass.own \notin RulesTo(m) /\ pass.own # Seed[m]

\* What the pass has just looked at is what it is about to change.
LookedAt ==
  pass.at \in {"read", "save", "remove"} /\ pass.box \notin stale =>
    IF pass.own = NoId THEN RulesTo(pass.box) = {}
    ELSE rules[pass.own] # NoRule /\ Permitted(pass.box, pass.own)

SeedsIssued == \A m \in Mailboxes : Seed[m] # NoId => Seed[m] \in issued

RoutingInv ==
  /\ TypeOK
  /\ RowsInStep
  /\ SeedsIssued
  /\ \A m \in Mailboxes \ meddled : RulesAreOwn(m)
  /\ ReadyTellsTheTruth
  /\ Working /\ pass.box \notin meddled => PassIsRight(pass.box)
  /\ OthersAreSafe
  /\ LookedAt
=============================================================================
