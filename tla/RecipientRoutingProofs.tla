------------------------ MODULE RecipientRoutingProofs ------------------------
(***************************************************************************)
(* Theorems about RecipientRouting, for every set of mailboxes and of rule *)
(* ids, every number of legacy seeds, any batch size, and any number of    *)
(* failed calls, crashes and edits.                                        *)
(***************************************************************************)
EXTENDS RecipientRouting, TLAPS

-----------------------------------------------------------------------------
(* What the row writes do.                                                 *)

(* Only m's row changes, it keeps its zone, and it is what it says.        *)
Wrote(m, state, retries, ids) ==
  /\ route' \in [Mailboxes -> RouteRow]
  /\ route'[m].state = state
  /\ route'[m].retry \in retries
  /\ route'[m].rule \in ids
  /\ route'[m].zone = route[m].zone
  /\ \A n \in Mailboxes \ {m} : route'[n] = route[n]

LEMMA RowWritten ==
  ASSUME NEW m \in Mailboxes, NEW new, route \in [Mailboxes -> RouteRow],
         route' = [route EXCEPT ![m] = new],
         new \in RouteRow, new.zone = route[m].zone
  PROVE  Wrote(m, new.state, {new.retry}, {new.rule})
BY DEF Wrote

LEMMA FailRowWrites ==
  ASSUME TypeOK, NEW m \in Mailboxes, NEW retryable \in BOOLEAN,
         FailRow(m, retryable)
  PROVE  Wrote(m, "error", {"waiting", "none"}, {route[m].rule})
<1> DEFINE new == [route[m] EXCEPT !.state = "error",
                     !.retry = IF retryable THEN "waiting" ELSE "none"]
<1>1. route \in [Mailboxes -> RouteRow] /\ route[m] \in RouteRow
  BY DEF TypeOK
<1>2. /\ new \in RouteRow /\ new.zone = route[m].zone /\ new.state = "error"
      /\ new.retry \in {"waiting", "none"} /\ new.rule = route[m].rule
  BY <1>1 DEF RouteRow
<1>3. route' = [route EXCEPT ![m] = new]
  BY DEF FailRow
<1> HIDE DEF new
<1>4. Wrote(m, new.state, {new.retry}, {new.rule})
  BY <1>1, <1>2, <1>3, RowWritten
<1> QED BY <1>2, <1>4 DEF Wrote

LEMMA AsksWrites ==
  ASSUME TypeOK, NEW m \in Mailboxes, Asks(m)
  PROVE  Wrote(m, "pending", {"due"}, {route[m].rule})
<1> DEFINE new == [route[m] EXCEPT !.state = "pending", !.retry = "due"]
<1>1. route \in [Mailboxes -> RouteRow] /\ route[m] \in RouteRow
  BY DEF TypeOK
<1>2. /\ new \in RouteRow /\ new.zone = route[m].zone /\ new.state = "pending"
      /\ new.retry = "due" /\ new.rule = route[m].rule
  BY <1>1 DEF RouteRow
<1>3. route' = [route EXCEPT ![m] = new]
  BY DEF Asks
<1> HIDE DEF new
<1>4. Wrote(m, new.state, {new.retry}, {new.rule})
  BY <1>1, <1>2, <1>3, RowWritten
<1> QED BY <1>2, <1>4 DEF Wrote

LEMMA ConfirmWrites ==
  ASSUME TypeOK, NEW m \in Mailboxes, NEW id \in RuleIds, Confirm(m, id)
  PROVE  /\ Retired(m) => Wrote(m, "pending", {"due"}, {id})
         /\ ~ Retired(m) => Wrote(m, "ready", {"none"}, {id})
<1> DEFINE new == [route[m] EXCEPT !.rule = id,
                     !.state = IF Retired(m) THEN "pending" ELSE "ready",
                     !.retry = IF Retired(m) THEN "due" ELSE "none"]
<1>1. route \in [Mailboxes -> RouteRow] /\ route[m] \in RouteRow
  BY DEF TypeOK
<1>2. /\ new \in RouteRow /\ new.zone = route[m].zone /\ new.rule = id
      /\ Retired(m) => new.state = "pending" /\ new.retry = "due"
      /\ ~ Retired(m) => new.state = "ready" /\ new.retry = "none"
  BY <1>1 DEF RouteRow
<1>3. route' = [route EXCEPT ![m] = new]
  BY DEF Confirm
<1> HIDE DEF new
<1>4. Wrote(m, new.state, {new.retry}, {new.rule})
  BY <1>1, <1>2, <1>3, RowWritten
<1> QED BY <1>2, <1>4 DEF Wrote

LEMMA GoneWrites ==
  ASSUME TypeOK, NEW m \in Mailboxes, Gone(m)
  PROVE  Wrote(m, "ready", {"none"}, {NoId})
<1> DEFINE new == [route[m] EXCEPT !.rule = NoId, !.state = "ready",
                                   !.retry = "none"]
<1>1. route \in [Mailboxes -> RouteRow] /\ route[m] \in RouteRow
  BY DEF TypeOK
<1>2. /\ new \in RouteRow /\ new.zone = route[m].zone /\ new.state = "ready"
      /\ new.retry = "none" /\ new.rule = NoId
  BY <1>1 DEF RouteRow
<1>3. route' = [route EXCEPT ![m] = new]
  BY DEF Gone
<1> HIDE DEF new
<1>4. Wrote(m, new.state, {new.retry}, {new.rule})
  BY <1>1, <1>2, <1>3, RowWritten
<1> QED BY <1>2, <1>4 DEF Wrote

(* A saved rule that was not confirmed.                                    *)
LEMMA UnconfirmedWrites ==
  ASSUME TypeOK, NEW m \in Mailboxes, NEW id \in RuleIds,
         route' = [route EXCEPT ![m] =
           [@ EXCEPT !.rule = id, !.state = "error", !.retry = "none"]]
  PROVE  Wrote(m, "error", {"none"}, {id})
<1> DEFINE new == [route[m] EXCEPT !.rule = id, !.state = "error",
                                   !.retry = "none"]
<1>1. route \in [Mailboxes -> RouteRow] /\ route[m] \in RouteRow
  BY DEF TypeOK
<1>2. /\ new \in RouteRow /\ new.zone = route[m].zone /\ new.state = "error"
      /\ new.retry = "none" /\ new.rule = id
  BY <1>1 DEF RouteRow
<1>3. route' = [route EXCEPT ![m] = new]
  OBVIOUS
<1> HIDE DEF new
<1>4. Wrote(m, new.state, {new.retry}, {new.rule})
  BY <1>1, <1>2, <1>3, RowWritten
<1> QED BY <1>2, <1>4 DEF Wrote

-----------------------------------------------------------------------------
(* The invariant, step by step.                                            *)

(* What the invariant says of rules and of the pass's claims on them, when *)
(* a step changes no rule.                                                 *)
LEMMA RulesStay ==
  ASSUME RoutingInv, rules' = rules, meddled' = meddled,
         \A m \in Mailboxes : route[m].zone => route'[m].zone
  PROVE  /\ \A m : RulesTo(m)' = RulesTo(m)
         /\ \A m \in Mailboxes \ meddled' : RulesAreOwn(m)'
<1>1. \A m : RulesTo(m)' = RulesTo(m)
  BY DEF RulesTo
<1>2. ASSUME NEW m \in Mailboxes \ meddled' PROVE RulesAreOwn(m)'
  <2>1. RulesAreOwn(m)
    BY <1>2 DEF RoutingInv
  <2> QED BY <1>1, <1>2, <2>1 DEF RulesAreOwn
<1> QED BY <1>1, <1>2

(* A row is done with: the pass goes on to the next one, and the row shows *)
(* "ready" only where that is true.                                        *)
RowTrue(m) ==
  IF Retired(m) THEN RulesTo(m) = {}
  ELSE /\ RulesTo(m) = {route'[m].rule}
       /\ rules[route'[m].rule] = OwnRule(m, TRUE)

RowEndsAs(m, state, retries, ids) ==
  /\ Wrote(m, state, retries, ids)
  /\ \/ state \in {"pending", "error"} /\ retries \subseteq {"none", "waiting", "due"}
     \/ state = "ready" /\ retries = {"none"} /\ (m \notin meddled => RowTrue(m))
  /\ NextRow
  /\ rows' \subseteq rows
  /\ stale' \subseteq stale
  /\ faults' \in 0 .. MaxFaults
  /\ asked' \subseteq asked
  /\ UNCHANGED <<mailbox, configured, rules, issued, history>>

LEMMA RowEnds ==
  ASSUME RoutingInv, NEW m \in Mailboxes, m \notin rows',
         mailbox[m] # "none",
         NEW state, NEW retries, NEW ids, RowEndsAs(m, state, retries, ids)
  PROVE  RoutingInv'
<1>1. TypeOK /\ RowsInStep
  BY DEF RoutingInv
<1>2. \A n \in Mailboxes : route[n].zone => route'[n].zone
  BY DEF RowEndsAs, Wrote
<1>3. rules' = rules /\ meddled' = meddled
  BY DEF RowEndsAs, history
<1>4. /\ \A n : RulesTo(n)' = RulesTo(n)
      /\ \A n \in Mailboxes \ meddled' : RulesAreOwn(n)'
  BY <1>2, <1>3, RulesStay
<1>5. pass' = [Quiet EXCEPT !.at = "next"] /\ pass' \in Pass /\ pass'.at = "next"
  BY DEF RowEndsAs, NextRow, Quiet, Pass
<1>6. TypeOK'
  BY <1>1, <1>5 DEF RowEndsAs, Wrote, TypeOK, history
<1>7. RowsInStep'
  <2>1. ASSUME NEW n \in Mailboxes
        PROVE  /\ mailbox'[n] = "none" <=> route'[n].state = "none"
               /\ mailbox'[n] = "none" => ~ route'[n].zone
               /\ route'[n].retry # "none" => route'[n].state \in {"pending", "error"}
               /\ n \in rows' => route'[n].state \in {"pending", "error"}
    BY <1>1, <2>1 DEF RowsInStep, RowEndsAs, Wrote
  <2> QED BY <1>5, <2>1 DEF RowsInStep, Working
<1>8. ReadyTellsTheTruth'
  <2> SUFFICES ASSUME NEW n \in Mailboxes \ meddled', route'[n].state = "ready"
               PROVE  IF Retired(n)' THEN RulesTo(n)' = {}
                      ELSE /\ RulesTo(n)' = {route'[n].rule}
                           /\ rules'[route'[n].rule] = OwnRule(n, TRUE)
    BY DEF ReadyTellsTheTruth, OwnRule
  <2>1. CASE n = m
    BY <1>3, <1>4, <2>1 DEF RowEndsAs, Wrote, RowTrue, Retired
  <2>2. CASE n # m
    <3>1. route'[n] = route[n] /\ mailbox' = mailbox
      BY <2>2 DEF RowEndsAs, Wrote
    <3> QED BY <1>3, <1>4, <3>1 DEF RoutingInv, ReadyTellsTheTruth, Retired
  <2> QED BY <2>1, <2>2
<1>9. ~ Working' /\ OthersAreSafe' /\ LookedAt'
  BY <1>5 DEF Working, OthersAreSafe, LookedAt
<1>10. SeedsIssued'
  BY DEF RoutingInv, SeedsIssued, RowEndsAs
<1> QED BY <1>4, <1>6, <1>7, <1>8, <1>9, <1>10 DEF RoutingInv

(* An open row's mailbox exists and is no longer among the rows.           *)
LEMMA OpenRow ==
  ASSUME RoutingInv, Working
  PROVE  /\ pass.box \in Mailboxes /\ pass.box \notin rows
         /\ mailbox[pass.box] # "none"
BY DEF RoutingInv, Working, TypeOK, RowsInStep

(* A failure, too, ends the row.                                           *)
LEMMA RefuseEnds ==
  ASSUME RoutingInv, NEW m \in Mailboxes, m \notin rows', mailbox[m] # "none",
         NEW retryable \in BOOLEAN, FailRow(m, retryable), NextRow,
         rows' \subseteq rows, stale' \subseteq stale, asked' \subseteq asked,
         faults' \in 0 .. MaxFaults,
         UNCHANGED <<mailbox, configured, rules, issued, history>>
  PROVE  RoutingInv'
<1>1. Wrote(m, "error", {"waiting", "none"}, {route[m].rule})
  BY FailRowWrites DEF RoutingInv
<1>2. RowEndsAs(m, "error", {"waiting", "none"}, {route[m].rule})
  BY <1>1 DEF RowEndsAs
<1> QED BY <1>2, RowEnds

(* A pass starts and ends between rows.                                    *)
LEMMA BetweenRows ==
  ASSUME RoutingInv, pass' = Quiet \/ pass' = [Quiet EXCEPT !.at = "next"],
         rows' \subseteq Due \/ rows' \subseteq rows,
         pass'.at = "idle" => rows' = {},
         configured' \subseteq Mailboxes, faults' \in 0 .. MaxFaults,
         UNCHANGED <<mailbox, route, rules, issued, world, asked>>
  PROVE  RoutingInv'
<1>1. TypeOK /\ RowsInStep
  BY DEF RoutingInv
<1>2. /\ \A n : RulesTo(n)' = RulesTo(n)
      /\ \A n \in Mailboxes \ meddled' : RulesAreOwn(n)'
  <2>1. rules' = rules /\ meddled' = meddled /\ route' = route
    BY DEF world, history
  <2> QED BY <2>1, RulesStay
<1>3. pass' \in Pass /\ pass'.at \in {"idle", "next"}
  <2>1. CASE pass' = Quiet
    BY <2>1 DEF Quiet, Pass
  <2>2. CASE pass' = [Quiet EXCEPT !.at = "next"]
    BY <2>2 DEF Quiet, Pass
  <2> QED BY <2>1, <2>2
<1>4. TypeOK'
  BY <1>1, <1>3 DEF TypeOK, Due, world, history
<1>5. RowsInStep'
  BY <1>1, <1>3 DEF RowsInStep, Due, Working
<1>6. ReadyTellsTheTruth'
  BY <1>2 DEF RoutingInv, ReadyTellsTheTruth, Retired, OwnRule, world, history
<1> QED BY <1>2, <1>3, <1>4, <1>5, <1>6
        DEF RoutingInv, Working, OthersAreSafe, LookedAt, SeedsIssued

(* The operator's calls and time.  A call changes one mailbox and its row, *)
(* and takes a row out of "ready" whenever it changes the mailbox.         *)
CallWrites(m) ==
  /\ \/ mailbox' = mailbox /\ mailbox[m] # "none"
     \/ mailbox[m] = "none" /\ mailbox' = [mailbox EXCEPT ![m] = "live"]
     \/ mailbox[m] = "live" /\ mailbox' = [mailbox EXCEPT ![m] = "retired"]
  /\ route' \in [Mailboxes -> RouteRow]
  /\ route'[m].state \in {"pending", "error"}
  /\ route[m].zone => route'[m].zone
  /\ \A n \in Mailboxes \ {m} : route'[n] = route[n]
  /\ asked' \subseteq Mailboxes
  /\ UNCHANGED <<configured, rules, issued, pass, rows, world, faults>>

LEMMA CallKeeps ==
  ASSUME RoutingInv, NEW m \in Mailboxes, CallWrites(m)
  PROVE  RoutingInv'
<1>1. TypeOK /\ RowsInStep
  BY DEF RoutingInv
<1>2. /\ \A n : RulesTo(n)' = RulesTo(n)
      /\ \A n \in Mailboxes \ meddled' : RulesAreOwn(n)'
  <2>1. \A n \in Mailboxes : route[n].zone => route'[n].zone
    BY DEF CallWrites
  <2>2. rules' = rules /\ meddled' = meddled
    BY DEF CallWrites, world, history
  <2> QED BY <2>1, <2>2, RulesStay
<1>3. mailbox' \in [Mailboxes -> {"none", "live", "retired"}]
  BY <1>1 DEF CallWrites, TypeOK
<1>4. TypeOK'
  BY <1>1, <1>3 DEF CallWrites, TypeOK, world, history
<1>5. /\ mailbox'[m] # "none"
      /\ \A n \in Mailboxes \ {m} : mailbox'[n] = mailbox[n]
      /\ \A n \in Mailboxes : Retired(n) => Retired(n)'
  BY <1>1 DEF CallWrites, TypeOK, Retired
<1>6. RowsInStep'
  <2>1. ASSUME NEW n \in Mailboxes
        PROVE  /\ mailbox'[n] = "none" <=> route'[n].state = "none"
               /\ mailbox'[n] = "none" => ~ route'[n].zone
               /\ route'[n].retry # "none" => route'[n].state \in {"pending", "error"}
               /\ n \in rows' => route'[n].state \in {"pending", "error"}
    BY <1>1, <1>5, <2>1 DEF RowsInStep, CallWrites
  <2>2. Working' => /\ pass'.box \notin rows'
                    /\ route'[pass'.box].state \in {"pending", "error"}
                    /\ route'[pass'.box].zone
    BY <1>1 DEF RowsInStep, CallWrites, Working, TypeOK
  <2> QED BY <1>1, <2>1, <2>2 DEF RowsInStep, CallWrites, Working
<1>7. ReadyTellsTheTruth'
  <2> SUFFICES ASSUME NEW n \in Mailboxes \ meddled', route'[n].state = "ready"
               PROVE  IF Retired(n)' THEN RulesTo(n)' = {}
                      ELSE /\ RulesTo(n)' = {route'[n].rule}
                           /\ rules'[route'[n].rule] = OwnRule(n, TRUE)
    BY DEF ReadyTellsTheTruth, OwnRule
  <2>1. n # m /\ route'[n] = route[n] /\ mailbox'[n] = mailbox[n]
    BY <1>5 DEF CallWrites
  <2> QED BY <1>2, <2>1 DEF RoutingInv, ReadyTellsTheTruth, Retired, CallWrites,
                            world, history
<1>8. Working' /\ pass'.box \notin meddled' => PassIsRight(pass.box)'
  BY <1>1, <1>2, <1>5 DEF RoutingInv, PassIsRight, CallWrites, Working, TypeOK,
                          world, history, OwnRule
<1>9. OthersAreSafe' /\ LookedAt' /\ SeedsIssued'
  BY <1>2 DEF RoutingInv, OthersAreSafe, LookedAt, SeedsIssued, CallWrites,
              Working, Permitted, world, history
<1> QED BY <1>2, <1>4, <1>6, <1>7, <1>8, <1>9 DEF RoutingInv, CallWrites

LEMMA CallStepKeeps ==
  ASSUME RoutingInv,
         CallStep \/ \E m \in Mailboxes : RetryComesDue(m)
  PROVE  RoutingInv'
<1>1. TypeOK /\ RowsInStep
  BY DEF RoutingInv
<1>2. ASSUME NEW m \in Mailboxes, CreateAddress(m) PROVE RoutingInv'
  <2> DEFINE new == [NoRow EXCEPT !.state = "pending", !.retry = "due"]
  <2>1. new \in RouteRow /\ new.state = "pending" /\ new.zone = FALSE
    BY DEF NoRow, RouteRow
  <2>2. route' = [route EXCEPT ![m] = new]
    BY <1>2 DEF CreateAddress
  <2> HIDE DEF new
  <2>3. ~ route[m].zone
    BY <1>1, <1>2 DEF RowsInStep, CreateAddress
  <2>4. route' \in [Mailboxes -> RouteRow] /\ route'[m] = new
        /\ \A n \in Mailboxes \ {m} : route'[n] = route[n]
    BY <1>1, <2>1, <2>2 DEF TypeOK
  <2>5. CallWrites(m)
    BY <1>1, <1>2, <2>1, <2>3, <2>4 DEF CreateAddress, CallWrites, TypeOK
  <2> QED BY <2>5, CallKeeps
<1>3. ASSUME NEW m \in Mailboxes, RetireAddress(m) PROVE RoutingInv'
  <2>1. Wrote(m, "pending", {"due"}, {route[m].rule})
    BY <1>1, <1>3, AsksWrites DEF RetireAddress
  <2>2. CallWrites(m)
    BY <1>1, <1>3, <2>1 DEF RetireAddress, CallWrites, Wrote, Asks, TypeOK
  <2> QED BY <2>2, CallKeeps
<1>4. ASSUME NEW m \in Mailboxes, RetryAddressRouting(m) PROVE RoutingInv'
  <2>1. Wrote(m, "pending", {"due"}, {route[m].rule})
    BY <1>1, <1>4, AsksWrites DEF RetryAddressRouting
  <2>2. CallWrites(m)
    BY <1>1, <1>4, <2>1 DEF RetryAddressRouting, CallWrites, Wrote, Asks, TypeOK
  <2> QED BY <2>2, CallKeeps
<1>5. ASSUME NEW m \in Mailboxes, RetryComesDue(m) PROVE RoutingInv'
  <2> DEFINE new == [route[m] EXCEPT !.retry = "due"]
  <2>1. route \in [Mailboxes -> RouteRow] /\ route[m] \in RouteRow
    BY <1>1 DEF TypeOK
  <2>2. new \in RouteRow /\ new.state = route[m].state /\ new.zone = route[m].zone
    BY <2>1 DEF RouteRow
  <2>3. route' = [route EXCEPT ![m] = new]
    BY <1>5 DEF RetryComesDue
  <2>4. route[m].state \in {"pending", "error"} /\ mailbox[m] # "none"
    BY <1>1, <1>5 DEF RowsInStep, RetryComesDue
  <2> HIDE DEF new
  <2>5. Wrote(m, new.state, {new.retry}, {new.rule})
    BY <2>1, <2>2, <2>3, RowWritten
  <2>6. CallWrites(m)
    BY <1>1, <1>5, <2>2, <2>4, <2>5 DEF RetryComesDue, CallWrites, Wrote, TypeOK
  <2> QED BY <2>6, CallKeeps
<1> QED BY <1>2, <1>3, <1>4, <1>5 DEF CallStep

(* Opening a row, looking at the rules.                                    *)
LEMMA OpenRouteKeeps ==
  ASSUME RoutingInv, NEW m \in Mailboxes, OpenRoute(m)
  PROVE  RoutingInv'
<1>1. TypeOK /\ RowsInStep
  BY DEF RoutingInv
<1>2. m \in rows /\ m \notin rows' /\ rows' \subseteq rows
      /\ route[m].state \in {"pending", "error"} /\ mailbox[m] # "none"
  BY <1>1 DEF OpenRoute, RowsInStep
<1>3. CASE ~ (route[m].zone \/ m \in configured)
  BY <1>1, <1>2, <1>3, RefuseEnds DEF OpenRoute, world, TypeOK
<1>4. CASE route[m].zone \/ m \in configured
  <2> DEFINE new == [route[m] EXCEPT !.zone = TRUE]
  <2>1. route \in [Mailboxes -> RouteRow] /\ route[m] \in RouteRow
    BY <1>1 DEF TypeOK
  <2>2. new \in RouteRow /\ new.state = route[m].state /\ new.zone
        /\ new.retry = route[m].retry /\ new.rule = route[m].rule
    BY <2>1 DEF RouteRow
  <2>3. route' = [route EXCEPT ![m] = new]
    BY <1>4 DEF OpenRoute
  <2>4. pass' = [Quiet EXCEPT !.at = "list", !.box = m, !.rule = route[m].rule]
    BY <1>4 DEF OpenRoute
  <2>5. pass' \in Pass /\ pass'.at = "list" /\ pass'.box = m /\ pass'.own = NoId
    BY <2>1, <2>4 DEF Pass, Quiet, RouteRow
  <2> HIDE DEF new
  <2>6. route' \in [Mailboxes -> RouteRow] /\ route'[m] = new
        /\ \A n \in Mailboxes \ {m} : route'[n] = route[n]
    BY <2>1, <2>2, <2>3
  <2>7. \A n \in Mailboxes :
          /\ route[n].zone => route'[n].zone
          /\ route'[n].state = route[n].state /\ route'[n].retry = route[n].retry
          /\ route'[n].rule = route[n].rule
    BY <2>2, <2>6
  <2>8. UNCHANGED <<mailbox, configured, rules, issued, world, faults>>
        /\ asked' \subseteq asked
    BY DEF OpenRoute
  <2>9. /\ \A n : RulesTo(n)' = RulesTo(n)
        /\ \A n \in Mailboxes \ meddled' : RulesAreOwn(n)'
    BY <2>7, <2>8, RulesStay DEF world, history
  <2>10. TypeOK'
    BY <1>1, <1>2, <2>5, <2>6, <2>8 DEF TypeOK, world, history
  <2>11. RowsInStep'
    <3>1. ASSUME NEW n \in Mailboxes
          PROVE  /\ mailbox'[n] = "none" <=> route'[n].state = "none"
                 /\ mailbox'[n] = "none" => ~ route'[n].zone
                 /\ route'[n].retry # "none" => route'[n].state \in {"pending", "error"}
                 /\ n \in rows' => route'[n].state \in {"pending", "error"}
      BY <1>1, <1>2, <2>6, <2>7, <2>8, <3>1 DEF RowsInStep
    <3>2. pass'.box \notin rows' /\ route'[pass'.box].state \in {"pending", "error"}
          /\ route'[pass'.box].zone /\ pass'.at # "idle"
      BY <1>2, <2>2, <2>5, <2>6
    <3> QED BY <3>1, <3>2 DEF RowsInStep
  <2>12. ReadyTellsTheTruth'
    BY <2>7, <2>8, <2>9 DEF RoutingInv, ReadyTellsTheTruth, Retired, OwnRule,
                             world, history
  <2>13. PassIsRight(pass.box)' /\ OthersAreSafe' /\ LookedAt'
    BY <2>5 DEF PassIsRight, OthersAreSafe, LookedAt
  <2> QED BY <2>8, <2>9, <2>10, <2>11, <2>12, <2>13 DEF RoutingInv, SeedsIssued
<1> QED BY <1>3, <1>4

(* The pass goes on with its row.                                          *)
LEMMA PassMoves ==
  ASSUME RoutingInv, Working, pass' \in Pass, pass'.box = pass.box,
         pass'.at \notin {"idle", "next"},
         pass'.at \in {"read", "saved", "remove", "removed"} => pass'.own \in RuleIds,
         pass.box \notin meddled => PassIsRight(pass.box)',
         OthersAreSafe', LookedAt', stale' \subseteq stale,
         UNCHANGED <<mailbox, route, configured, rules, issued, rows, history,
                     asked, faults>>
  PROVE  RoutingInv'
<1>1. TypeOK /\ RowsInStep
  BY DEF RoutingInv
<1>2. /\ \A n : RulesTo(n)' = RulesTo(n)
      /\ \A n \in Mailboxes \ meddled' : RulesAreOwn(n)'
  BY RulesStay DEF history
<1>3. TypeOK'
  BY <1>1, OpenRow DEF TypeOK, history
<1>4. RowsInStep'
  BY <1>1 DEF RowsInStep, Working
<1>5. ReadyTellsTheTruth'
  BY <1>2 DEF RoutingInv, ReadyTellsTheTruth, Retired, OwnRule, history
<1> QED BY <1>2, <1>3, <1>4, <1>5 DEF RoutingInv, SeedsIssued, history

(* A live mailbox without a rule goes on to have one created; a retired    *)
(* one is done.                                                            *)
LEMMA WithoutRuleKeeps ==
  ASSUME RoutingInv, Working, NEW retired \in BOOLEAN,
         WithoutRule(pass.box, retired),
         pass.box \notin meddled => RulesTo(pass.box) = {} /\ (retired => Retired(pass.box)),
         pass.box \notin stale' => RulesTo(pass.box) = {},
         stale' \subseteq stale,
         UNCHANGED <<mailbox, configured, rules, issued, rows, history, asked,
                     faults>>
  PROVE  RoutingInv'
<1> DEFINE m == pass.box
<1>1. m \in Mailboxes /\ m \notin rows /\ mailbox[m] # "none"
  BY OpenRow
<1>2. TypeOK
  BY DEF RoutingInv
<1>3. CASE retired
  <2>1. Gone(m)
    BY <1>3 DEF WithoutRule
  <2>2. Wrote(m, "ready", {"none"}, {NoId})
    BY <1>1, <1>2, <2>1, GoneWrites
  <2>3. m \notin meddled => RowTrue(m)
    BY <1>3 DEF RowTrue
  <2>4. NextRow /\ faults' \in 0 .. MaxFaults
    BY <1>2, <2>1 DEF Gone, TypeOK
  <2>5. RowEndsAs(m, "ready", {"none"}, {NoId})
    BY <2>2, <2>3, <2>4 DEF RowEndsAs
  <2> QED BY <1>1, <2>5, RowEnds
<1>4. CASE ~ retired
  <2>1. pass' = [pass EXCEPT !.at = "save", !.own = NoId] /\ route' = route
    BY <1>4 DEF WithoutRule
  <2>2. pass' \in Pass /\ pass'.box = m /\ pass'.at = "save" /\ pass'.own = NoId
    BY <1>2, <2>1 DEF TypeOK, Pass
  <2>3. RulesTo(m)' = RulesTo(m)
    BY <2>2 DEF RulesTo
  <2>4. m \notin meddled => PassIsRight(pass.box)'
    BY <2>2, <2>3 DEF PassIsRight, RulesTo
  <2>5. OthersAreSafe' /\ LookedAt'
    BY <2>2 DEF OthersAreSafe, LookedAt, RulesTo
  <2> QED BY <2>1, <2>2, <2>4, <2>5, PassMoves
<1> QED BY <1>3, <1>4

LEMMA ListRulesKeeps ==
  ASSUME RoutingInv, ListRules
  PROVE  RoutingInv'
<1> DEFINE m == pass.box
           found == Candidates(m)
           contested == \/ \E id, other \in found : id # other
                        \/ \E id \in found : ~ Permitted(m, id)
                        \/ Rivals(m, found) # {}
<1>1. Working /\ pass.at = "list"
  BY DEF ListRules, Working
<1>2. m \in Mailboxes /\ m \notin rows /\ mailbox[m] # "none"
  BY <1>1, OpenRow
<1>3. TypeOK
  BY DEF RoutingInv
<1>4. /\ UNCHANGED <<mailbox, configured, rules, issued, rows, history, asked, faults>>
      /\ stale' = stale \ {m} /\ rows' \subseteq rows /\ asked' \subseteq asked
      /\ faults' \in 0 .. MaxFaults
  BY <1>3 DEF ListRules, TypeOK
<1>5. CASE contested /\ Refuse(m)
  BY <1>2, <1>4, <1>5, RefuseEnds DEF Refuse
<1>6. CASE ~ contested /\ found = {} /\ WithoutRule(m, Retired(m))
  <2>1. RulesTo(m) = {}
    BY <1>6 DEF Rivals, RulesTo
  <2>2. Retired(m) \in BOOLEAN
    BY DEF Retired
  <2> QED BY <1>1, <1>4, <1>6, <2>1, <2>2, WithoutRuleKeeps
<1>7. ASSUME NEW id \in found, ~ contested, route' = route,
             pass' = [pass EXCEPT !.at = "read", !.own = id, !.retired = Retired(m)]
      PROVE  RoutingInv'
  <2>1. id \in RuleIds /\ rules[id] # NoRule /\ Permitted(m, id) /\ found = {id}
    BY <1>7 DEF Candidates
  <2>2. RulesTo(m) = {id}
    BY <1>7, <2>1 DEF Rivals, RulesTo, Permitted
  <2>3. Retired(m) \in BOOLEAN
    BY DEF Retired
  <2>4. pass' \in Pass /\ pass'.box = m /\ pass'.at = "read" /\ pass'.own = id
        /\ pass'.retired = Retired(m)
    BY <1>3, <1>7, <2>1, <2>3 DEF TypeOK, Pass
  <2>5. PassIsRight(pass.box)'
    BY <1>4, <2>2, <2>4 DEF PassIsRight, RulesTo, Retired
  <2>6. OthersAreSafe'
    <3> SUFFICES ASSUME NEW n \in Mailboxes \ meddled, n # m
                 PROVE  id \notin RulesTo(n) /\ id # Seed[n]
      BY <1>4, <2>4 DEF OthersAreSafe, RulesTo, history
    <3>1. rules[id].to = m
      BY <2>1 DEF Permitted
    <3>2. RulesAreOwn(n)
      BY DEF RoutingInv
    <3> QED BY <2>1, <3>1, <3>2 DEF RulesAreOwn, RulesTo
  <2>7. LookedAt'
    BY <1>4, <2>1, <2>4, RoutingAssumption DEF LookedAt, Permitted
  <2> QED BY <1>1, <1>4, <1>7, <2>1, <2>4, <2>5, <2>6, <2>7, PassMoves
<1> QED BY <1>5, <1>6, <1>7 DEF ListRules

LEMMA ReadRuleKeeps ==
  ASSUME RoutingInv, ReadRule
  PROVE  RoutingInv'
<1> DEFINE m == pass.box
           id == pass.own
<1>1. Working /\ pass.at = "read"
  BY DEF ReadRule, Working
<1>2. m \in Mailboxes /\ m \notin rows /\ mailbox[m] # "none"
  BY <1>1, OpenRow
<1>3. TypeOK /\ pass \in Pass /\ pass.retired \in BOOLEAN /\ id \in RuleIds /\ id # NoId
  BY <1>1, RoutingAssumption DEF RoutingInv, TypeOK, Pass
<1>4. /\ UNCHANGED <<mailbox, configured, rules, issued, rows, history, asked, faults>>
      /\ stale' \subseteq stale /\ rows' \subseteq rows /\ asked' \subseteq asked
      /\ faults' \in 0 .. MaxFaults
  BY <1>3 DEF ReadRule, TypeOK
<1>5. m \notin meddled =>
        /\ RulesTo(m) = {id} /\ rules[id] # NoRule
        /\ pass.retired => Retired(m)
  BY <1>1 DEF RoutingInv, PassIsRight, RulesTo
<1>6. m \notin stale => rules[id] # NoRule
  BY <1>1, <1>3 DEF RoutingInv, LookedAt
<1>7. CASE rules[id] = NoRule /\ WithoutRule(m, pass.retired)
  <2>1. stale' = stale
    BY <1>7 DEF ReadRule
  <2> QED BY <1>1, <1>3, <1>4, <1>5, <1>6, <1>7, <2>1, WithoutRuleKeeps
<1>8. CASE rules[id] # NoRule /\ ~ Permitted(m, id) /\ Refuse(m)
  BY <1>2, <1>4, <1>8, RefuseEnds DEF Refuse
<1>9. CASE /\ rules[id] # NoRule /\ Permitted(m, id) /\ ~ pass.retired
           /\ rules[id].enabled /\ rules[id].name = m
           /\ Confirm(m, id) /\ NextRow
  <2>1. rules[id] \in Rule
    BY <1>3, <1>9 DEF TypeOK
  <2>2. rules[id] = OwnRule(m, TRUE)
    BY <1>9, <2>1 DEF Rule, OwnRule, Permitted
  <2>3. CASE Retired(m)
    <3>1. Wrote(m, "pending", {"due"}, {id})
      BY <1>2, <1>3, <1>9, <2>3, ConfirmWrites
    <3>2. RowEndsAs(m, "pending", {"due"}, {id})
      BY <1>4, <1>9, <3>1 DEF RowEndsAs
    <3> QED BY <1>2, <1>4, <3>2, RowEnds
  <2>4. CASE ~ Retired(m)
    <3>1. Wrote(m, "ready", {"none"}, {id})
      BY <1>2, <1>3, <1>9, <2>4, ConfirmWrites
    <3>2. m \notin meddled => RowTrue(m)
      BY <1>5, <2>2, <2>4, <3>1 DEF RowTrue, Wrote
    <3>3. RowEndsAs(m, "ready", {"none"}, {id})
      BY <1>4, <1>9, <3>1, <3>2 DEF RowEndsAs
    <3> QED BY <1>2, <1>4, <3>3, RowEnds
  <2> QED BY <2>3, <2>4
<1>10. CASE /\ rules[id] # NoRule /\ Permitted(m, id) /\ route' = route
            /\ pass' = [pass EXCEPT !.at = IF pass.retired THEN "remove" ELSE "save"]
  <2>1. /\ pass' \in Pass /\ pass'.box = m /\ pass'.own = id
        /\ pass'.at = IF pass.retired THEN "remove" ELSE "save"
    BY <1>3, <1>10 DEF Pass
  <2>2. m \notin meddled => PassIsRight(pass.box)'
    BY <1>3, <1>4, <1>5, <2>1 DEF PassIsRight, RulesTo, Retired
  <2>3. OthersAreSafe'
    BY <1>1, <1>4, <2>1 DEF RoutingInv, OthersAreSafe, Working, RulesTo, history
  <2>4. LookedAt'
    BY <1>3, <1>4, <1>10, <2>1 DEF LookedAt, Permitted
  <2>5. UNCHANGED <<mailbox, route, configured, rules, issued, rows, history, asked, faults>>
    BY <1>4, <1>10
  <2>6. pass'.at \in {"save", "remove"}
    BY <2>1
  <2> QED BY <1>1, <1>3, <1>4, <2>1, <2>2, <2>3, <2>4, <2>5, <2>6, PassMoves
<1> QED BY <1>7, <1>8, <1>9, <1>10 DEF ReadRule

(* The pass changes the rule of its own row: no other mailbox's rules.     *)
LEMMA OtherRules ==
  ASSUME RoutingInv, Working, NEW id \in RuleIds, NEW rule,
         rules' = [rules EXCEPT ![id] = rule],
         id = pass.own \/ id \notin issued,
         rule # NoRule => rule.to = pass.box /\ rule.name = pass.box,
         route' = route,
         NEW n \in Mailboxes \ meddled, n # pass.box
  PROVE  /\ RulesTo(n)' = RulesTo(n) /\ id \notin RulesTo(n) /\ id # Seed[n]
         /\ RulesAreOwn(n)'
<1>1. TypeOK /\ SeedsIssued /\ RulesAreOwn(n) /\ OthersAreSafe
  BY DEF RoutingInv
<1>2. rules \in [RuleIds -> Rule \cup {NoRule}]
  BY <1>1 DEF TypeOK
<1>3. id \notin RulesTo(n) /\ id # Seed[n]
  BY <1>1, RoutingAssumption DEF OthersAreSafe, SeedsIssued, RulesTo, TypeOK
<1>4. rules'[id] = rule /\ \A i \in RuleIds \ {id} : rules'[i] = rules[i]
  BY <1>2
<1>5. RulesTo(n)' = RulesTo(n)
  BY <1>3, <1>4 DEF RulesTo
<1>6. RulesAreOwn(n)'
  BY <1>1, <1>3, <1>4, <1>5 DEF RulesAreOwn
<1> QED BY <1>3, <1>5, <1>6

LEMMA SaveRuleKeeps ==
  ASSUME RoutingInv, NEW id \in RuleIds, NEW asAsked \in BOOLEAN,
         SaveRule(id, asAsked)
  PROVE  RoutingInv'
<1> DEFINE m == pass.box
<1>1. Working /\ pass.at = "save" /\ m \in Mailboxes
  BY OpenRow DEF SaveRule, Working
<1>2. TypeOK /\ RowsInStep /\ SeedsIssued /\ pass \in Pass
  BY DEF RoutingInv, TypeOK
<1>3. /\ pass' \in Pass /\ pass'.at = "saved" /\ pass'.box = m /\ pass'.own = id
      /\ pass'.confirmed = asAsked
  BY <1>2 DEF SaveRule, Pass
<1> DEFINE rule == OwnRule(m, asAsked)
<1>4. rule \in Rule /\ rule # NoRule /\ rule.to = m /\ rule.name = m /\ rule.worker
      /\ (asAsked => rule = OwnRule(m, TRUE))
  <2>1. rule \in Rule /\ rule.to = m /\ rule.name = m /\ rule.worker
    BY <1>1 DEF OwnRule, Rule
  <2>2. rule # NoRule
    BY <2>1, RoutingAssumption
  <2>3. asAsked => rule = OwnRule(m, TRUE)
    <3>1. CASE asAsked = TRUE
      BY <3>1
    <3>2. CASE asAsked = FALSE
      BY <3>2
    <3> QED BY <3>1, <3>2
  <2> QED BY <2>1, <2>2, <2>3
<1>5. rules' = [rules EXCEPT ![id] = rule] /\ (id = pass.own \/ id \notin issued)
      /\ issued' = issued \cup {id}
      /\ UNCHANGED <<mailbox, route, configured, rows, world, asked>>
      /\ faults' \in 0 .. MaxFaults
  BY <1>2, RoutingAssumption DEF SaveRule, TypeOK
<1> HIDE DEF rule
<1>6. rules'[id] = rule /\ \A i \in RuleIds \ {id} : rules'[i] = rules[i]
  BY <1>2, <1>5 DEF TypeOK
<1>7. TypeOK'
  BY <1>1, <1>2, <1>3, <1>4, <1>5, <1>6 DEF TypeOK, world, history
<1>8. RowsInStep'
  BY <1>1, <1>2, <1>3, <1>5 DEF RowsInStep, Working
<1>9. \A n \in Mailboxes \ meddled :
        n # m => /\ RulesTo(n)' = RulesTo(n) /\ id \notin RulesTo(n) /\ id # Seed[n]
                 /\ RulesAreOwn(n)'
  BY <1>1, <1>4, <1>5, OtherRules
<1>10. m \notin meddled => RulesTo(m)' = {id}
  <2>1. ASSUME m \notin meddled
        PROVE  RulesTo(m) = IF pass.own = NoId THEN {} ELSE {pass.own}
    BY <1>1, <2>1 DEF RoutingInv, PassIsRight
  <2>2. pass.own # NoId => pass.own = id
    BY DEF SaveRule
  <2> QED BY <1>3, <1>4, <1>6, <2>1, <2>2 DEF RulesTo
<1>11. m \notin meddled => RulesAreOwn(m)'
  <2> SUFFICES ASSUME m \notin meddled PROVE RulesAreOwn(m)'
    OBVIOUS
  <2>1. route'[m].zone /\ RulesAreOwn(m)
    BY <1>1, <1>2, <1>5 DEF RowsInStep, RoutingInv
  <2>2. RulesTo(m)' = {id}
    BY <1>10
  <2> QED BY <1>3, <1>4, <1>5, <1>6, <2>1, <2>2 DEF RulesAreOwn
<1>12. \A n \in Mailboxes \ meddled' : RulesAreOwn(n)'
  BY <1>3, <1>5, <1>9, <1>11 DEF world, history
<1>13. ReadyTellsTheTruth'
  <2> SUFFICES ASSUME NEW n \in Mailboxes \ meddled', route'[n].state = "ready"
               PROVE  IF Retired(n)' THEN RulesTo(n)' = {}
                      ELSE /\ RulesTo(n)' = {route'[n].rule}
                           /\ rules'[route'[n].rule] = OwnRule(n, TRUE)
    BY DEF ReadyTellsTheTruth, OwnRule
  <2>1. n # m /\ n \notin meddled
    BY <1>1, <1>2, <1>5 DEF RowsInStep, world, history
  <2>2. RulesTo(n)' = RulesTo(n) /\ id \notin RulesTo(n)
    BY <1>9, <2>1
  <2>3. IF Retired(n) THEN RulesTo(n) = {}
        ELSE /\ RulesTo(n) = {route[n].rule}
             /\ rules[route[n].rule] = OwnRule(n, TRUE)
    BY <1>5, <2>1 DEF RoutingInv, ReadyTellsTheTruth
  <2>4. CASE Retired(n)
    BY <1>5, <2>2, <2>3, <2>4 DEF Retired
  <2>5. CASE ~ Retired(n)
    <3>1. route[n].rule \in RuleIds \ {id}
      BY <2>2, <2>3, <2>5 DEF RulesTo
    <3> QED BY <1>5, <1>6, <2>2, <2>3, <2>5, <3>1 DEF Retired
  <2> QED BY <2>4, <2>5
<1>14. pass'.box \notin meddled' => PassIsRight(pass.box)'
  BY <1>1, <1>3, <1>4, <1>5, <1>6, <1>10 DEF PassIsRight, OwnRule, world, history
<1>15. OthersAreSafe'
  BY <1>3, <1>5, <1>9 DEF OthersAreSafe, world, history
<1>16. LookedAt' /\ SeedsIssued'
  BY <1>2, <1>3, <1>5 DEF LookedAt, SeedsIssued
<1> QED BY <1>7, <1>8, <1>12, <1>13, <1>14, <1>15, <1>16 DEF RoutingInv

LEMMA RemoveRuleKeeps ==
  ASSUME RoutingInv, RemoveRule
  PROVE  RoutingInv'
<1> DEFINE m == pass.box
           id == pass.own
<1>1. Working /\ pass.at = "remove" /\ m \in Mailboxes
  BY OpenRow DEF RemoveRule, Working
<1>2. TypeOK /\ RowsInStep /\ SeedsIssued /\ pass \in Pass /\ id \in RuleIds
  BY <1>1 DEF RoutingInv, TypeOK
<1>3. /\ pass' \in Pass /\ pass'.at = "removed" /\ pass'.box = m /\ pass'.own = id
  BY <1>2 DEF RemoveRule, Pass
<1>4. rules' = [rules EXCEPT ![id] = NoRule]
      /\ UNCHANGED <<mailbox, route, configured, issued, rows, world, asked, faults>>
  BY DEF RemoveRule
<1>5. rules'[id] = NoRule /\ \A i \in RuleIds \ {id} : rules'[i] = rules[i]
  BY <1>2, <1>4 DEF TypeOK
<1>6. TypeOK'
  BY <1>1, <1>2, <1>3, <1>4, <1>5 DEF TypeOK, world, history
<1>7. RowsInStep'
  BY <1>1, <1>2, <1>3, <1>4 DEF RowsInStep, Working
<1>8. \A n \in Mailboxes \ meddled :
        n # m => /\ RulesTo(n)' = RulesTo(n) /\ id \notin RulesTo(n) /\ id # Seed[n]
                 /\ RulesAreOwn(n)'
  <2>1. NoRule # NoRule => NoRule.to = m /\ NoRule.name = m
    OBVIOUS
  <2>2. route' = route
    BY <1>4
  <2> QED BY <1>1, <1>2, <1>4, <2>1, <2>2, OtherRules
<1>9. m \notin meddled => RulesTo(m)' = {} /\ Retired(m)
  <2>1. m \notin meddled => RulesTo(m) = {id} /\ Retired(m)
    BY <1>1 DEF RoutingInv, PassIsRight
  <2> QED BY <1>3, <1>5, <2>1 DEF RulesTo
<1>10. m \notin meddled => RulesAreOwn(m)'
  <2> SUFFICES ASSUME m \notin meddled PROVE RulesAreOwn(m)'
    OBVIOUS
  <2>1. RulesAreOwn(m)
    BY <1>1 DEF RoutingInv
  <2>2. RulesTo(m)' = {}
    BY <1>9
  <2> QED BY <1>3, <1>4, <1>5, <2>1, <2>2 DEF RulesAreOwn
<1>11. \A n \in Mailboxes \ meddled' : RulesAreOwn(n)'
  BY <1>3, <1>4, <1>8, <1>10 DEF world, history
<1>12. ReadyTellsTheTruth'
  <2> SUFFICES ASSUME NEW n \in Mailboxes \ meddled', route'[n].state = "ready"
               PROVE  IF Retired(n)' THEN RulesTo(n)' = {}
                      ELSE /\ RulesTo(n)' = {route'[n].rule}
                           /\ rules'[route'[n].rule] = OwnRule(n, TRUE)
    BY DEF ReadyTellsTheTruth, OwnRule
  <2>1. n # m /\ n \notin meddled
    BY <1>1, <1>2, <1>4 DEF RowsInStep, world, history
  <2>2. RulesTo(n)' = RulesTo(n) /\ id \notin RulesTo(n)
    BY <1>8, <2>1
  <2>3. IF Retired(n) THEN RulesTo(n) = {}
        ELSE /\ RulesTo(n) = {route[n].rule}
             /\ rules[route[n].rule] = OwnRule(n, TRUE)
    BY <1>4, <2>1 DEF RoutingInv, ReadyTellsTheTruth
  <2>4. CASE Retired(n)
    BY <1>4, <2>2, <2>3, <2>4 DEF Retired
  <2>5. CASE ~ Retired(n)
    <3>1. route[n].rule \in RuleIds \ {id}
      BY <2>2, <2>3, <2>5 DEF RulesTo
    <3> QED BY <1>4, <1>5, <2>2, <2>3, <2>5, <3>1 DEF Retired
  <2> QED BY <2>4, <2>5
<1>13. pass'.box \notin meddled' => PassIsRight(pass.box)'
  BY <1>3, <1>4, <1>9 DEF PassIsRight, Retired, world, history
<1>14. OthersAreSafe'
  BY <1>3, <1>4, <1>8 DEF OthersAreSafe, world, history
<1>15. LookedAt' /\ SeedsIssued'
  BY <1>2, <1>3, <1>4 DEF LookedAt, SeedsIssued
<1> QED BY <1>6, <1>7, <1>11, <1>12, <1>13, <1>14, <1>15 DEF RoutingInv

(* Answers, lost answers and crashes.                                      *)
LEMMA AnswerKeeps ==
  ASSUME RoutingInv, RuleSaved \/ RuleRemoved
  PROVE  RoutingInv'
<1> DEFINE m == pass.box
           id == pass.own
<1>1. Working /\ m \in Mailboxes /\ m \notin rows /\ mailbox[m] # "none"
  BY OpenRow DEF RuleSaved, RuleRemoved, Working
<1>2. TypeOK
  BY DEF RoutingInv
<1>3. /\ NextRow /\ rows' \subseteq rows /\ stale' \subseteq stale /\ asked' \subseteq asked
      /\ faults' \in 0 .. MaxFaults /\ m \notin rows'
      /\ UNCHANGED <<mailbox, configured, rules, issued, history>>
  BY <1>1, <1>2 DEF RuleSaved, RuleRemoved, Gone, TypeOK, world
<1>4. CASE RuleRemoved
  <2>1. Wrote(m, "ready", {"none"}, {NoId})
    BY <1>1, <1>2, <1>4, GoneWrites DEF RuleRemoved
  <2>2. m \notin meddled => RowTrue(m)
    BY <1>1, <1>4 DEF RoutingInv, PassIsRight, RuleRemoved, RowTrue
  <2>3. RowEndsAs(m, "ready", {"none"}, {NoId})
    BY <1>3, <2>1, <2>2 DEF RowEndsAs
  <2> QED BY <1>1, <1>3, <2>3, RowEnds
<1>5. CASE RuleSaved
  <2>1. id \in RuleIds /\ pass.at = "saved"
    BY <1>2, <1>5 DEF TypeOK, RuleSaved
  <2>2. CASE ~ pass.confirmed
    <3>1. Wrote(m, "error", {"none"}, {id})
      BY <1>1, <1>2, <1>5, <2>1, <2>2, UnconfirmedWrites DEF RuleSaved
    <3>2. RowEndsAs(m, "error", {"none"}, {id})
      BY <1>3, <3>1 DEF RowEndsAs
    <3> QED BY <1>1, <1>3, <3>2, RowEnds
  <2>3. CASE pass.confirmed /\ Retired(m)
    <3>1. Wrote(m, "pending", {"due"}, {id})
      BY <1>1, <1>2, <1>5, <2>1, <2>3, ConfirmWrites DEF RuleSaved
    <3>2. RowEndsAs(m, "pending", {"due"}, {id})
      BY <1>3, <3>1 DEF RowEndsAs
    <3> QED BY <1>1, <1>3, <3>2, RowEnds
  <2>4. CASE pass.confirmed /\ ~ Retired(m)
    <3>1. Wrote(m, "ready", {"none"}, {id})
      BY <1>1, <1>2, <1>5, <2>1, <2>4, ConfirmWrites DEF RuleSaved
    <3>2. m \notin meddled => RowTrue(m)
      BY <1>1, <2>1, <2>4, <3>1 DEF RoutingInv, PassIsRight, RowTrue, Wrote
    <3>3. RowEndsAs(m, "ready", {"none"}, {id})
      BY <1>3, <3>1, <3>2 DEF RowEndsAs
    <3> QED BY <1>1, <1>3, <3>3, RowEnds
  <2> QED BY <2>2, <2>3, <2>4
<1> QED BY <1>4, <1>5

LEMMA FaultKeeps ==
  ASSUME RoutingInv,
         \/ \E retryable \in BOOLEAN : CallFails(retryable)
         \/ \E domains \in SUBSET Mailboxes : Crash(domains)
  PROVE  RoutingInv'
<1>1. TypeOK
  BY DEF RoutingInv
<1>2. ASSUME NEW retryable \in BOOLEAN, CallFails(retryable) PROVE RoutingInv'
  <2>1. Working
    BY <1>2 DEF CallFails, Working
  <2>2. faults' \in 0 .. MaxFaults
    BY <1>1, <1>2, RoutingAssumption DEF CallFails, TypeOK
  <2>3. rows' = rows /\ stale' = stale /\ asked' = asked /\ history' = history
    BY <1>2 DEF CallFails, world
  <2>4. FailRow(pass.box, retryable) /\ NextRow
        /\ UNCHANGED <<mailbox, configured, rules, issued>>
    BY <1>2 DEF CallFails
  <2> QED BY <2>1, <2>2, <2>3, <2>4, OpenRow, RefuseEnds
<1>3. ASSUME NEW domains \in SUBSET Mailboxes, Crash(domains) PROVE RoutingInv'
  <2>1. faults' \in 0 .. MaxFaults
    BY <1>1, <1>3, RoutingAssumption DEF Crash, TypeOK
  <2> QED BY <1>3, <2>1, BetweenRows DEF Crash
<1> QED BY <1>2, <1>3

(* An edit by somebody else leaves alone what it does not concern.         *)
LEMMA EditRuleKeeps ==
  ASSUME RoutingInv, NEW id \in RuleIds, NEW rule \in Rule \cup {NoRule},
         EditRule(id, rule)
  PROVE  RoutingInv'
<1>1. TypeOK /\ RowsInStep /\ SeedsIssued
  BY DEF RoutingInv
<1>2. rules'[id] = rule /\ \A i \in RuleIds \ {id} : rules'[i] = rules[i]
  BY <1>1 DEF EditRule, TypeOK
<1>3. /\ UNCHANGED <<mailbox, route, configured, pass, rows, asked, faults>>
      /\ issued' = issued \cup {id} /\ edits' = edits + 1 /\ edits < MaxEdits
      /\ meddled' = meddled \cup Concerned(id, rule)
      /\ stale' = stale \cup Concerned(id, rule)
  BY DEF EditRule
<1>4. Concerned(id, rule) \subseteq Mailboxes
  BY DEF Concerned
<1>5. TypeOK'
  <2>1. rules' \in [RuleIds -> Rule \cup {NoRule}]
    BY <1>1 DEF EditRule, TypeOK
  <2>2. edits' \in 0 .. MaxEdits
    BY <1>1, <1>3, RoutingAssumption DEF TypeOK
  <2> QED BY <1>1, <1>2, <1>3, <1>4, <2>1, <2>2 DEF TypeOK
<1>6. RowsInStep' /\ SeedsIssued'
  BY <1>1, <1>3 DEF RowsInStep, SeedsIssued, Working
<1>7. ASSUME NEW m \in Mailboxes \ Concerned(id, rule)
      PROVE  /\ Seed[m] # id /\ route[m].rule # id /\ ~ (pass.box = m /\ pass.own = id)
             /\ rule # NoRule => rule.name # m /\ rule.to # m
             /\ rules[id] # NoRule => rules[id].name # m /\ rules[id].to # m
  BY <1>7 DEF Concerned
<1>8. ASSUME NEW m \in Mailboxes \ Concerned(id, rule)
      PROVE  RulesTo(m)' = RulesTo(m) /\ id \notin RulesTo(m)
  BY <1>2, <1>7, <1>8 DEF RulesTo
<1>9. ASSUME NEW m \in Mailboxes \ meddled' PROVE RulesAreOwn(m)'
  <2>1. RulesAreOwn(m) /\ m \in Mailboxes \ Concerned(id, rule)
    BY <1>3, <1>9 DEF RoutingInv
  <2> QED BY <1>2, <1>3, <1>7, <1>8, <2>1 DEF RulesAreOwn
<1>10. ReadyTellsTheTruth'
  <2> SUFFICES ASSUME NEW m \in Mailboxes \ meddled', route'[m].state = "ready"
               PROVE  IF Retired(m)' THEN RulesTo(m)' = {}
                      ELSE /\ RulesTo(m)' = {route'[m].rule}
                           /\ rules'[route'[m].rule] = OwnRule(m, TRUE)
    BY DEF ReadyTellsTheTruth, OwnRule
  <2>1. m \in Mailboxes \ Concerned(id, rule) /\ m \notin meddled
    BY <1>3
  <2>2. IF Retired(m) THEN RulesTo(m) = {}
        ELSE /\ RulesTo(m) = {route[m].rule}
             /\ rules[route[m].rule] = OwnRule(m, TRUE)
    BY <1>3, <2>1 DEF RoutingInv, ReadyTellsTheTruth
  <2>3. CASE Retired(m)
    BY <1>3, <1>8, <2>1, <2>2, <2>3 DEF Retired
  <2>4. CASE ~ Retired(m)
    <3>1. route[m].rule \in RuleIds \ {id}
      BY <1>8, <2>1, <2>2, <2>4 DEF RulesTo
    <3> QED BY <1>2, <1>3, <1>8, <2>1, <2>2, <2>4, <3>1 DEF Retired
  <2> QED BY <2>3, <2>4
<1>11. Working' /\ pass'.box \notin meddled' => PassIsRight(pass.box)'
  <2> SUFFICES ASSUME Working, pass.box \notin meddled' PROVE PassIsRight(pass.box)'
    BY <1>3 DEF Working
  <2>1. pass.box \in Mailboxes \ Concerned(id, rule) /\ PassIsRight(pass.box)
    BY <1>3, OpenRow DEF RoutingInv
  <2>2. RulesTo(pass.box)' = RulesTo(pass.box)
    BY <1>3, <1>8, <2>1
  <2>3. pass.own # id
    BY <1>7, <2>1
  <2>4. pass.at = "saved" => pass.own \in RuleIds
    BY <1>1 DEF TypeOK
  <2> QED BY <1>2, <1>3, <2>1, <2>2, <2>3, <2>4 DEF PassIsRight, Retired, OwnRule
<1>12. OthersAreSafe'
  BY <1>3, <1>8 DEF RoutingInv, OthersAreSafe, Working
<1>13. LookedAt'
  <2> SUFFICES ASSUME pass.at \in {"read", "save", "remove"}, pass.box \notin stale'
               PROVE  IF pass.own = NoId THEN RulesTo(pass.box)' = {}
                      ELSE rules'[pass.own] # NoRule /\ Permitted(pass.box, pass.own)'
    BY <1>3 DEF LookedAt
  <2>1. pass.box \in Mailboxes \ Concerned(id, rule) /\ pass.box \notin stale
    BY <1>3, OpenRow DEF Working
  <2>2. RulesTo(pass.box)' = RulesTo(pass.box)
    BY <1>3, <1>8, <2>1
  <2>3. pass.own # id /\ pass.own \in RuleIds \cup {NoId}
    BY <1>1, <1>7, <2>1 DEF TypeOK, Pass
  <2>4. IF pass.own = NoId THEN RulesTo(pass.box) = {}
        ELSE rules[pass.own] # NoRule /\ Permitted(pass.box, pass.own)
    BY <2>1 DEF RoutingInv, LookedAt
  <2> QED BY <1>2, <1>3, <2>2, <2>3, <2>4 DEF Permitted
<1> QED BY <1>5, <1>6, <1>9, <1>10, <1>11, <1>12, <1>13 DEF RoutingInv

LEMMA RoutingStart == Init => RoutingInv
<1> SUFFICES ASSUME Init PROVE RoutingInv
  OBVIOUS
<1>1. /\ route = [m \in Mailboxes |-> NoRow] /\ NoRow \in RouteRow
      /\ NoRow.state = "none" /\ NoRow.retry = "none" /\ NoRow.zone = FALSE
  BY DEF Init, NoRow, RouteRow
<1>2. pass \in Pass /\ pass.at = "idle"
  BY DEF Init, Quiet, Pass
<1>3. issued \subseteq RuleIds /\ SeedsIssued
  BY RoutingAssumption DEF Init, SeedsIssued
<1>4. ASSUME NEW id \in issued
      PROVE  /\ rules[id] \in Rule /\ rules[id] # NoRule
             /\ rules[id].name = Foreign /\ rules[id].worker
             /\ rules[id].to \in Mailboxes /\ Seed[rules[id].to] = id
  <2> DEFINE box == CHOOSE m \in Mailboxes : Seed[m] = id
  <2>1. \E m \in Mailboxes : Seed[m] = id
    BY <1>4 DEF Init
  <2>2. box \in Mailboxes /\ Seed[box] = id
    BY <2>1
  <2>3. rules[id] = [name |-> Foreign, to |-> box, worker |-> TRUE, enabled |-> TRUE]
    BY <1>3, <1>4 DEF Init
  <2> HIDE DEF box
  <2>4. rules[id] \in Rule
    BY <2>2, <2>3 DEF Rule
  <2>5. NoRule \notin Rule
    BY RoutingAssumption
  <2>6. rules[id].to = box /\ rules[id].name = Foreign /\ rules[id].worker
    BY <2>3
  <2> QED BY <2>2, <2>4, <2>5, <2>6
<1>5. \A id \in RuleIds \ issued : rules[id] = NoRule
  BY DEF Init
<1>6. rules \in [RuleIds -> Rule \cup {NoRule}]
  <2>1. \A id \in RuleIds : rules[id] \in Rule \cup {NoRule}
    BY <1>4, <1>5
  <2>2. rules = [id \in RuleIds |-> rules[id]]
    BY DEF Init
  <2> QED BY <2>1, <2>2
<1>7. TypeOK
  BY <1>1, <1>2, <1>3, <1>5, <1>6, RoutingAssumption DEF Init, TypeOK
<1>8. RowsInStep
  BY <1>1, <1>2 DEF Init, RowsInStep, Working
<1>9. ASSUME NEW m \in Mailboxes PROVE RulesAreOwn(m)
  <2>1. ASSUME NEW id \in RulesTo(m) PROVE id = Seed[m]
    BY <1>4, <1>5, <2>1 DEF RulesTo
  <2>2. ASSUME NEW id \in RuleIds, rules[id] # NoRule,
               rules[id].name = m \/ rules[id].to = m \/ id = Seed[m]
        PROVE  /\ rules[id].to = m /\ rules[id].worker
               /\ rules[id].name = Foreign /\ id = Seed[m]
    <3>1. id \in issued /\ Seed[rules[id].to] = id /\ rules[id].to \in Mailboxes
          /\ rules[id].name = Foreign /\ rules[id].worker
      BY <1>4, <1>5, <2>2
    <3>2. rules[id].to = m
      BY <2>2, <3>1, RoutingAssumption
    <3> QED BY <3>1, <3>2
  <2> QED BY <2>1, <2>2 DEF RulesAreOwn
<1>10. ReadyTellsTheTruth /\ OthersAreSafe /\ LookedAt /\ ~ Working
  BY <1>1, <1>2 DEF ReadyTellsTheTruth, OthersAreSafe, LookedAt, Working
<1> QED BY <1>3, <1>7, <1>8, <1>9, <1>10 DEF RoutingInv

LEMMA RoutingStep == RoutingInv /\ [Next]_vars => RoutingInv'
<1> SUFFICES ASSUME RoutingInv, [Next]_vars PROVE RoutingInv'
  OBVIOUS
<1>1. CASE PassStep
  <2>1. ASSUME NEW batch \in SUBSET Mailboxes, StartRoutes(batch) PROVE RoutingInv'
    <3>1. batch \subseteq Due /\ faults \in 0 .. MaxFaults /\ configured \subseteq Mailboxes
      BY <2>1 DEF StartRoutes, RoutingInv, TypeOK
    <3>2. pass'.at = "next"
      BY <2>1 DEF StartRoutes, Quiet
    <3> QED BY <2>1, <3>1, <3>2, BetweenRows DEF StartRoutes
  <2>2. CASE FinishRoutes
    <3>1. faults \in 0 .. MaxFaults /\ configured \subseteq Mailboxes
      BY DEF RoutingInv, TypeOK
    <3> QED BY <2>2, <3>1, BetweenRows DEF FinishRoutes
  <2> QED BY <1>1, <2>1, <2>2, OpenRouteKeeps, ListRulesKeeps, ReadRuleKeeps,
             SaveRuleKeeps, RemoveRuleKeeps, AnswerKeeps, FaultKeeps DEF PassStep
<1>2. CASE CallStep \/ \E m \in Mailboxes : RetryComesDue(m)
  BY <1>2, CallStepKeeps
<1>3. CASE \E domains \in SUBSET Mailboxes : Crash(domains)
  BY <1>3, FaultKeeps
<1>4. CASE \E id \in RuleIds, rule \in Rule \cup {NoRule} : EditRule(id, rule)
  BY <1>4, EditRuleKeeps
<1>5. CASE UNCHANGED vars
  BY <1>5 DEF vars, world, history, RoutingInv, TypeOK, RowsInStep, SeedsIssued,
              RulesAreOwn, ReadyTellsTheTruth, Working, PassIsRight,
              OthersAreSafe, LookedAt, RulesTo, Retired, Permitted, OwnRule
<1> QED BY <1>1, <1>2, <1>3, <1>4, <1>5 DEF Next

-----------------------------------------------------------------------------
(* The theorems.                                                           *)

(* The invariant holds in every state.                                     *)
THEOREM RoutingInvariant == Spec => []RoutingInv
<1> QED BY RoutingStart, RoutingStep, PTL DEF Spec

(* The route rows, the rules and the pass stay well typed: in particular   *)
(* the states the schema's CHECK on mailbox_routes allows.                 *)
THEOREM RoutingTypeCorrect == Spec => []TypeOK
<1>1. RoutingInv => TypeOK
  BY DEF RoutingInv
<1> QED BY <1>1, RoutingInvariant, PTL

(* A route shown as ready is what Cloudflare has, whatever commands and    *)
(* faults came between the pass's calls.                                   *)
THEOREM ReadyRoutesAreTrue == Spec => []ReadyTellsTheTruth
<1>1. RoutingInv => ReadyTellsTheTruth
  BY DEF RoutingInv
<1> QED BY <1>1, RoutingInvariant, PTL

(* No second rule is left behind, and what was created can be found.       *)
THEOREM RulesStayFindable == Spec => []RulesCanBeFound
<1>1. RoutingInv => RulesCanBeFound
  BY DEF RoutingInv, RulesCanBeFound, RulesAreOwn, RulesTo
<1> QED BY <1>1, RoutingInvariant, PTL

(* The reconciliation never takes over or removes somebody else's rule.    *)
THEOREM ForeignRulesUntouched == Spec => OnlyOwnRulesTouched
<1> DEFINE Careful ==
      \A id \in RuleIds :
        rules'[id] # rules[id] /\ edits' = edits /\ pass.box \notin stale =>
          \/ rules[id] # NoRule /\ Permitted(pass.box, id)
          \/ rules[id] = NoRule /\ RulesTo(pass.box) = {}
<1>1. RoutingInv /\ [Next]_vars => [Careful]_vars
  <2> SUFFICES ASSUME RoutingInv, Next, NEW id \in RuleIds,
                      rules'[id] # rules[id], edits' = edits, pass.box \notin stale
               PROVE  \/ rules[id] # NoRule /\ Permitted(pass.box, id)
                      \/ rules[id] = NoRule /\ RulesTo(pass.box) = {}
    OBVIOUS
  <2>1. rules \in [RuleIds -> Rule \cup {NoRule}] /\ edits \in Nat /\ LookedAt
        /\ \A i \in RuleIds \ issued : rules[i] = NoRule
    BY RoutingAssumption DEF RoutingInv, TypeOK
  <2>2. ASSUME NEW i \in RuleIds, NEW asAsked \in BOOLEAN, SaveRule(i, asAsked)
        PROVE  i = id
    BY <2>1, <2>2 DEF SaveRule
  <2>3. CASE \E i \in RuleIds, asAsked \in BOOLEAN : SaveRule(i, asAsked)
    BY <2>1, <2>2, <2>3 DEF SaveRule, LookedAt
  <2>4. CASE RemoveRule
    <3>1. id = pass.own /\ id # NoId
      BY <2>1, <2>4, RoutingAssumption DEF RemoveRule
    <3> QED BY <2>1, <2>4, <3>1 DEF RemoveRule, LookedAt
  <2>5. CASE rules' = rules
    BY <2>5
  <2>6. CASE \E i \in RuleIds, r \in Rule \cup {NoRule} : EditRule(i, r)
    BY <2>1, <2>6 DEF EditRule
  <2> QED BY <2>3, <2>4, <2>5, <2>6
          DEF Next, PassStep, CallStep, StartRoutes, FinishRoutes, OpenRoute,
              ListRules, ReadRule, RuleSaved, RuleRemoved, CallFails, Crash,
              CreateAddress, RetireAddress, RetryAddressRouting, RetryComesDue
<1> QED BY <1>1, RoutingInvariant, PTL DEF Spec, OnlyOwnRulesTouched
=============================================================================
