-------------------------------- MODULE DueWork --------------------------------
(***************************************************************************)
(* The store's one alarm and the passes it runs.  Five kinds of rows come  *)
(* due: pending approvals, ready jobs, claims, receipts and routes.  Calls *)
(* write rows and then set the alarm for the earliest of them; a pass      *)
(* works through the kinds in a fixed order, awaiting others on the way,   *)
(* and sets the alarm again at its end.  What the rows hold besides their  *)
(* due time is in the modules of their tables.                             *)
(*                                                                         *)
(* All times are relative to now, so that a tick brings each one nearer:   *)
(* what was due up to MaxPass ago is told apart, and what was due longer   *)
(* ago is not.  A pass writes the times it computes from its start.        *)
(***************************************************************************)
EXTENDS Integers, FiniteSets

CONSTANTS
  Mails,          \* messages given to submitOutbound
  Receipts,
  Mailboxes,
  ApprovalTime,   \* until an approval expires
  ClaimTime,      \* SEND_CLAIM_TTL_MS
  RedriveTime,    \* REDRIVE_GRACE_MS, and the delay of the next redrive
  RetryTime,      \* FAILED_STEP_RETRY_MS, and a route's first backoff
  Horizon,        \* the farthest that anything is due
  SendBatch,      \* SEND_BATCH_SIZE
  RowBatch,       \* REDRIVE_BATCH_SIZE, and the limit of routes
  NoJob,
  Never,          \* no due time, no alarm
  Settled,        \* a receipt that is indexed or failed
  MaxPass,        \* bound: the ticks a pass may take
  MaxArms,        \* bound: calls that have yet to set the alarm
  MaxFaults       \* bound: failed steps and crashes

Jobs == Mails \X {"mail", "notice"}
Times == (0 - MaxPass) .. Horizon
LongAgo == 0 - MaxPass

Kinds == {"approvals", "ready", "claims", "receipts", "routes"}

ASSUME DueWorkAssumption ==
  /\ Horizon \in Nat
  /\ {ApprovalTime, ClaimTime, RedriveTime, RetryTime} \subseteq 1 .. Horizon
  /\ SendBatch \in Nat \ {0} /\ RowBatch \in Nat \ {0}
  /\ NoJob \notin Jobs \cup Mailboxes
  /\ Never \notin Int /\ Settled \notin Int /\ Settled # Never
  /\ MaxPass \in Nat /\ MaxArms \in Nat /\ MaxFaults \in Nat

VARIABLES
  job,       \* outbound_jobs' state, of a message and of its review mail
  until,     \* its expires_at or claim_expires_at
  receipt,   \* retry_after of a ready receipt
  route,     \* retry_after of a route
  life,      \* of a mailbox: retiring until a pass knows of it
  up,        \* the object runs
  arms,      \* calls that have committed and not set the alarm yet
  alarm,
  pass,      \* the pass: its step, its age, the steps that failed
  todo,      \* what is left of the step's batch
  doing,     \* the row of it that is worked on
  still,     \* history: nothing has happened since the last pass began
  faults

tables == <<job, until, receipt, route, life>>
batch == <<todo, doing>>
object == <<up, arms, alarm>>
vars == <<tables, object, pass, batch, still, faults>>

Steps == {"idle", "expire", "select", "send", "sending", "sent", "redrive",
          "enqueue", "reconcile", "routes", "routing", "arm"}

-----------------------------------------------------------------------------
(* Due times.                                                              *)

AtLeast(t, bound) == IF t < bound THEN bound ELSE t

\* dueTimes, for all rows of a kind.
DueTimes(kind) ==
  CASE kind = "approvals" -> {until[j] : j \in {k \in Jobs : job[k] = "waiting_approval"}}
    [] kind = "ready" -> {LongAgo : j \in {k \in Jobs : job[k] = "ready"}}
    [] kind = "claims" -> {until[j] : j \in {k \in Jobs : job[k] = "in_flight"}}
    [] kind = "receipts" -> {receipt[r] : r \in Receipts} \ {Never, Settled}
    [] kind = "routes" -> {route[b] : b \in Mailboxes} \ {Never}

\* Slips the properties are there to catch; the specification uses none.

\* A claim is not expected to be abandoned.
ClaimsDoNotWake(start, failed) ==
  UNION {{AtLeast(t, IF kind \in failed THEN start + RetryTime ELSE start)
          : t \in DueTimes(kind)} : kind \in Kinds \ {"claims"}}

\* What failed is tried again at once.
FailuresWakeAtOnce(start, failed) ==
  UNION {{AtLeast(t, start) : t \in DueTimes(kind)} : kind \in Kinds}

\* A failed step's delay is added to the time its rows come due.
DelayIsAdded(start, failed) ==
  UNION {{AtLeast(IF kind \in failed THEN t + RetryTime ELSE t, start)
          : t \in DueTimes(kind)} : kind \in Kinds}

\* The times armDueWork takes the least of.
WakeTimes(start, failed) ==
  UNION {{AtLeast(t, IF kind \in failed THEN start + RetryTime ELSE start)
          : t \in DueTimes(kind)} : kind \in Kinds}

\* armDueWork
ArmDueWork(start, failed) ==
  LET times == WakeTimes(start, failed) IN
  \/ times = {} /\ alarm' = Never
  \/ \E t \in times : (\A u \in times : t <= u) /\ alarm' = t

Overdue(t) == t \notin {Never, Settled} /\ t <= 0 - pass.age

\* A batch of what is due, up to the limit of one pass.
Takes(rows, due, limit) ==
  /\ rows \subseteq due
  /\ Cardinality(rows) <= limit
  /\ rows = due \/ Cardinality(rows) = limit

\* The batch that has been due for longest.
TakesOldest(rows, at, limit) ==
  LET due == {r \in DOMAIN at : Overdue(at[r])} IN
  /\ Takes(rows, due, limit)
  /\ \A r \in rows, other \in due \ rows : at[r] <= at[other]

-----------------------------------------------------------------------------
Init ==
  /\ job = [j \in Jobs |-> "none"]
  /\ until = [j \in Jobs |-> 0]
  /\ receipt = [r \in Receipts |-> Never]
  /\ route = [b \in Mailboxes |-> Never]
  /\ life = [b \in Mailboxes |-> "live"]
  /\ up = TRUE /\ arms = 0 /\ alarm = Never
  /\ pass = [at |-> "idle", age |-> 0, failed |-> {}]
  /\ todo = {} /\ doing = NoJob
  /\ still = FALSE
  /\ faults = 0

\* Something other than the passing of a pass has happened.
Stirs == still' = FALSE

-----------------------------------------------------------------------------
(* Calls.  callAndArm commits a call's rows and sets the alarm afterwards; *)
(* what other calls do can only take rows out of the alarm's reach.        *)

Arming ==
  /\ up /\ arms < MaxArms
  /\ arms' = arms + 1
  /\ Stirs
  /\ UNCHANGED <<up, alarm, pass, batch, faults>>

\* rejectUndispatched: what a message has not sent yet.
RejectUndispatched(m) ==
  job' = [j \in Jobs |-> IF j[1] = m /\ job[j] \in {"waiting_approval", "ready"}
                         THEN "settled" ELSE job[j]]

\* A message that is held goes with the mail that asks for its review; one
\* that was submitted before changes nothing.
SubmitOutbound(m, held) ==
  LET mail == <<m, "mail">>
      notice == <<m, "notice">>
  IN
  /\ Arming
  /\ IF job[mail] # "none" THEN UNCHANGED <<job, until>>
     ELSE IF held
     THEN /\ job' = [job EXCEPT ![mail] = "waiting_approval", ![notice] = "ready"]
          /\ until' = [until EXCEPT ![mail] = ApprovalTime]
     ELSE job' = [job EXCEPT ![mail] = "ready"] /\ UNCHANGED until
  /\ UNCHANGED <<receipt, route, life>>

\* An approval that is due can no longer be decided.
DecideApproval(m, approved) ==
  LET mail == <<m, "mail">> IN
  /\ job[mail] = "waiting_approval" /\ until[mail] > 0
  /\ Arming
  /\ IF approved THEN job' = [job EXCEPT ![mail] = "ready"]
     ELSE job' = [job EXCEPT ![<<m, "notice">>] = IF @ = "ready" THEN "settled" ELSE @,
                             ![mail] = "settled"]
  /\ UNCHANGED <<until, receipt, route, life>>

\* Deleting its conversation cancels mail; the alarm stays as it is.
SoftDeleteThread(m) ==
  /\ up
  /\ RejectUndispatched(m)
  /\ job' # job
  /\ Stirs
  /\ UNCHANGED <<until, receipt, route, life, object, pass, batch, faults>>

RegisterInboundReceipt(r) ==
  /\ receipt[r] = Never
  /\ Arming
  /\ receipt' = [receipt EXCEPT ![r] = RedriveTime]
  /\ UNCHANGED <<job, until, route, life>>

\* acceptInbound or failInboundReceiptPolicy.
SettleReceipt(r) ==
  /\ up
  /\ receipt[r] \notin {Never, Settled}
  /\ receipt' = [receipt EXCEPT ![r] = Settled]
  /\ Stirs
  /\ UNCHANGED <<job, until, route, life, object, pass, batch, faults>>

\* createAddress or retryAddressRouting.
AskForRoute(b) ==
  /\ Arming
  /\ route' = [route EXCEPT ![b] = 0]
  /\ UNCHANGED <<job, until, receipt, life>>

\* A slip: a retirement that only writes its intent.
RetiresQuietly(b) ==
  /\ up /\ life[b] = "live"
  /\ life' = [life EXCEPT ![b] = "retiring"]
  /\ route' = [route EXCEPT ![b] = 0]
  /\ Stirs
  /\ UNCHANGED <<job, until, receipt, object, pass, batch, faults>>

RetireAddress(b) ==
  /\ life[b] = "live"
  /\ Arming
  /\ life' = [life EXCEPT ![b] = "retiring"]
  /\ route' = [route EXCEPT ![b] = 0]
  /\ UNCHANGED <<job, until, receipt>>

Arm ==
  /\ up /\ arms > 0
  /\ arms' = arms - 1
  /\ ArmDueWork(0, {})
  /\ Stirs
  /\ UNCHANGED <<tables, up, pass, batch, faults>>

-----------------------------------------------------------------------------
(* The pass.  Its steps are independent: one that fails is noted.          *)

Goes(to) == pass' = [pass EXCEPT !.at = to]

Fails(kind, to) ==
  /\ faults < MaxFaults
  /\ faults' = faults + 1
  /\ pass' = [pass EXCEPT !.at = to, !.failed = @ \cup {kind}]
  /\ UNCHANGED <<tables, still>>

\* The alarm is cleared when it fires, and fires once at a time.
FireAlarm ==
  /\ up /\ pass.at = "idle"
  /\ alarm # Never /\ alarm <= 0
  /\ alarm' = Never
  /\ pass' = [at |-> "expire", age |-> 0, failed |-> {}]
  /\ still' = TRUE
  /\ UNCHANGED <<tables, up, arms, batch, faults>>

\* The step writes job; the pass goes on, and is known to get somewhere.
Writes(to) ==
  /\ still' = (still /\ job' = job)
  /\ Goes(to)
  /\ UNCHANGED <<receipt, route, life, faults>>

ExpireDueApprovals ==
  LET due == {j[1] : j \in {k \in Jobs : /\ job[k] = "waiting_approval"
                                        /\ Overdue(until[k])}}
  IN
  /\ pass.at = "expire"
  /\ \/ /\ job' = [j \in Jobs |->
             IF j[1] \in due /\ job[j] \in {"waiting_approval", "ready"}
             THEN "settled" ELSE job[j]]
        /\ UNCHANGED until
        /\ Writes("select")
     \/ Fails("approvals", "select")
  /\ UNCHANGED <<object, batch>>

ReadyJobs == {j \in Jobs : job[j] = "ready"}

\* Which of the ready jobs are the oldest is left open.
ReadyJobIds(jobs) ==
  /\ pass.at = "select"
  /\ Takes(jobs, ReadyJobs, SendBatch)
  /\ todo' = jobs
  /\ Goes("send")
  /\ UNCHANGED <<tables, object, doing, still, faults>>

\* A job that is no longer ready is passed over.
ReadDispatch(j) ==
  /\ pass.at = "send" /\ j \in todo
  /\ todo' = todo \ {j}
  /\ IF job[j] = "ready" THEN doing' = j /\ Goes("sending")
     ELSE UNCHANGED <<doing, pass>>
  /\ UNCHANGED <<tables, object, still, faults>>

\* Claimed, refused by the policy, or no longer there to be claimed.
ClaimJob ==
  /\ pass.at = "sending"
  /\ \/ /\ job[doing] = "ready"
        /\ job' = [job EXCEPT ![doing] = "in_flight"]
        /\ until' = [until EXCEPT ![doing] = ClaimTime - pass.age]
        /\ Writes("sent")
        /\ UNCHANGED doing
     \/ /\ job[doing] = "ready"
        /\ RejectUndispatched(doing[1])
        /\ Writes("send")
        /\ doing' = NoJob
        /\ UNCHANGED until
     \/ /\ job[doing] # "ready"
        /\ UNCHANGED <<job, until>>
        /\ Writes("send")
        /\ doing' = NoJob
  /\ UNCHANGED <<object, todo>>

\* An answer for a claim that was settled meanwhile changes nothing, and a
\* review mail the provider refuses takes its message with it.
CompleteAttempt(refused) ==
  /\ pass.at = "sent"
  /\ IF job[doing] # "in_flight" THEN UNCHANGED job
     ELSE IF refused /\ doing[2] = "notice"
     THEN job' = [j \in Jobs |->
            IF j = doing \/ (j[1] = doing[1] /\ job[j] \in {"waiting_approval", "ready"})
            THEN "settled" ELSE job[j]]
     ELSE job' = [job EXCEPT ![doing] = "settled"]
  /\ Writes("send")
  /\ doing' = NoJob
  /\ UNCHANGED <<until, object, todo>>

\* Before the claim the job stays ready, after it the claim stays.
SendFails ==
  /\ pass.at \in {"sending", "sent"}
  /\ Fails("ready", "send")
  /\ doing' = NoJob
  /\ UNCHANGED <<object, todo>>

SettleAbandonedClaims ==
  /\ pass.at = "send" /\ todo = {}
  /\ \/ /\ job' = [j \in Jobs |-> IF job[j] = "in_flight" /\ Overdue(until[j])
                                  THEN "settled" ELSE job[j]]
        /\ UNCHANGED until
        /\ Writes("redrive")
     \/ Fails("claims", "redrive")
  /\ UNCHANGED <<object, batch>>

\* The transaction pushes each due receipt, and only then are they sent.
RedriveDueInboundReceipts(rows) ==
  /\ pass.at = "redrive"
  /\ \/ /\ TakesOldest(rows, receipt, RowBatch)
        /\ receipt' = [r \in Receipts |->
             IF r \in rows THEN RedriveTime - pass.age ELSE receipt[r]]
        /\ still' = (still /\ receipt' = receipt)
        /\ Goes("enqueue")
        /\ UNCHANGED <<job, until, route, life, faults>>
     \/ Fails("receipts", "reconcile")
  /\ UNCHANGED <<object, batch>>

SendRedrives ==
  /\ pass.at = "enqueue"
  /\ \/ Goes("reconcile") /\ UNCHANGED <<tables, still, faults>>
     \/ Fails("receipts", "reconcile")
  /\ UNCHANGED <<object, batch>>

StartRoutes(rows) ==
  /\ pass.at = "reconcile"
  /\ TakesOldest(rows, route, RowBatch)
  /\ todo' = rows
  /\ Goes("routes")
  /\ UNCHANGED <<tables, object, doing, still, faults>>

OpenRoute(b) ==
  /\ pass.at = "routes" /\ b \in todo
  /\ todo' = todo \ {b}
  /\ doing' = b
  /\ life' = [life EXCEPT ![b] = IF @ = "retiring" THEN "retired" ELSE @]
  /\ Goes("routing")
  /\ UNCHANGED <<job, until, receipt, route, object, still, faults>>

\* The row is done, is tried again later, or, if its mailbox has retired
\* meanwhile, at once.  What a call has written meanwhile is overwritten.
SettleRoute(at) ==
  /\ pass.at = "routing"
  /\ at \in {Never, RetryTime - pass.age, 0 - pass.age}
  /\ at = 0 - pass.age => life[doing] = "retiring"
  /\ at = RetryTime - pass.age => faults < MaxFaults
  /\ faults' = IF at = RetryTime - pass.age THEN faults + 1 ELSE faults
  /\ route' = [route EXCEPT ![doing] = at]
  /\ still' = FALSE
  /\ doing' = NoJob
  /\ Goes("routes")
  /\ UNCHANGED <<job, until, receipt, life, object, todo>>

RoutesFail ==
  /\ pass.at \in {"routes", "routing"}
  /\ Fails("routes", "arm")
  /\ todo' = {} /\ doing' = NoJob
  /\ UNCHANGED object

FinishRoutes ==
  /\ pass.at = "routes" /\ todo = {}
  /\ Goes("arm")
  /\ UNCHANGED <<tables, object, batch, still, faults>>

\* The alarm is set from the rows as they are now and the pass's start.
ArmAfterPass ==
  /\ pass.at = "arm"
  /\ ArmDueWork(0 - pass.age, pass.failed)
  /\ pass' = [pass EXCEPT !.at = "idle", !.age = 0]
  /\ UNCHANGED <<tables, up, arms, batch, still, faults>>

-----------------------------------------------------------------------------
(* Time and failures.                                                      *)

Nearer(t) == IF t \in {Never, Settled, LongAgo} THEN t ELSE t - 1

Tick ==
  /\ pass.at = "idle" \/ pass.age < MaxPass
  /\ until' = [j \in Jobs |-> Nearer(until[j])]
  /\ receipt' = [r \in Receipts |-> Nearer(receipt[r])]
  /\ route' = [b \in Mailboxes |-> Nearer(route[b])]
  /\ alarm' = Nearer(alarm)
  /\ pass' = IF pass.at = "idle" THEN pass ELSE [pass EXCEPT !.age = @ + 1]
  /\ Stirs
  /\ UNCHANGED <<job, life, up, arms, batch, faults>>

\* The object dies, which a call may do between its rows and the alarm.  An
\* alarm whose handler did not end is due again.
Crash ==
  /\ up /\ faults < MaxFaults
  /\ faults' = faults + 1
  /\ up' = FALSE
  /\ arms' = 0
  /\ alarm' = IF pass.at = "idle" THEN alarm ELSE 0
  /\ pass' = [at |-> "idle", age |-> 0, failed |-> {}]
  /\ todo' = {} /\ doing' = NoJob
  /\ Stirs
  /\ UNCHANGED tables

\* A slip: starting up trusts the alarm that is set.
StartsAsItWas ==
  /\ ~ up
  /\ up' = TRUE
  /\ Stirs
  /\ UNCHANGED <<tables, arms, alarm, pass, batch, faults>>

\* Starting up sets the alarm, before a call or the alarm is served.
Start ==
  /\ ~ up
  /\ up' = TRUE
  /\ ArmDueWork(0, {})
  /\ pass' = [pass EXCEPT !.failed = {}]
  /\ Stirs
  /\ UNCHANGED <<tables, arms, batch, faults>>

-----------------------------------------------------------------------------
CallStep ==
  \/ \E m \in Mails :
       \/ \E held \in BOOLEAN : SubmitOutbound(m, held)
       \/ \E approved \in BOOLEAN : DecideApproval(m, approved)
       \/ SoftDeleteThread(m)
  \/ \E r \in Receipts : RegisterInboundReceipt(r) \/ SettleReceipt(r)
  \/ \E b \in Mailboxes : AskForRoute(b) \/ RetireAddress(b)

PassStep ==
  \/ ExpireDueApprovals
  \/ \E jobs \in SUBSET Jobs : ReadyJobIds(jobs)
  \/ \E j \in Jobs : ReadDispatch(j)
  \/ ClaimJob
  \/ \E refused \in BOOLEAN : CompleteAttempt(refused)
  \/ SendFails
  \/ SettleAbandonedClaims
  \/ \E rows \in SUBSET Receipts : RedriveDueInboundReceipts(rows)
  \/ SendRedrives
  \/ \E rows \in SUBSET Mailboxes : StartRoutes(rows)
  \/ \E b \in Mailboxes : OpenRoute(b)
  \/ \E at \in Times \cup {Never} : SettleRoute(at)
  \/ RoutesFail
  \/ FinishRoutes
  \/ ArmAfterPass

Next == CallStep \/ Arm \/ FireAlarm \/ PassStep \/ Tick \/ Crash \/ Start

Spec == Init /\ [][Next]_vars

\* Cloudflare fires the alarm that is due, a pass goes on to its end or
\* dies, a call that has committed sets the alarm, and an object that died
\* is started again by the next call or alarm.  Calls need not be made, and
\* rows may fail while they fail finitely often.
FairSpec ==
  /\ Spec
  /\ WF_vars(FireAlarm) /\ WF_vars(PassStep) /\ WF_vars(Arm)
  /\ WF_vars(Start) /\ WF_vars(Tick)

-----------------------------------------------------------------------------
(* Properties.                                                             *)

TypeOK ==
  /\ job \in [Jobs -> {"none", "waiting_approval", "ready", "in_flight", "settled"}]
  /\ until \in [Jobs -> Times]
  /\ receipt \in [Receipts -> Times \cup {Never, Settled}]
  /\ route \in [Mailboxes -> Times \cup {Never}]
  /\ life \in [Mailboxes -> {"live", "retiring", "retired"}]
  /\ up \in BOOLEAN
  /\ arms \in 0 .. MaxArms
  /\ alarm \in Times \cup {Never}
  /\ pass \in [at : Steps, age : 0 .. MaxPass, failed : SUBSET Kinds]
  /\ pass.at \in {"send", "sending", "sent"} => todo \subseteq Jobs
  /\ pass.at \in {"sending", "sent"} => doing \in Jobs
  /\ pass.at \in {"routes", "routing"} => todo \subseteq Mailboxes
  /\ pass.at = "routing" => doing \in Mailboxes
  /\ pass.at \notin {"sending", "sent", "routing"} => doing = NoJob
  /\ still \in BOOLEAN
  /\ faults \in 0 .. MaxFaults

\* Whatever calls, passes, failures and restarts have interleaved: once the
\* calls have set the alarm and no pass is under way, no row is forgotten.
\* The alarm is set for the time it comes due, or, if its step failed in the
\* last pass, at most a minute from now.
AlarmCoversWork ==
  up /\ arms = 0 /\ pass.at = "idle" =>
    \A kind \in Kinds : \A t \in DueTimes(kind) :
      /\ alarm # Never
      /\ alarm <= AtLeast(t, IF kind \in pass.failed THEN RetryTime ELSE 0)

\* Stuck work cannot spin the alarm: a pass that changed nothing is followed
\* by another only after time has passed or something else has happened.
NoSpin == [][pass.at = "idle" /\ pass'.at = "expire" => ~ still]_vars

\* Every message and every review mail ends, whether it waits, is ready or
\* was claimed when a pass died.
EveryJobEnds == \A j \in Jobs : job[j] # "none" ~> job[j] = "settled"

\* What is due is taken up: a receipt is redriven, and a route that nobody
\* keeps asking for is reconciled.
DueRowsAreTakenUp ==
  LET due(t) == t \in Times /\ t <= 0 IN
  /\ \A r \in Receipts : due(receipt[r]) ~> ~ due(receipt[r])
  /\ <>[][\A b \in Mailboxes : ~ AskForRoute(b)]_vars =>
       \A b \in Mailboxes : due(route[b]) ~> ~ due(route[b])

-----------------------------------------------------------------------------
(* The inductive invariant behind the safety properties.                   *)

\* The pass has nothing left to do of this kind, or must not try again.
Rests(kind) == kind \in pass.failed \/ \A t \in DueTimes(kind) : t > 0

\* As long as nothing happens, each step of a pass finds nothing due or
\* fails, so that the alarm is not set for at once.
StillMeansDone ==
  still =>
    /\ pass.at = "idle" => (alarm # Never => alarm > 0)
    /\ pass.at # "idle" => pass.age = 0
    /\ pass.at \notin {"idle", "expire"} => Rests("approvals")
    /\ pass.at # "sent"
    /\ pass.at = "send" => todo \subseteq ReadyJobs /\ (Rests("ready") \/ todo # {})
    /\ pass.at = "sending" => todo \cup {doing} \subseteq ReadyJobs
    /\ pass.at \in {"redrive", "enqueue", "reconcile", "routes", "routing", "arm"} =>
         Rests("ready") /\ Rests("claims")
    /\ pass.at \in {"enqueue", "reconcile", "routes", "routing", "arm"} =>
         Rests("receipts")
    /\ pass.at = "routes" => Rests("routes") \/ todo # {}
    /\ pass.at = "arm" => Rests("routes")

DueInv == TypeOK /\ AlarmCoversWork /\ StillMeansDone
=============================================================================
