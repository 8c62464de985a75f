----------------------------- MODULE DueWorkProofs -----------------------------
(***************************************************************************)
(* Theorems about DueWork, for all rows of each kind, all delays and batch *)
(* sizes, passes of any length, and any number of failures and crashes.    *)
(***************************************************************************)
EXTENDS DueWork, FiniteSetTheorems, TLAPS

-----------------------------------------------------------------------------
(* The typed parts of the state.                                           *)

PassType == [at : Steps, age : 0 .. MaxPass, failed : SUBSET Kinds]

RowsTyped ==
  /\ job \in [Jobs -> {"none", "waiting_approval", "ready", "in_flight", "settled"}]
  /\ until \in [Jobs -> Times]
  /\ receipt \in [Receipts -> Times \cup {Never, Settled}]
  /\ route \in [Mailboxes -> Times \cup {Never}]
  /\ life \in [Mailboxes -> {"live", "retiring", "retired"}]

BatchTyped ==
  /\ pass.at \in {"send", "sending", "sent"} => todo \subseteq Jobs
  /\ pass.at \in {"sending", "sent"} => doing \in Jobs
  /\ pass.at \in {"routes", "routing"} => todo \subseteq Mailboxes
  /\ pass.at = "routing" => doing \in Mailboxes
  /\ pass.at \notin {"sending", "sent", "routing"} => doing = NoJob

Flags == up \in BOOLEAN /\ still \in BOOLEAN

Counted ==
  /\ arms \in 0 .. MaxArms
  /\ faults \in 0 .. MaxFaults

LEMMA TypeParts ==
  TypeOK <=> /\ RowsTyped /\ BatchTyped /\ Counted /\ Flags
             /\ alarm \in Times \cup {Never}
             /\ pass \in PassType
BY DEF TypeOK, RowsTyped, BatchTyped, Counted, Flags, PassType

LEMMA TypePartsNext ==
  TypeOK' <=> /\ RowsTyped' /\ BatchTyped' /\ Counted' /\ Flags'
              /\ alarm' \in Times \cup {Never}
              /\ pass' \in PassType
BY DEF TypeOK, RowsTyped, BatchTyped, Counted, Flags, PassType

LEMMA TimesAreIntegers ==
  /\ Times \subseteq Int /\ 0 \in Times /\ LongAgo \in Times
  /\ {ApprovalTime, ClaimTime, RedriveTime, RetryTime} \subseteq Times
  /\ \A age \in 0 .. MaxPass : /\ 0 - age \in Times
                               /\ ClaimTime - age \in Times
                               /\ RedriveTime - age \in Times
                               /\ RetryTime - age \in Times
  /\ Never \notin Times /\ Settled \notin Times
BY DueWorkAssumption DEF Times, LongAgo

LEMMA PassMoves ==
  ASSUME pass \in PassType, NEW to \in Steps, Goes(to)
  PROVE  /\ pass' \in PassType
         /\ pass'.at = to /\ pass'.age = pass.age /\ pass'.failed = pass.failed
BY DEF PassType, Goes

LEMMA StepFails ==
  ASSUME pass \in PassType, NEW kind \in Kinds, NEW to \in Steps, Fails(kind, to)
  PROVE  /\ pass' \in PassType
         /\ pass'.at = to /\ pass'.age = pass.age
         /\ pass'.failed = pass.failed \cup {kind}
         /\ faults < MaxFaults /\ faults' = faults + 1
         /\ UNCHANGED <<job, until, receipt, route, life, still>>
BY DEF PassType, Fails, tables

-----------------------------------------------------------------------------
(* Due times and the alarm.                                                *)

LEMMA DueTimesTyped ==
  ASSUME RowsTyped, NEW kind \in Kinds
  PROVE  DueTimes(kind) \subseteq Times
<1>1. CASE kind = "approvals"
  BY <1>1 DEF DueTimes, RowsTyped
<1>2. CASE kind = "ready"
  BY <1>2, TimesAreIntegers DEF DueTimes
<1>3. CASE kind = "claims"
  BY <1>3 DEF DueTimes, RowsTyped
<1>4. CASE kind = "receipts"
  BY <1>4 DEF DueTimes, RowsTyped
<1>5. CASE kind = "routes"
  BY <1>5 DEF DueTimes, RowsTyped
<1> QED BY <1>1, <1>2, <1>3, <1>4, <1>5 DEF Kinds

(* When a row of this kind wakes the alarm that is set from start.         *)
WakesAt(t, kind, start, failed) ==
  AtLeast(t, IF kind \in failed THEN start + RetryTime ELSE start)

LEMMA WakeTimesAre ==
  ASSUME RowsTyped, NEW start \in (0 - MaxPass) .. 0, NEW failed \in SUBSET Kinds
  PROVE  /\ \A kind \in Kinds : \A t \in DueTimes(kind) :
              /\ WakesAt(t, kind, start, failed) \in WakeTimes(start, failed)
              /\ WakesAt(t, kind, start, failed) \in Times
         /\ \A w \in WakeTimes(start, failed) :
              \E kind \in Kinds : \E t \in DueTimes(kind) :
                w = WakesAt(t, kind, start, failed)
<1> DEFINE wakes(kind) == {WakesAt(t, kind, start, failed) : t \in DueTimes(kind)}
<1>0. WakeTimes(start, failed) = UNION {wakes(kind) : kind \in Kinds}
  BY DEF WakeTimes, WakesAt
<1>1. ASSUME NEW kind \in Kinds, NEW t \in DueTimes(kind)
      PROVE  WakesAt(t, kind, start, failed) \in Times
  <2>1. t \in Times
    BY <1>1, DueTimesTyped
  <2> QED BY <2>1, DueWorkAssumption DEF WakesAt, AtLeast, Times
<1>2. ASSUME NEW kind \in Kinds, NEW t \in DueTimes(kind)
      PROVE  WakesAt(t, kind, start, failed) \in WakeTimes(start, failed)
  <2>1. WakesAt(t, kind, start, failed) \in wakes(kind)
    OBVIOUS
  <2> HIDE DEF wakes
  <2> QED BY <1>0, <2>1
<1>3. ASSUME NEW w \in WakeTimes(start, failed)
      PROVE  \E kind \in Kinds : \E t \in DueTimes(kind) :
               w = WakesAt(t, kind, start, failed)
  <2>2. PICK kind \in Kinds : w \in wakes(kind)
    <3> HIDE DEF wakes
    <3> QED BY <1>0, <1>3
  <2>3. PICK t \in DueTimes(kind) : w = WakesAt(t, kind, start, failed)
    BY <2>2
  <2> QED BY <2>3
<1> QED BY <1>1, <1>2, <1>3

LEMMA Armed ==
  ASSUME RowsTyped, NEW start \in (0 - MaxPass) .. 0, NEW failed \in SUBSET Kinds,
         ArmDueWork(start, failed)
  PROVE  /\ alarm' \in Times \cup {Never}
         /\ \A kind \in Kinds : \A t \in DueTimes(kind) :
              alarm' # Never /\ alarm' <= WakesAt(t, kind, start, failed)
         /\ \/ alarm' = Never
            \/ \E kind \in Kinds : \E t \in DueTimes(kind) :
                 alarm' = WakesAt(t, kind, start, failed)
<1>1. CASE WakeTimes(start, failed) = {} /\ alarm' = Never
  BY <1>1, WakeTimesAre
<1>2. CASE \E t \in WakeTimes(start, failed) :
             (\A u \in WakeTimes(start, failed) : t <= u) /\ alarm' = t
  <2>1. /\ alarm' \in WakeTimes(start, failed)
        /\ \A u \in WakeTimes(start, failed) : alarm' <= u
    BY <1>2
  <2>2. \E kind \in Kinds : \E t \in DueTimes(kind) :
          alarm' = WakesAt(t, kind, start, failed)
    BY <2>1, WakeTimesAre
  <2>3. alarm' \in Times
    BY <2>2, WakeTimesAre
  <2>4. alarm' # Never
    BY <2>3, TimesAreIntegers
  <2> QED BY <2>1, <2>2, <2>3, <2>4, WakeTimesAre
<1> QED BY <1>1, <1>2 DEF ArmDueWork
-----------------------------------------------------------------------------
(* Every step keeps the types.                                             *)

LEMMA CallTypes ==
  ASSUME TypeOK, CallStep
  PROVE  TypeOK'
<1>0. /\ RowsTyped /\ BatchTyped /\ Counted /\ Flags
      /\ alarm \in Times \cup {Never} /\ pass \in PassType
  BY TypeParts
<1>1. ASSUME Arming, RowsTyped'
      PROVE  TypeOK'
  <2>1. Counted' /\ UNCHANGED <<alarm, pass, todo, doing>>
    BY <1>0, <1>1, DueWorkAssumption DEF Arming, Counted, batch
  <2>2. Flags'
    BY <1>0, <1>1, Zenon DEF Arming, Stirs, Flags
  <2>3. BatchTyped' /\ pass' \in PassType /\ alarm' \in Times \cup {Never}
    BY <1>0, <2>1 DEF BatchTyped
  <2> QED BY <1>1, <2>1, <2>2, <2>3, TypePartsNext
<1>2. ASSUME RowsTyped', Stirs, UNCHANGED <<object, pass, batch, faults>>
      PROVE  TypeOK'
  <2>1. Flags'
    BY <1>0, <1>2, Zenon DEF Stirs, Flags, object
  <2>2. /\ Counted' /\ BatchTyped' /\ pass' \in PassType
        /\ alarm' \in Times \cup {Never}
    BY <1>0, <1>2 DEF Counted, BatchTyped, object, batch
  <2> QED BY <1>2, <2>1, <2>2, TypePartsNext
<1>3. ASSUME NEW m \in Mails, NEW held \in BOOLEAN, SubmitOutbound(m, held)
      PROVE  TypeOK'
  <2>1. <<m, "mail">> \in Jobs /\ <<m, "notice">> \in Jobs
    BY DEF Jobs
  <2>2. RowsTyped'
    BY <1>0, <1>3, <2>1, TimesAreIntegers DEF SubmitOutbound, RowsTyped
  <2> QED BY <1>1, <1>3, <2>2 DEF SubmitOutbound
<1>4. ASSUME NEW m \in Mails, NEW approved \in BOOLEAN, DecideApproval(m, approved)
      PROVE  TypeOK'
  <2>1. <<m, "mail">> \in Jobs /\ <<m, "notice">> \in Jobs
    BY DEF Jobs
  <2>2. RowsTyped'
    BY <1>0, <1>4, <2>1 DEF DecideApproval, RowsTyped
  <2> QED BY <1>1, <1>4, <2>2 DEF DecideApproval
<1>5. ASSUME NEW m \in Mails, SoftDeleteThread(m)
      PROVE  TypeOK'
  <2>1. RowsTyped'
    BY <1>0, <1>5 DEF SoftDeleteThread, RejectUndispatched, RowsTyped
  <2> QED BY <1>2, <1>5, <2>1 DEF SoftDeleteThread
<1>6. ASSUME NEW r \in Receipts, RegisterInboundReceipt(r)
      PROVE  TypeOK'
  <2>1. RowsTyped'
    BY <1>0, <1>6, TimesAreIntegers DEF RegisterInboundReceipt, RowsTyped
  <2> QED BY <1>1, <1>6, <2>1 DEF RegisterInboundReceipt
<1>7. ASSUME NEW r \in Receipts, SettleReceipt(r)
      PROVE  TypeOK'
  <2>1. RowsTyped'
    BY <1>0, <1>7 DEF SettleReceipt, RowsTyped
  <2> QED BY <1>2, <1>7, <2>1 DEF SettleReceipt
<1>8. ASSUME NEW b \in Mailboxes, AskForRoute(b)
      PROVE  TypeOK'
  <2>1. RowsTyped'
    BY <1>0, <1>8, TimesAreIntegers DEF AskForRoute, RowsTyped
  <2> QED BY <1>1, <1>8, <2>1 DEF AskForRoute
<1>9. ASSUME NEW b \in Mailboxes, RetireAddress(b)
      PROVE  TypeOK'
  <2>1. RowsTyped'
    BY <1>0, <1>9, TimesAreIntegers DEF RetireAddress, RowsTyped
  <2> QED BY <1>1, <1>9, <2>1 DEF RetireAddress
<1> QED BY <1>3, <1>4, <1>5, <1>6, <1>7, <1>8, <1>9 DEF CallStep

LEMMA OtherTypes ==
  ASSUME TypeOK, Arm \/ FireAlarm \/ Tick \/ Crash \/ Start
  PROVE  TypeOK'
<1>0. /\ RowsTyped /\ BatchTyped /\ Counted /\ Flags
      /\ alarm \in Times \cup {Never} /\ pass \in PassType
  BY TypeParts
<1>1. 0 \in (0 - MaxPass) .. 0 /\ {} \in SUBSET Kinds
  BY DueWorkAssumption
<1>2. CASE Arm
  <2>1. alarm' \in Times \cup {Never}
    BY <1>0, <1>1, <1>2, Armed DEF Arm
  <2>2. Counted'
    BY <1>0, <1>2, DueWorkAssumption DEF Arm, Counted
  <2>4. Flags'
    BY <1>0, <1>2, Zenon DEF Arm, Stirs, Flags
  <2>3. RowsTyped' /\ BatchTyped' /\ pass' \in PassType
    BY <1>0, <1>2 DEF Arm, tables, batch, RowsTyped, BatchTyped
  <2> QED BY <2>1, <2>2, <2>3, <2>4, TypePartsNext
<1>3. CASE FireAlarm
  <2>1. pass' \in PassType /\ pass'.at = "expire"
    BY <1>3, DueWorkAssumption DEF FireAlarm, PassType, Steps
  <2>2. BatchTyped'
    BY <1>0, <1>3, <2>1 DEF FireAlarm, BatchTyped, batch
  <2>3. Counted' /\ RowsTyped' /\ alarm' \in Times \cup {Never}
    BY <1>0, <1>3 DEF FireAlarm, Counted, RowsTyped, tables
  <2>4. Flags'
    BY <1>0, <1>3, Zenon DEF FireAlarm, Flags
  <2> QED BY <2>1, <2>2, <2>3, <2>4, TypePartsNext
<1>4. CASE Tick
  <2>1. ASSUME NEW t \in Times \cup {Never, Settled}
        PROVE  /\ t \in Times => Nearer(t) \in Times
               /\ t \in {Never, Settled} => Nearer(t) = t
    BY <2>1, DueWorkAssumption DEF Nearer, Times, LongAgo
  <2>2. RowsTyped' /\ alarm' \in Times \cup {Never}
    BY <1>0, <1>4, <2>1, TimesAreIntegers DEF Tick, RowsTyped
  <2>3. pass' \in PassType /\ pass'.at = pass.at
    BY <1>0, <1>4, DueWorkAssumption DEF Tick, PassType
  <2>4. BatchTyped' /\ Counted'
    BY <1>0, <1>4, <2>3 DEF Tick, BatchTyped, Counted, batch
  <2>5. Flags'
    BY <1>0, <1>4, Zenon DEF Tick, Stirs, Flags
  <2> QED BY <2>2, <2>3, <2>4, <2>5, TypePartsNext
<1>5. CASE Crash
  <2>1. pass' \in PassType /\ pass'.at = "idle"
    BY <1>5, DueWorkAssumption DEF Crash, PassType, Steps
  <2>2. BatchTyped' /\ RowsTyped'
    BY <1>0, <1>5, <2>1 DEF Crash, BatchTyped, RowsTyped, tables
  <2>3. Counted' /\ alarm' \in Times \cup {Never}
    BY <1>0, <1>5, TimesAreIntegers, DueWorkAssumption DEF Crash, Counted
  <2>4. Flags'
    BY <1>0, <1>5, Zenon DEF Crash, Stirs, Flags
  <2> QED BY <2>1, <2>2, <2>3, <2>4, TypePartsNext
<1>6. CASE Start
  <2>1. alarm' \in Times \cup {Never}
    BY <1>0, <1>1, <1>6, Armed DEF Start
  <2>2. pass' \in PassType /\ pass'.at = pass.at
    BY <1>0, <1>6 DEF Start, PassType
  <2>3. BatchTyped' /\ RowsTyped' /\ Counted'
    BY <1>0, <1>6, <2>2 DEF Start, BatchTyped, RowsTyped, Counted, tables, batch
  <2>4. Flags'
    BY <1>0, <1>6, Zenon DEF Start, Stirs, Flags
  <2> QED BY <2>1, <2>2, <2>3, <2>4, TypePartsNext
<1> QED BY <1>2, <1>3, <1>4, <1>5, <1>6

LEMMA PassTypes ==
  ASSUME TypeOK, PassStep
  PROVE  TypeOK'
<1>0. /\ RowsTyped /\ BatchTyped /\ Counted /\ Flags
      /\ alarm \in Times \cup {Never} /\ pass \in PassType
  BY TypeParts
<1>1. /\ {"idle", "expire", "select", "send", "sending", "sent"} \subseteq Steps
      /\ {"redrive", "enqueue", "reconcile", "routes", "routing", "arm"} \subseteq Steps
      /\ pass.age \in 0 .. MaxPass /\ pass.failed \in SUBSET Kinds
  BY <1>0 DEF Steps, PassType
<1>2. ASSUME NEW kind \in Kinds, NEW to \in Steps, Fails(kind, to),
             UNCHANGED object
      PROVE  /\ RowsTyped' /\ Counted' /\ Flags'
             /\ alarm' \in Times \cup {Never} /\ pass' \in PassType
             /\ pass'.at = to
  <2>1. /\ pass' \in PassType /\ pass'.at = to
        /\ faults < MaxFaults /\ faults' = faults + 1
        /\ UNCHANGED <<job, until, receipt, route, life, still>>
    BY <1>0, <1>2, StepFails
  <2>2. RowsTyped' /\ Counted' /\ alarm' \in Times \cup {Never}
    BY <1>0, <1>2, <2>1, DueWorkAssumption DEF RowsTyped, Counted, object
  <2>3. Flags'
    BY <1>0, <1>2, <2>1, Zenon DEF Flags, object
  <2> QED BY <2>1, <2>2, <2>3
<1>3. ASSUME NEW to \in Steps, Goes(to), RowsTyped', UNCHANGED <<object, faults>>,
             still' \in BOOLEAN
      PROVE  /\ RowsTyped' /\ Counted' /\ Flags'
             /\ alarm' \in Times \cup {Never} /\ pass' \in PassType
             /\ pass'.at = to
  <2>1. Flags'
    BY <1>0, <1>3, Zenon DEF Flags, object
  <2> QED BY <1>0, <1>3, <2>1, PassMoves DEF Counted, object
<1>4. ASSUME NEW to \in Steps, Writes(to), RowsTyped', UNCHANGED object
      PROVE  /\ RowsTyped' /\ Counted' /\ Flags'
             /\ alarm' \in Times \cup {Never} /\ pass' \in PassType
             /\ pass'.at = to
  <2>1. still' \in BOOLEAN
    BY <1>4, Zenon DEF Writes
  <2> QED BY <1>3, <1>4, <2>1 DEF Writes
<1>5. UNCHANGED tables => RowsTyped'
  BY <1>0 DEF RowsTyped, tables
<1>6. UNCHANGED still => still' \in BOOLEAN
  BY <1>0, Zenon DEF Flags
<1> DEFINE Typed == RowsTyped' /\ Counted' /\ Flags'
                    /\ alarm' \in Times \cup {Never} /\ pass' \in PassType
<1>7. CASE ExpireDueApprovals
  <2>1. UNCHANGED object /\ UNCHANGED batch /\ pass.at = "expire"
    BY <1>7 DEF ExpireDueApprovals
  <2>2. CASE Writes("select")
    <3>1. RowsTyped'
      BY <1>0, <1>7, <2>2, <1>5 DEF ExpireDueApprovals, RowsTyped, Writes, Fails
    <3>2. Typed /\ pass'.at = "select"
      BY <1>1, <1>4, <2>1, <2>2, <3>1
    <3> QED BY <1>0, <2>1, <3>2, TypePartsNext DEF BatchTyped, batch
  <2>3. CASE Fails("approvals", "select")
    <3>1. Typed /\ pass'.at = "select"
      BY <1>1, <1>2, <2>1, <2>3 DEF Kinds
    <3> QED BY <1>0, <2>1, <3>1, TypePartsNext DEF BatchTyped, batch
  <2> QED BY <1>7, <2>2, <2>3 DEF ExpireDueApprovals
<1>8. ASSUME NEW jobs \in SUBSET Jobs, ReadyJobIds(jobs)
      PROVE  TypeOK'
  <2>1. Typed /\ pass'.at = "send"
    BY <1>1, <1>3, <1>5, <1>6, <1>8 DEF ReadyJobIds
  <2>2. BatchTyped'
    BY <1>0, <1>8, <2>1 DEF BatchTyped, ReadyJobIds
  <2> QED BY <2>1, <2>2, TypePartsNext
<1>9. ASSUME NEW j \in Jobs, ReadDispatch(j)
      PROVE  TypeOK'
  <2>1. CASE Goes("sending") /\ doing' = j
    <3>1. Typed /\ pass'.at = "sending"
      BY <1>1, <1>3, <1>5, <1>6, <1>9, <2>1 DEF ReadDispatch
    <3>2. BatchTyped'
      BY <1>0, <1>9, <2>1, <3>1 DEF BatchTyped, ReadDispatch
    <3> QED BY <3>1, <3>2, TypePartsNext
  <2>2. CASE UNCHANGED <<doing, pass>>
    <3>1. RowsTyped' /\ Counted' /\ alarm' \in Times \cup {Never} /\ pass' \in PassType
      BY <1>0, <1>9, <2>2 DEF ReadDispatch, RowsTyped, Counted, tables, object
    <3>2. Flags'
      BY <1>0, <1>9, Zenon DEF ReadDispatch, Flags, object
    <3>3. BatchTyped'
      BY <1>0, <1>9, <2>2 DEF BatchTyped, ReadDispatch
    <3> QED BY <3>1, <3>2, <3>3, TypePartsNext
  <2> QED BY <1>9, <2>1, <2>2 DEF ReadDispatch
<1>10. CASE ClaimJob
  <2>1. /\ UNCHANGED object /\ UNCHANGED todo /\ pass.at = "sending"
        /\ doing \in Jobs /\ ClaimTime - pass.age \in Times
    BY <1>0, <1>1, <1>10, TimesAreIntegers DEF ClaimJob, BatchTyped
  <2>2. RowsTyped'
    BY <1>0, <1>10, <2>1 DEF ClaimJob, RejectUndispatched, RowsTyped, Writes
  <2>3. CASE Writes("sent") /\ UNCHANGED doing
    <3>1. Typed /\ pass'.at = "sent"
      BY <1>1, <1>4, <2>1, <2>2, <2>3
    <3> QED BY <1>0, <2>1, <2>3, <3>1, TypePartsNext DEF BatchTyped
  <2>4. CASE Writes("send") /\ doing' = NoJob
    <3>1. Typed /\ pass'.at = "send"
      BY <1>1, <1>4, <2>1, <2>2, <2>4
    <3> QED BY <1>0, <2>1, <2>4, <3>1, TypePartsNext DEF BatchTyped
  <2> QED BY <1>10, <2>3, <2>4 DEF ClaimJob
<1>11. ASSUME NEW refused \in BOOLEAN, CompleteAttempt(refused)
       PROVE  TypeOK'
  <2>1. /\ UNCHANGED object /\ UNCHANGED todo /\ pass.at = "sent"
        /\ doing \in Jobs /\ Writes("send") /\ doing' = NoJob
    BY <1>0, <1>11 DEF CompleteAttempt, BatchTyped
  <2>2. RowsTyped'
    BY <1>0, <1>11, <2>1 DEF CompleteAttempt, RowsTyped, Writes
  <2>3. Typed /\ pass'.at = "send"
    BY <1>1, <1>4, <2>1, <2>2
  <2> QED BY <1>0, <2>1, <2>3, TypePartsNext DEF BatchTyped
<1>12. CASE SendFails
  <2>1. Typed /\ pass'.at = "send"
    BY <1>1, <1>2, <1>12 DEF SendFails, Kinds
  <2>2. BatchTyped'
    BY <1>0, <1>12, <2>1 DEF SendFails, BatchTyped
  <2> QED BY <2>1, <2>2, TypePartsNext
<1>13. CASE SettleAbandonedClaims
  <2>1. UNCHANGED object /\ UNCHANGED batch /\ pass.at = "send"
    BY <1>13 DEF SettleAbandonedClaims
  <2>2. CASE Writes("redrive")
    <3>1. RowsTyped'
      BY <1>0, <1>13, <2>2, <1>5 DEF SettleAbandonedClaims, RowsTyped, Writes, Fails
    <3>2. Typed /\ pass'.at = "redrive"
      BY <1>1, <1>4, <2>1, <2>2, <3>1
    <3> QED BY <1>0, <2>1, <3>2, TypePartsNext DEF BatchTyped, batch
  <2>3. CASE Fails("claims", "redrive")
    <3>1. Typed /\ pass'.at = "redrive"
      BY <1>1, <1>2, <2>1, <2>3 DEF Kinds
    <3> QED BY <1>0, <2>1, <3>1, TypePartsNext DEF BatchTyped, batch
  <2> QED BY <1>13, <2>2, <2>3 DEF SettleAbandonedClaims
<1>14. ASSUME NEW rows \in SUBSET Receipts, RedriveDueInboundReceipts(rows)
       PROVE  TypeOK'
  <2>1. /\ UNCHANGED object /\ UNCHANGED batch /\ pass.at = "redrive"
        /\ RedriveTime - pass.age \in Times
    BY <1>1, <1>14, TimesAreIntegers DEF RedriveDueInboundReceipts
  <2>2. CASE Fails("receipts", "reconcile")
    <3>1. Typed /\ pass'.at = "reconcile"
      BY <1>1, <1>2, <2>1, <2>2 DEF Kinds
    <3> QED BY <1>0, <2>1, <3>1, TypePartsNext DEF BatchTyped, batch
  <2>3. CASE ~ Fails("receipts", "reconcile")
    <3>1. RowsTyped' /\ Goes("enqueue") /\ UNCHANGED faults
      BY <1>0, <1>14, <2>1, <2>3 DEF RedriveDueInboundReceipts, RowsTyped
    <3>2. still' \in BOOLEAN
      BY <1>14, <2>3, Zenon DEF RedriveDueInboundReceipts
    <3>3. Typed /\ pass'.at = "enqueue"
      BY <1>1, <1>3, <2>1, <3>1, <3>2
    <3> QED BY <1>0, <2>1, <3>3, TypePartsNext DEF BatchTyped, batch
  <2> QED BY <2>2, <2>3
<1>15. CASE SendRedrives
  <2>1. UNCHANGED object /\ UNCHANGED batch /\ pass.at = "enqueue"
    BY <1>15 DEF SendRedrives
  <2>2. CASE Goes("reconcile") /\ UNCHANGED <<tables, still, faults>>
    <3>1. Typed /\ pass'.at = "reconcile"
      BY <1>1, <1>3, <1>5, <1>6, <2>1, <2>2
    <3> QED BY <1>0, <2>1, <3>1, TypePartsNext DEF BatchTyped, batch
  <2>3. CASE Fails("receipts", "reconcile")
    <3>1. Typed /\ pass'.at = "reconcile"
      BY <1>1, <1>2, <2>1, <2>3 DEF Kinds
    <3> QED BY <1>0, <2>1, <3>1, TypePartsNext DEF BatchTyped, batch
  <2> QED BY <1>15, <2>2, <2>3 DEF SendRedrives
<1>16. ASSUME NEW rows \in SUBSET Mailboxes, StartRoutes(rows)
       PROVE  TypeOK'
  <2>1. Typed /\ pass'.at = "routes"
    BY <1>1, <1>3, <1>5, <1>6, <1>16 DEF StartRoutes
  <2>2. BatchTyped'
    BY <1>0, <1>16, <2>1 DEF BatchTyped, StartRoutes
  <2> QED BY <2>1, <2>2, TypePartsNext
<1>17. ASSUME NEW b \in Mailboxes, OpenRoute(b)
       PROVE  TypeOK'
  <2>1. RowsTyped'
    BY <1>0, <1>17 DEF OpenRoute, RowsTyped
  <2>2. Typed /\ pass'.at = "routing"
    BY <1>1, <1>3, <1>6, <1>17, <2>1 DEF OpenRoute
  <2>3. BatchTyped'
    BY <1>0, <1>17, <2>2 DEF BatchTyped, OpenRoute
  <2> QED BY <2>2, <2>3, TypePartsNext
<1>18. ASSUME NEW at \in Times \cup {Never}, SettleRoute(at)
       PROVE  TypeOK'
  <2>1. pass.at = "routing" /\ doing \in Mailboxes /\ UNCHANGED object
    BY <1>0, <1>18 DEF SettleRoute, BatchTyped
  <2>2. RowsTyped'
    BY <1>0, <1>18, <2>1 DEF SettleRoute, RowsTyped
  <2>3. pass' \in PassType /\ pass'.at = "routes"
    BY <1>0, <1>1, <1>18, PassMoves DEF SettleRoute
  <2>4. Counted'
    BY <1>0, <1>18, DueWorkAssumption DEF SettleRoute, Counted, object
  <2>5. Flags'
    BY <1>0, <1>18, Zenon DEF SettleRoute, Flags, object
  <2>6. BatchTyped'
    BY <1>0, <1>18, <2>1, <2>3 DEF BatchTyped, SettleRoute
  <2> QED BY <1>0, <2>1, <2>2, <2>3, <2>4, <2>5, <2>6, TypePartsNext DEF object
<1>19. CASE RoutesFail
  <2>1. Typed /\ pass'.at = "arm"
    BY <1>1, <1>2, <1>19 DEF RoutesFail, Kinds
  <2>2. BatchTyped'
    BY <1>0, <1>19, <2>1 DEF RoutesFail, BatchTyped
  <2> QED BY <2>1, <2>2, TypePartsNext
<1>20. CASE FinishRoutes
  <2>1. Typed /\ pass'.at = "arm"
    BY <1>1, <1>3, <1>5, <1>6, <1>20 DEF FinishRoutes
  <2>2. BatchTyped'
    BY <1>0, <1>20, <2>1 DEF FinishRoutes, BatchTyped, batch
  <2> QED BY <2>1, <2>2, TypePartsNext
<1>21. CASE ArmAfterPass
  <2>1. 0 - pass.age \in (0 - MaxPass) .. 0
    BY <1>1, DueWorkAssumption
  <2>2. alarm' \in Times \cup {Never}
    BY <1>0, <1>1, <1>21, <2>1, Armed DEF ArmAfterPass
  <2>3. pass' \in PassType /\ pass'.at = "idle"
    <3>1. pass' = [pass EXCEPT !.at = "idle", !.age = 0]
      BY <1>21 DEF ArmAfterPass
    <3>2. 0 \in 0 .. MaxPass
      BY DueWorkAssumption
    <3> QED BY <1>0, <1>1, <3>1, <3>2 DEF PassType
  <2>4. RowsTyped' /\ Counted' /\ BatchTyped'
    BY <1>0, <1>5, <1>21, <2>3 DEF ArmAfterPass, Counted, BatchTyped, batch
  <2>5. Flags'
    BY <1>0, <1>21, Zenon DEF ArmAfterPass, Flags
  <2> QED BY <2>2, <2>3, <2>4, <2>5, TypePartsNext
<1> QED
  BY <1>7, <1>8, <1>9, <1>10, <1>11, <1>12, <1>13, <1>14, <1>15, <1>16, <1>17,
     <1>18, <1>19, <1>20, <1>21 DEF PassStep

THEOREM DueWorkTypes == Spec => []TypeOK
<1>1. Init => TypeOK
  <2>1. SUFFICES ASSUME Init PROVE TypeOK
    OBVIOUS
  <2>2. RowsTyped /\ alarm \in Times \cup {Never}
    BY <2>1, TimesAreIntegers DEF Init, RowsTyped
  <2>3. BatchTyped /\ Counted /\ pass \in PassType
    BY <2>1, DueWorkAssumption DEF Init, BatchTyped, Counted, PassType, Steps
  <2>4. Flags
    BY <2>1, Zenon DEF Init, Flags
  <2> QED BY <2>2, <2>3, <2>4, TypeParts
<1>2. TypeOK /\ [Next]_vars => TypeOK'
  <2>1. SUFFICES ASSUME TypeOK, [Next]_vars PROVE TypeOK'
    OBVIOUS
  <2>2. CASE UNCHANGED vars
    BY <2>1, <2>2 DEF vars, tables, object, batch, TypeOK
  <2> QED BY <2>1, <2>2, CallTypes, PassTypes, OtherTypes DEF Next
<1> QED BY <1>1, <1>2, PTL DEF Spec

-----------------------------------------------------------------------------
(* The alarm covers what is due.                                           *)

LEMMA PassGoesOn ==
  ASSUME TypeOK, PassStep, ~ ArmAfterPass
  PROVE  pass'.at # "idle"
<1>1. pass \in PassType
  BY TypeParts
<1>2. \A to \in Steps : Goes(to) => pass'.at = to
  BY <1>1, PassMoves
<1>3. \A kind \in Kinds, to \in Steps : Fails(kind, to) => pass'.at = to
  BY <1>1, StepFails
<1>4. /\ {"select", "send", "sending", "sent", "redrive"} \subseteq Steps \ {"idle"}
      /\ {"enqueue", "reconcile", "routes", "routing", "arm"} \subseteq Steps \ {"idle"}
  BY DEF Steps
<1>5. CASE ExpireDueApprovals
  BY <1>2, <1>3, <1>4, <1>5 DEF ExpireDueApprovals, Writes, Kinds
<1>6. CASE \E jobs \in SUBSET Jobs : ReadyJobIds(jobs)
  BY <1>2, <1>4, <1>6 DEF ReadyJobIds
<1>7. CASE \E j \in Jobs : ReadDispatch(j)
  BY <1>2, <1>4, <1>7 DEF ReadDispatch
<1>8. CASE ClaimJob
  BY <1>2, <1>4, <1>8 DEF ClaimJob, Writes
<1>9. CASE \E refused \in BOOLEAN : CompleteAttempt(refused)
  BY <1>2, <1>4, <1>9 DEF CompleteAttempt, Writes
<1>10. CASE SendFails
  BY <1>3, <1>4, <1>10 DEF SendFails, Kinds
<1>11. CASE SettleAbandonedClaims
  BY <1>2, <1>3, <1>4, <1>11 DEF SettleAbandonedClaims, Writes, Kinds
<1>12. CASE \E rows \in SUBSET Receipts : RedriveDueInboundReceipts(rows)
  BY <1>2, <1>3, <1>4, <1>12 DEF RedriveDueInboundReceipts, Kinds
<1>13. CASE SendRedrives
  BY <1>2, <1>3, <1>4, <1>13 DEF SendRedrives, Kinds
<1>14. CASE \E rows \in SUBSET Mailboxes : StartRoutes(rows)
  BY <1>2, <1>4, <1>14 DEF StartRoutes
<1>15. CASE \E b \in Mailboxes : OpenRoute(b)
  BY <1>2, <1>4, <1>15 DEF OpenRoute
<1>16. CASE \E at \in Times \cup {Never} : SettleRoute(at)
  BY <1>2, <1>4, <1>16 DEF SettleRoute
<1>17. CASE RoutesFail
  BY <1>3, <1>4, <1>17 DEF RoutesFail, Kinds
<1>18. CASE FinishRoutes
  BY <1>2, <1>4, <1>18 DEF FinishRoutes
<1> QED
  BY <1>5, <1>6, <1>7, <1>8, <1>9, <1>10, <1>11, <1>12, <1>13, <1>14, <1>15,
     <1>16, <1>17, <1>18 DEF PassStep

(* What deleting a conversation and settling a receipt do to due times.    *)
LEMMA RowsOnlyLeave ==
  ASSUME RowsTyped, UNCHANGED <<until, route>>,
         \A j \in Jobs : job'[j] = job[j] \/ job'[j] = "settled",
         \A r \in Receipts : receipt'[r] = receipt[r] \/ receipt'[r] = Settled,
         NEW kind \in Kinds
  PROVE  DueTimes(kind)' \subseteq DueTimes(kind)
<1>1. CASE kind = "approvals"
  BY <1>1 DEF DueTimes
<1>2. CASE kind = "ready"
  BY <1>2 DEF DueTimes
<1>3. CASE kind = "claims"
  BY <1>3 DEF DueTimes
<1>4. CASE kind = "receipts"
  BY <1>4 DEF DueTimes
<1>5. CASE kind = "routes"
  BY <1>5 DEF DueTimes
<1> QED BY <1>1, <1>2, <1>3, <1>4, <1>5 DEF Kinds

LEMMA SameRows ==
  ASSUME UNCHANGED <<job, until, receipt, route>>, NEW kind \in Kinds
  PROVE  DueTimes(kind)' = DueTimes(kind)
<1>1. CASE kind = "approvals"
  BY <1>1 DEF DueTimes
<1>2. CASE kind = "ready"
  BY <1>2 DEF DueTimes
<1>3. CASE kind = "claims"
  BY <1>3 DEF DueTimes
<1>4. CASE kind = "receipts"
  BY <1>4 DEF DueTimes
<1>5. CASE kind = "routes"
  BY <1>5 DEF DueTimes
<1> QED BY <1>1, <1>2, <1>3, <1>4, <1>5 DEF Kinds

(* A tick brings every due time nearer.                                    *)
LEMMA TickBrings ==
  ASSUME RowsTyped, Tick, NEW kind \in Kinds, NEW t \in DueTimes(kind)'
  PROVE  \E u \in DueTimes(kind) : t = Nearer(u)
<1>1. UNCHANGED job
  BY DEF Tick
<1>2. CASE kind = "approvals"
  BY <1>1, <1>2 DEF DueTimes, Tick
<1>3. CASE kind = "ready"
  BY <1>1, <1>3 DEF DueTimes, Nearer
<1>4. CASE kind = "claims"
  BY <1>1, <1>4 DEF DueTimes, Tick
<1>5. CASE kind = "receipts"
  <2>1. PICK r \in Receipts : t = Nearer(receipt[r]) /\ t \notin {Never, Settled}
    BY <1>5 DEF DueTimes, Tick
  <2>2. receipt[r] \notin {Never, Settled}
    BY <2>1 DEF Nearer
  <2> QED BY <1>5, <2>1, <2>2 DEF DueTimes
<1>6. CASE kind = "routes"
  <2>1. PICK b \in Mailboxes : t = Nearer(route[b]) /\ t # Never
    BY <1>6 DEF DueTimes, Tick
  <2>2. route[b] # Never
    BY <2>1 DEF Nearer
  <2> QED BY <1>6, <2>1, <2>2 DEF DueTimes
<1> QED BY <1>2, <1>3, <1>4, <1>5, <1>6 DEF Kinds

(* The alarm covers the rows of one kind.                                  *)
Covers(kind) ==
  \A t \in DueTimes(kind) :
    /\ alarm # Never
    /\ alarm <= AtLeast(t, IF kind \in pass.failed THEN RetryTime ELSE 0)

(* An alarm that has just been set covers them.                            *)
LEMMA ArmedCovers ==
  ASSUME RowsTyped, NEW start \in (0 - MaxPass) .. 0, NEW failed \in SUBSET Kinds,
         ArmDueWork(start, failed), UNCHANGED <<job, until, receipt, route>>,
         failed \subseteq pass'.failed, NEW kind \in Kinds
  PROVE  Covers(kind)'
<1>1. SUFFICES ASSUME NEW t \in DueTimes(kind)
               PROVE  /\ alarm' # Never
                      /\ alarm' <= AtLeast(t, IF kind \in pass'.failed
                                              THEN RetryTime ELSE 0)
  BY SameRows DEF Covers
<1>2. t \in Times
  BY DueTimesTyped
<1>3. alarm' # Never /\ alarm' \in Times /\ alarm' <= WakesAt(t, kind, start, failed)
  BY Armed
<1> QED BY <1>2, <1>3, DueWorkAssumption DEF WakesAt, AtLeast, Times

LEMMA CoverageKept ==
  ASSUME TypeOK, AlarmCoversWork, Next
  PROVE  AlarmCoversWork'
<1>0. /\ RowsTyped /\ Counted /\ alarm \in Times \cup {Never} /\ pass \in PassType
  BY TypeParts
<1>1. SUFFICES ASSUME up', arms' = 0, pass'.at = "idle", NEW kind \in Kinds
               PROVE  Covers(kind)'
  BY DEF AlarmCoversWork, Covers
<1>2. up /\ arms = 0 /\ pass.at = "idle" => Covers(kind)
  BY DEF AlarmCoversWork, Covers
<1>3. 0 \in (0 - MaxPass) .. 0 /\ {} \in SUBSET Kinds /\ {} \subseteq pass'.failed
  BY DueWorkAssumption
<1>4. CASE CallStep
  <2>1. ~ Arming
    <3>1. Arming => arms' = arms + 1
      BY DEF Arming
    <3>2. arms \in 0 .. MaxArms
      BY <1>0 DEF Counted
    <3> QED BY <1>1, <3>1, <3>2, DueWorkAssumption
  <2>2. /\ UNCHANGED <<object, pass, until, route>>
        /\ \A j \in Jobs : job'[j] = job[j] \/ job'[j] = "settled"
        /\ \A r \in Receipts : receipt'[r] = receipt[r] \/ receipt'[r] = Settled
    <3>1. CASE \E m \in Mails : SoftDeleteThread(m)
      BY <3>1 DEF SoftDeleteThread, RejectUndispatched
    <3>2. CASE \E r \in Receipts : SettleReceipt(r)
      BY <1>0, <3>2 DEF SettleReceipt, RowsTyped
    <3> QED
      BY <1>4, <2>1, <3>1, <3>2
      DEF CallStep, SubmitOutbound, DecideApproval, RegisterInboundReceipt,
          AskForRoute, RetireAddress
  <2>3. DueTimes(kind)' \subseteq DueTimes(kind)
    BY <1>0, <2>2, RowsOnlyLeave
  <2>4. Covers(kind)
    BY <1>1, <1>2, <2>2 DEF object
  <2>5. alarm' = alarm /\ pass' = pass
    BY <2>2 DEF object
  <2> QED BY <2>3, <2>4, <2>5 DEF Covers
<1>5. CASE Arm
  BY <1>0, <1>3, <1>5, ArmedCovers DEF Arm, tables
<1>6. CASE FireAlarm
  BY <1>1, <1>6 DEF FireAlarm
<1>7. CASE PassStep
  <2>1. CASE ArmAfterPass
    <3>1. 0 - pass.age \in (0 - MaxPass) .. 0 /\ pass.failed \in SUBSET Kinds
      BY <1>0, DueWorkAssumption DEF PassType
    <3>2. pass'.failed = pass.failed
      BY <1>0, <2>1 DEF ArmAfterPass, PassType
    <3> QED BY <1>0, <2>1, <3>1, <3>2, ArmedCovers DEF ArmAfterPass, tables
  <2> QED BY <1>1, <1>7, <2>1, PassGoesOn
<1>8. CASE Tick
  <2>1. UNCHANGED <<up, arms, pass>> /\ alarm' = Nearer(alarm)
    BY <1>0, <1>1, <1>8 DEF Tick, PassType
  <2>2. Covers(kind)
    BY <1>1, <1>2, <2>1
  <2>3. ASSUME NEW t \in DueTimes(kind)'
        PROVE  /\ alarm' # Never
               /\ alarm' <= AtLeast(t, IF kind \in pass'.failed THEN RetryTime ELSE 0)
    <3>1. PICK u \in DueTimes(kind) : t = Nearer(u)
      BY <1>0, <1>8, TickBrings
    <3>2. u \in Times
      BY <1>0, DueTimesTyped
    <3>3. alarm # Never /\ alarm <= AtLeast(u, IF kind \in pass.failed
                                               THEN RetryTime ELSE 0)
      BY <2>2 DEF Covers
    <3>4. alarm \in Times
      BY <1>0, <3>3
    <3> QED
      BY <2>1, <3>1, <3>2, <3>3, <3>4, DueWorkAssumption
      DEF Nearer, AtLeast, Times, LongAgo
  <2> QED BY <2>3 DEF Covers
<1>9. CASE Crash
  BY <1>1, <1>9 DEF Crash
<1>10. CASE Start
  BY <1>0, <1>3, <1>10, ArmedCovers DEF Start, tables
<1> QED BY <1>4, <1>5, <1>6, <1>7, <1>8, <1>9, <1>10 DEF Next

(* Whatever calls, passes, failures and crashes have interleaved, once the *)
(* calls have set the alarm it covers every row that comes due.            *)
THEOREM NoRowIsForgotten == Spec => []AlarmCoversWork
<1>1. Init => AlarmCoversWork
  <2>1. SUFFICES ASSUME Init, NEW kind \in Kinds PROVE DueTimes(kind) = {}
    BY DEF AlarmCoversWork
  <2> QED BY <2>1 DEF Init, DueTimes, Kinds
<1>2. TypeOK /\ AlarmCoversWork /\ [Next]_vars => AlarmCoversWork'
  <2>1. SUFFICES ASSUME TypeOK, AlarmCoversWork, [Next]_vars PROVE AlarmCoversWork'
    OBVIOUS
  <2>2. CASE UNCHANGED vars
    <3>1. UNCHANGED <<job, until, receipt, route, up, arms, alarm, pass>>
      BY <2>2 DEF vars, tables, object
    <3>2. \A kind \in Kinds : DueTimes(kind)' = DueTimes(kind)
      BY <3>1, SameRows
    <3> QED BY <2>1, <3>1, <3>2 DEF AlarmCoversWork
  <2> QED BY <2>1, <2>2, CoverageKept
<1> QED BY <1>1, <1>2, DueWorkTypes, PTL DEF Spec

-----------------------------------------------------------------------------
(* Stuck work does not spin the alarm.                                     *)

LEMMA RestsKept ==
  ASSUME UNCHANGED <<job, until, receipt, route>>,
         pass.failed \subseteq pass'.failed, NEW kind \in Kinds, Rests(kind)
  PROVE  Rests(kind)'
BY SameRows DEF Rests

LEMMA EmptyBatch ==
  ASSUME NEW due, NEW limit \in Nat \ {0}, Takes({}, due, limit)
  PROVE  due = {}
BY FS_EmptySet DEF Takes

(* A step that neither changes a row nor the times kept of the pass.       *)
Steady(to) ==
  /\ UNCHANGED <<job, until, receipt, route>>
  /\ pass'.at = to /\ pass'.age = pass.age
  /\ pass.failed \subseteq pass'.failed

LEMMA StillKept ==
  ASSUME TypeOK, StillMeansDone, PassStep, still'
  PROVE  StillMeansDone'
<1>0. /\ RowsTyped /\ BatchTyped /\ pass \in PassType
      /\ pass.age \in 0 .. MaxPass
  BY TypeParts DEF PassType
<1>1. /\ {"select", "send", "sending", "sent", "redrive"} \subseteq Steps
      /\ {"enqueue", "reconcile", "routes", "routing", "arm"} \subseteq Steps
      /\ {"approvals", "ready", "claims", "receipts", "routes"} = Kinds
  BY DEF Steps, Kinds
<1>2. \A to \in Steps : Goes(to) /\ UNCHANGED <<job, until, receipt, route>> => Steady(to)
  BY <1>0, PassMoves DEF Steady
<1>3. \A kind \in Kinds, to \in Steps :
        Fails(kind, to) => Steady(to) /\ kind \in pass'.failed /\ still
  BY <1>0, StepFails DEF Steady
<1>4. \A to, kind : Steady(to) /\ kind \in Kinds /\ Rests(kind) => Rests(kind)'
  BY RestsKept DEF Steady
<1>5. \A kind \in Kinds : kind \in pass'.failed => Rests(kind)'
  BY DEF Rests
<1>6. \A t \in Times : ~ Overdue(t) /\ pass.age = 0 => t > 0
  BY DueWorkAssumption DEF Overdue, Times
<1>7. ASSUME NEW kind \in Kinds, NEW to, Steady(to),
             \A t \in DueTimes(kind) : t > 0
      PROVE  Rests(kind)'
  BY <1>4, <1>7 DEF Rests
<1>8. CASE ExpireDueApprovals
  <2>1. pass.at = "expire"
    BY <1>8 DEF ExpireDueApprovals
  <2>2. CASE Fails("approvals", "select")
    <3>1. Steady("select") /\ still /\ "approvals" \in pass'.failed
      BY <1>1, <1>3, <2>2
    <3> QED BY <1>1, <1>5, <2>1, <3>1 DEF StillMeansDone, Steady
  <2>3. CASE ~ Fails("approvals", "select")
    <3>1. still /\ job' = job /\ Steady("select")
      BY <1>1, <1>2, <1>8, <2>3 DEF ExpireDueApprovals, Writes
    <3>2. pass.age = 0
      BY <2>1, <3>1 DEF StillMeansDone
    <3>3. \A t \in DueTimes("approvals") : t > 0
      <4>1. SUFFICES ASSUME NEW j \in Jobs, job[j] = "waiting_approval"
                     PROVE  ~ Overdue(until[j])
        BY <1>0, <1>6, <3>2 DEF DueTimes, RowsTyped
      <4>2. ASSUME Overdue(until[j])
            PROVE  job'[j] = "settled"
        BY <1>8, <2>3, <4>1, <4>2 DEF ExpireDueApprovals
      <4> QED BY <3>1, <4>1, <4>2
    <3>4. Rests("approvals")'
      BY <1>1, <1>7, <3>1, <3>3
    <3> QED BY <2>1, <3>1, <3>2, <3>4 DEF StillMeansDone, Steady
  <2> QED BY <2>2, <2>3
<1>9. ASSUME NEW jobs \in SUBSET Jobs, ReadyJobIds(jobs)
      PROVE  StillMeansDone'
  <2>1. pass.at = "select" /\ still /\ Steady("send") /\ todo' = jobs
    BY <1>1, <1>2, <1>9 DEF ReadyJobIds, tables
  <2>2. jobs = {} => Rests("ready")'
    <3>1. SUFFICES ASSUME jobs = {} PROVE \A t \in DueTimes("ready") : t > 0
      BY <1>1, <1>7, <2>1
    <3>2. ReadyJobs = {}
      BY <1>9, <3>1, EmptyBatch, DueWorkAssumption DEF ReadyJobIds
    <3> QED BY <3>2 DEF DueTimes, ReadyJobs
  <2>3. todo' \subseteq ReadyJobs'
    BY <1>9, <2>1 DEF ReadyJobIds, Takes, ReadyJobs, Steady
  <2>4. Rests("approvals")'
    BY <1>1, <1>4, <2>1 DEF StillMeansDone
  <2> QED BY <2>1, <2>2, <2>3, <2>4 DEF StillMeansDone, Steady
<1>10. ASSUME NEW j \in Jobs, ReadDispatch(j)
       PROVE  StillMeansDone'
  <2>1. pass.at = "send" /\ still /\ j \in todo /\ todo' = todo \ {j}
    BY <1>10 DEF ReadDispatch
  <2>2. todo \subseteq ReadyJobs
    BY <2>1 DEF StillMeansDone
  <2>3. Steady("sending") /\ doing' = j
    BY <1>1, <1>2, <1>10, <2>1, <2>2 DEF ReadDispatch, ReadyJobs, tables
  <2>4. Rests("approvals")'
    BY <1>1, <1>4, <2>1, <2>3 DEF StillMeansDone
  <2>5. todo' \cup {doing'} \subseteq ReadyJobs'
    BY <2>1, <2>2, <2>3 DEF ReadyJobs, Steady
  <2> QED BY <2>1, <2>3, <2>4, <2>5 DEF StillMeansDone, Steady
<1>11. ASSUME ClaimJob PROVE FALSE
  <2>1. still /\ job' = job /\ pass.at = "sending"
    BY <1>11 DEF ClaimJob, Writes
  <2>2. doing \in Jobs /\ job[doing] = "ready"
    BY <2>1 DEF StillMeansDone, ReadyJobs
  <2>3. job'[doing] \in {"in_flight", "settled"}
    BY <1>0, <1>11, <2>2 DEF ClaimJob, RejectUndispatched, RowsTyped
  <2> QED BY <2>1, <2>2, <2>3
<1>12. ASSUME NEW refused \in BOOLEAN, CompleteAttempt(refused) PROVE FALSE
  <2>1. still /\ pass.at = "sent"
    BY <1>12 DEF CompleteAttempt, Writes
  <2> QED BY <2>1 DEF StillMeansDone
<1>13. CASE SendFails
  <2>1. Steady("send") /\ still /\ "ready" \in pass'.failed /\ todo' = todo
    BY <1>1, <1>3, <1>13 DEF SendFails
  <2>2. pass.at = "sending"
    BY <1>13, <2>1 DEF SendFails, StillMeansDone
  <2>3. Rests("approvals")' /\ Rests("ready")'
    BY <1>1, <1>4, <1>5, <2>1, <2>2 DEF StillMeansDone
  <2>4. todo' \subseteq ReadyJobs'
    BY <2>1, <2>2 DEF StillMeansDone, Steady, ReadyJobs
  <2> QED BY <2>1, <2>2, <2>3, <2>4 DEF StillMeansDone, Steady
<1>14. CASE SettleAbandonedClaims
  <2>1. pass.at = "send" /\ todo = {}
    BY <1>14 DEF SettleAbandonedClaims
  <2>2. Steady("redrive") /\ still /\ Rests("claims")'
    <3>1. CASE Fails("claims", "redrive")
      BY <1>1, <1>3, <1>5, <3>1
    <3>2. CASE ~ Fails("claims", "redrive")
      <4>1. still /\ job' = job /\ Steady("redrive")
        BY <1>1, <1>2, <1>14, <3>2 DEF SettleAbandonedClaims, Writes
      <4>2. pass.age = 0
        BY <2>1, <4>1 DEF StillMeansDone
      <4>3. \A t \in DueTimes("claims") : t > 0
        <5>1. SUFFICES ASSUME NEW j \in Jobs, job[j] = "in_flight"
                       PROVE  ~ Overdue(until[j])
          BY <1>0, <1>6, <4>2 DEF DueTimes, RowsTyped
        <5>2. ASSUME Overdue(until[j])
              PROVE  job'[j] = "settled"
          BY <1>14, <3>2, <5>1, <5>2 DEF SettleAbandonedClaims
        <5> QED BY <4>1, <5>1, <5>2
      <4> QED BY <1>1, <1>7, <4>1, <4>3
    <3> QED BY <3>1, <3>2
  <2>3. Rests("approvals")' /\ Rests("ready")'
    BY <1>1, <1>4, <2>1, <2>2 DEF StillMeansDone
  <2> QED BY <2>1, <2>2, <2>3 DEF StillMeansDone, Steady
<1>15. ASSUME NEW rows \in SUBSET Receipts, RedriveDueInboundReceipts(rows)
       PROVE  StillMeansDone'
  <2>1. pass.at = "redrive"
    BY <1>15 DEF RedriveDueInboundReceipts
  <2>2. /\ Rests("receipts")' /\ still
        /\ Steady("enqueue") \/ Steady("reconcile")
    <3>1. CASE Fails("receipts", "reconcile")
      BY <1>1, <1>3, <1>5, <3>1
    <3>2. CASE ~ Fails("receipts", "reconcile")
      <4>1. still /\ receipt' = receipt /\ Steady("enqueue")
        BY <1>1, <1>2, <1>15, <3>2 DEF RedriveDueInboundReceipts
      <4>2. pass.age = 0
        BY <2>1, <4>1 DEF StillMeansDone
      <4>3. Takes(rows, {r \in Receipts : Overdue(receipt[r])}, RowBatch)
        BY <1>0, <1>15, <3>2 DEF RedriveDueInboundReceipts, TakesOldest, RowsTyped
      <4>4. rows = {}
        <5>1. SUFFICES ASSUME NEW r \in rows PROVE FALSE
          OBVIOUS
        <5>2. receipt'[r] = RedriveTime - pass.age
          BY <1>15, <3>2, <5>1 DEF RedriveDueInboundReceipts
        <5>3. receipt[r] <= 0 - pass.age
          BY <4>3, <5>1 DEF Takes, Overdue
        <5> QED BY <4>1, <4>2, <5>2, <5>3, DueWorkAssumption
      <4>5. {r \in Receipts : Overdue(receipt[r])} = {}
        BY <4>3, <4>4, EmptyBatch, DueWorkAssumption
      <4>6. \A t \in DueTimes("receipts") : t > 0
        BY <1>0, <1>6, <4>2, <4>5 DEF DueTimes, RowsTyped
      <4> QED BY <1>1, <1>7, <4>1, <4>6
    <3> QED BY <3>1, <3>2
  <2>3. Rests("approvals")' /\ Rests("ready")' /\ Rests("claims")'
    BY <1>1, <1>4, <2>1, <2>2 DEF StillMeansDone
  <2> QED BY <2>1, <2>2, <2>3 DEF StillMeansDone, Steady
<1>16. CASE SendRedrives
  <2>1. pass.at = "enqueue" /\ still /\ Steady("reconcile")
    BY <1>1, <1>2, <1>3, <1>16 DEF SendRedrives, tables
  <2>2. /\ Rests("approvals")' /\ Rests("ready")' /\ Rests("claims")'
        /\ Rests("receipts")'
    BY <1>1, <1>4, <2>1 DEF StillMeansDone
  <2> QED BY <2>1, <2>2 DEF StillMeansDone, Steady
<1>17. ASSUME NEW rows \in SUBSET Mailboxes, StartRoutes(rows)
       PROVE  StillMeansDone'
  <2>1. pass.at = "reconcile" /\ still /\ Steady("routes") /\ todo' = rows
    BY <1>1, <1>2, <1>17 DEF StartRoutes, tables
  <2>2. pass.age = 0
    BY <2>1 DEF StillMeansDone
  <2>3. rows = {} => Rests("routes")'
    <3>1. SUFFICES ASSUME rows = {} PROVE \A t \in DueTimes("routes") : t > 0
      BY <1>1, <1>7, <2>1
    <3>2. {b \in Mailboxes : Overdue(route[b])} = {}
      BY <1>0, <1>17, <3>1, EmptyBatch, DueWorkAssumption
      DEF StartRoutes, TakesOldest, RowsTyped
    <3> QED BY <1>0, <1>6, <2>2, <3>2 DEF DueTimes, RowsTyped
  <2>4. /\ Rests("approvals")' /\ Rests("ready")' /\ Rests("claims")'
        /\ Rests("receipts")'
    BY <1>1, <1>4, <2>1 DEF StillMeansDone
  <2> QED BY <2>1, <2>2, <2>3, <2>4 DEF StillMeansDone, Steady
<1>18. ASSUME NEW b \in Mailboxes, OpenRoute(b)
       PROVE  StillMeansDone'
  <2>1. pass.at = "routes" /\ still /\ Steady("routing")
    BY <1>1, <1>2, <1>18 DEF OpenRoute
  <2>2. /\ Rests("approvals")' /\ Rests("ready")' /\ Rests("claims")'
        /\ Rests("receipts")'
    BY <1>1, <1>4, <2>1 DEF StillMeansDone
  <2> QED BY <2>1, <2>2 DEF StillMeansDone, Steady
<1>19. ASSUME NEW at \in Times \cup {Never}, SettleRoute(at) PROVE FALSE
  BY <1>19 DEF SettleRoute
<1>20. CASE RoutesFail
  <2>1. pass.at \in {"routes", "routing"} /\ still /\ Steady("arm") /\ Rests("routes")'
    BY <1>1, <1>3, <1>5, <1>20 DEF RoutesFail
  <2>2. /\ Rests("approvals")' /\ Rests("ready")' /\ Rests("claims")'
        /\ Rests("receipts")'
    BY <1>1, <1>4, <2>1 DEF StillMeansDone
  <2> QED BY <2>1, <2>2 DEF StillMeansDone, Steady
<1>21. CASE FinishRoutes
  <2>1. pass.at = "routes" /\ todo = {} /\ still /\ Steady("arm")
    BY <1>1, <1>2, <1>21 DEF FinishRoutes, tables
  <2>2. /\ Rests("approvals")' /\ Rests("ready")' /\ Rests("claims")'
        /\ Rests("receipts")' /\ Rests("routes")'
    BY <1>1, <1>4, <2>1 DEF StillMeansDone
  <2> QED BY <2>1, <2>2 DEF StillMeansDone, Steady
<1>22. CASE ArmAfterPass
  <2>1. pass.at = "arm" /\ still /\ ArmDueWork(0 - pass.age, pass.failed)
    BY <1>22 DEF ArmAfterPass
  <2>2. pass'.at = "idle"
    BY <1>0, <1>22 DEF ArmAfterPass, PassType
  <2>3. pass.age = 0 /\ \A kind \in Kinds : Rests(kind)
    BY <1>1, <2>1 DEF StillMeansDone
  <2>4. ArmDueWork(0, pass.failed) /\ 0 \in (0 - MaxPass) .. 0
    <3>1. 0 - pass.age = 0 /\ 0 \in (0 - MaxPass) .. 0
      BY <2>3, DueWorkAssumption
    <3> QED BY <2>1, <3>1
  <2>5. pass.failed \in SUBSET Kinds
    BY <1>0 DEF PassType
  <2>6. \/ alarm' = Never
        \/ \E kind \in Kinds : \E t \in DueTimes(kind) :
             alarm' = WakesAt(t, kind, 0, pass.failed)
    BY <1>0, <2>4, <2>5, Armed
  <2>7. ASSUME NEW kind \in Kinds, NEW t \in DueTimes(kind)
        PROVE  WakesAt(t, kind, 0, pass.failed) > 0
    <3>1. t \in Times
      BY <1>0, DueTimesTyped
    <3>2. kind \in pass.failed \/ t > 0
      BY <2>3, <2>7 DEF Rests
    <3> QED BY <3>1, <3>2, DueWorkAssumption DEF WakesAt, AtLeast, Times
  <2>8. alarm' # Never => alarm' > 0
    BY <2>6, <2>7
  <2> QED BY <2>2, <2>8 DEF StillMeansDone
<1> QED
  BY <1>8, <1>9, <1>10, <1>11, <1>12, <1>13, <1>14, <1>15, <1>16, <1>17, <1>18,
     <1>19, <1>20, <1>21, <1>22 DEF PassStep

(* A pass that changed nothing is followed by another only after time has  *)
(* passed or something else has happened.                                  *)
THEOREM StuckWorkWaits == Spec => NoSpin
<1>1. Init => StillMeansDone
  BY DEF Init, StillMeansDone
<1>2. TypeOK /\ StillMeansDone /\ [Next]_vars => StillMeansDone'
  <2>1. SUFFICES ASSUME TypeOK, StillMeansDone, [Next]_vars, still'
                 PROVE  StillMeansDone'
    BY DEF StillMeansDone
  <2>2. CASE UNCHANGED vars
    <3>1. /\ UNCHANGED <<job, until, receipt, route, alarm, pass, todo, doing>>
          /\ still' = still
      BY <2>2 DEF vars, tables, object, batch
    <3>2. \A kind \in Kinds : Rests(kind) => Rests(kind)'
      BY <3>1, RestsKept
    <3> QED
      BY <2>1, <3>1, <3>2 DEF StillMeansDone, ReadyJobs, Kinds
  <2>3. CASE FireAlarm
    BY <2>3 DEF FireAlarm, StillMeansDone
  <2>4. CASE CallStep \/ Arm \/ Tick \/ Crash \/ Start
    BY <2>1, <2>4
    DEF CallStep, SubmitOutbound, DecideApproval, SoftDeleteThread,
        RegisterInboundReceipt, SettleReceipt, AskForRoute, RetireAddress,
        Arming, Arm, Tick, Crash, Start, Stirs
  <2> QED BY <2>1, <2>2, <2>3, <2>4, StillKept DEF Next
<1>3. TypeOK /\ StillMeansDone /\ [Next]_vars =>
        [pass.at = "idle" /\ pass'.at = "expire" => ~ still]_vars
  <2>1. SUFFICES ASSUME TypeOK, StillMeansDone, Next,
                        pass.at = "idle", pass'.at = "expire"
                 PROVE  ~ still
    OBVIOUS
  <2>2. CASE FireAlarm
    <3>1. alarm # Never /\ alarm <= 0
      BY <2>2 DEF FireAlarm
    <3>2. alarm \in Times
      BY <2>1, <3>1 DEF TypeOK
    <3>3. ~ (alarm > 0)
      BY <3>1, <3>2, DueWorkAssumption DEF Times
    <3> QED BY <2>1, <3>1, <3>3 DEF StillMeansDone
  <2>3. ~ PassStep
    BY <2>1
    DEF PassStep, ExpireDueApprovals, ReadyJobIds, ReadDispatch, ClaimJob,
        CompleteAttempt, SendFails, SettleAbandonedClaims,
        RedriveDueInboundReceipts, SendRedrives, StartRoutes, OpenRoute,
        SettleRoute, RoutesFail, FinishRoutes, ArmAfterPass
  <2>4. CASE CallStep \/ Arm
    BY <2>1, <2>4
    DEF CallStep, SubmitOutbound, DecideApproval, SoftDeleteThread,
        RegisterInboundReceipt, SettleReceipt, AskForRoute, RetireAddress,
        Arming, Arm
  <2>5. CASE Tick \/ Crash
    BY <2>1, <2>5 DEF Tick, Crash
  <2>6. CASE Start
    <3>1. pass \in [at : Steps, age : 0 .. MaxPass, failed : SUBSET Kinds]
      BY <2>1 DEF TypeOK
    <3>2. pass' = [pass EXCEPT !.failed = {}]
      BY <2>6 DEF Start
    <3>3. pass'.at = pass.at
      BY <3>1, <3>2
    <3> QED BY <2>1, <3>3
  <2> QED BY <2>1, <2>2, <2>3, <2>4, <2>5, <2>6 DEF Next
<1>4. NoSpin <=> [][pass.at = "idle" /\ pass'.at = "expire" => ~ still]_vars
  BY DEF NoSpin
<1> QED BY <1>1, <1>2, <1>3, <1>4, DueWorkTypes, PTL DEF Spec


=============================================================================
