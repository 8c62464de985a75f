------------------------- MODULE OutboundJobsProofs -------------------------
(***************************************************************************)
(* Theorems about OutboundJobs, for every set of requests, clients,        *)
(* policies and contents and any number of faults: mail is sent at most    *)
(* once, what its end says is true and stays, mail leaves only on the      *)
(* operator's word, and the store implements MailPromise.                  *)
(***************************************************************************)
EXTENDS OutboundJobs, TLAPS

-----------------------------------------------------------------------------
(* Jobs are pairs of a request and a purpose.                              *)

(* Both jobs of a request are jobs, they differ, and name their request.   *)
LEMMA JobOfRequest ==
  ASSUME NEW r \in Requests
  PROVE  /\ MessageJob(r) \in Jobs
         /\ NotificationJob(r) \in Jobs
         /\ MessageJob(r) # NotificationJob(r)
         /\ MessageJob(r)[1] = r
         /\ NotificationJob(r)[1] = r
         /\ NotificationJob(r)[2] = "approval_notification"
         /\ MessageJob(r)[2] = "message"
BY DEF Jobs, MessageJob, NotificationJob

(* Every job is the message or the notification of its request.            *)
LEMMA JobCases ==
  ASSUME NEW j \in Jobs
  PROVE  /\ j[1] \in Requests
         /\ \/ j[2] = "message" /\ j = MessageJob(j[1])
            \/ j[2] = "approval_notification" /\ j = NotificationJob(j[1])
BY DEF Jobs, MessageJob, NotificationJob

-----------------------------------------------------------------------------
(* Type correctness.                                                       *)

(* rejectUndispatched keeps the three tables it writes well typed.         *)
LEMMA RejectUndispatchedType ==
  ASSUME NEW ms, NEW class \in FailureClasses,
         NEW js \in [Jobs -> JobStates], NEW fl \in [Jobs -> FailureClasses],
         NEW ap \in [Requests -> ApprovalStates],
         RejectUndispatched(ms, class, js, fl, ap)
  PROVE  /\ jobState' \in [Jobs -> JobStates]
         /\ failure' \in [Jobs -> FailureClasses]
         /\ approval' \in [Requests -> ApprovalStates]
BY DEF RejectUndispatched, JobStates, FailureClasses, ApprovalStates

(* The policy in force for a request is a policy or none.                  *)
LEMMA PolicyForType ==
  ASSUME TypeOK, NEW r \in Requests
  PROVE  PolicyFor(r) \in Policy \cup {NoPolicy}
<1>1. OPERATOR_POLICY \in Policy
  BY DEF OPERATOR_POLICY, Policy, SendModes
<1>2. CASE Requester[r] = Operator
  BY <1>1, <1>2 DEF PolicyFor
<1>3. CASE Requester[r] # Operator
  BY <1>3, SendAssumption DEF PolicyFor, TypeOK
<1> QED BY <1>2, <1>3

LEMMA BestGrantType ==
  ASSUME NEW g \in Grants, NEW p, NEW c
  PROVE  BestGrant(g, p, c) \in Grants
BY DEF BestGrant, Grants

(* The initial state is well typed.                                        *)
LEMMA TypeInit == Init => TypeOK
<1> SUFFICES ASSUME Init PROVE TypeOK
  OBVIOUS
<1>1. pass \in PassRecord /\ pass.phase \notin Working
  BY DEF Init, IdlePass, PassRecord, Phases, Working
<1> QED
  BY <1>1, SendAssumption DEF Init, TypeOK, JobStates, FailureClasses,
     ApprovalStates, Grants

(* No step takes a variable out of its type.                               *)
LEMMA TypeStep ==
  TypeOK /\ [Next]_vars => TypeOK'
<1> SUFFICES ASSUME TypeOK, [Next]_vars PROVE TypeOK'
  OBVIOUS
<1> USE JobOfRequest, JobCases, SendAssumption
<1>1. CASE PassStep
  <2>1. CASE StartPass
    BY <2>1 DEF StartPass, TypeOK, PassRecord, Phases, Working
  <2>2. CASE ExpireDueApprovals
    <3>1. [r \in Requests |-> IF r \in Expiring THEN "expired" ELSE approval[r]]
            \in [Requests -> ApprovalStates]
      BY DEF TypeOK, ApprovalStates
    <3>2. /\ jobState' \in [Jobs -> JobStates]
          /\ failure' \in [Jobs -> FailureClasses]
          /\ approval' \in [Requests -> ApprovalStates]
      <4> "expired" \in FailureClasses
        BY DEF FailureClasses
      <4> QED BY <2>2, <3>1, RejectUndispatchedType DEF ExpireDueApprovals, TypeOK
    <3>3. pass' \in PassRecord /\ pass'.phase \notin Working
      BY <2>2 DEF ExpireDueApprovals, TypeOK, PassRecord, Phases, Working
    <3> QED BY <2>2, <3>2, <3>3 DEF ExpireDueApprovals, TypeOK
  <2>3. ASSUME NEW queue \in SUBSET Jobs, SelectReadyJobs(queue) PROVE TypeOK'
    BY <2>3 DEF SelectReadyJobs, TypeOK, PassRecord, Phases, Working
  <2>4. ASSUME NEW j \in Jobs, ReadDispatch(j) PROVE TypeOK'
    <3>1. pass' \in PassRecord /\ (pass'.phase \in Working => pass'.job \in Jobs)
      BY <2>4 DEF ReadDispatch, TypeOK, PassRecord, Phases, Working
    <3> QED BY <2>4, <3>1 DEF ReadDispatch, TypeOK
  <2>5. NextJob \in PassRecord /\ NextJob.phase \notin Working
    BY DEF NextJob, TypeOK, PassRecord, Phases, Working
  <2>6. CASE PreparePasses
    BY <2>6 DEF PreparePasses, TypeOK, PassRecord, Phases, Working
  <2>7. CASE PrepareRejects
    <3>1. /\ jobState' \in [Jobs -> JobStates]
          /\ failure' \in [Jobs -> FailureClasses]
          /\ approval' \in [Requests -> ApprovalStates]
      <4> "policy" \in FailureClasses
        BY DEF FailureClasses
      <4> QED BY <2>7, RejectUndispatchedType DEF PrepareRejects, TypeOK
    <3> QED BY <2>5, <2>7, <3>1 DEF PrepareRejects, TypeOK
  <2>8. CASE ReadPolicy
    <3>1. pass.job \in Jobs => PolicyFor(pass.job[1]) \in Policy \cup {NoPolicy}
      BY PolicyForType
    <3> QED BY <2>8, <3>1 DEF ReadPolicy, TypeOK, PassRecord, Phases, Working
  <2>9. CASE ClaimJob
    <3>1. pass.job \in Jobs
      BY <2>9 DEF ClaimJob, TypeOK, Working
    <3>2. /\ jobState' \in [Jobs -> JobStates]
          /\ attempt' \in [Jobs -> Nat]
          /\ attempt[pass.job] + 1 \in Nat
      BY <2>9, <3>1 DEF ClaimJob, TypeOK, JobStates
    <3>3. pass' \in PassRecord /\ pass'.job = pass.job
      BY <2>9, <3>1, <3>2 DEF ClaimJob, TypeOK, PassRecord, Phases
    <3> QED BY <2>9, <3>1, <3>2, <3>3 DEF ClaimJob, TypeOK
  <2>10. CASE ClaimRefused
    <3>1. /\ jobState' \in [Jobs -> JobStates]
          /\ failure' \in [Jobs -> FailureClasses]
          /\ approval' \in [Requests -> ApprovalStates]
      <4> "policy" \in FailureClasses
        BY DEF FailureClasses
      <4> QED BY <2>10, RejectUndispatchedType DEF ClaimRefused, TypeOK
    <3> QED BY <2>5, <2>10, <3>1 DEF ClaimRefused, TypeOK
  <2>11. CASE ClaimFindsJobGone
    BY <2>5, <2>11 DEF ClaimFindsJobGone, TypeOK
  <2>12. CASE CallProvider
    <3>1. pass.job \in Jobs
      BY <2>12 DEF CallProvider, TypeOK, Working
    <3>2. /\ calls' \in [Jobs -> Nat]
          /\ provider' \in [Jobs -> {"none", "transit", "delivered", "refused"}]
      BY <2>12, <3>1 DEF CallProvider, TypeOK
    <3>3. pass' \in PassRecord /\ pass'.job = pass.job
      BY <2>12, <3>1 DEF CallProvider, TypeOK, PassRecord, Phases
    <3> QED BY <2>12, <3>1, <3>2, <3>3 DEF CallProvider, TypeOK
  <2>13. ASSUME NEW outcome \in Settled, CompleteAttempt(outcome) PROVE TypeOK'
    <3> DEFINE settled == [jobState EXCEPT
                 ![pass.job] = IF Holds(pass.job) THEN outcome ELSE @]
               explained == [failure EXCEPT
                 ![pass.job] = IF Holds(pass.job) /\ outcome = "rejected"
                                 THEN "provider" ELSE @]
    <3>1. /\ settled \in [Jobs -> JobStates]
          /\ explained \in [Jobs -> FailureClasses]
      <4>1. /\ jobState \in [Jobs -> JobStates]
            /\ failure \in [Jobs -> FailureClasses]
        BY DEF TypeOK
      <4>2. outcome \in JobStates /\ "provider" \in FailureClasses
        BY DEF Settled, JobStates, FailureClasses
      <4>3. settled \in [Jobs -> JobStates]
        BY <4>1, <4>2, Zenon
      <4>4. explained \in [Jobs -> FailureClasses]
        BY <4>1, <4>2, Zenon
      <4> QED BY <4>3, <4>4
    <3>2. RejectUndispatched(GivesUpOn(pass.job, outcome), "notification_failed",
                             settled, explained, approval)
      BY <2>13 DEF CompleteAttempt
    <3> HIDE DEF settled, explained
    <3>3. /\ jobState' \in [Jobs -> JobStates]
          /\ failure' \in [Jobs -> FailureClasses]
          /\ approval' \in [Requests -> ApprovalStates]
      <4> "notification_failed" \in FailureClasses
        BY DEF FailureClasses
      <4> QED BY <3>1, <3>2, RejectUndispatchedType DEF TypeOK
    <3> QED BY <2>5, <2>13, <3>3 DEF CompleteAttempt, TypeOK
  <2>14. CASE FinishSends
    BY <2>14 DEF FinishSends, TypeOK, PassRecord, Phases, Working
  <2>15. CASE SettleAbandonedClaims
    BY <2>15 DEF SettleAbandonedClaims, AbandonedBecomes, TypeOK, JobStates,
                 IdlePass, PassRecord, Phases, Working
  <2> QED
    BY <1>1, <2>1, <2>2, <2>3, <2>4, <2>6, <2>7, <2>8, <2>9, <2>10, <2>11,
       <2>12, <2>13, <2>14, <2>15 DEF PassStep
<1>2. CASE CallStep
  <2>1. ASSUME NEW r \in Requests, Authenticate(r) PROVE TypeOK'
    BY <2>1, PolicyForType DEF Authenticate, TypeOK
  <2>2. ASSUME NEW r \in Requests, SubmitWritesNothing(r) PROVE TypeOK'
    BY <2>2 DEF SubmitWritesNothing, TypeOK
  <2>3. ASSUME NEW r \in Requests, NEW c \in Contents, SubmitOutbound(r, c)
        PROVE  TypeOK'
    <3>1. BestGrant("none", PolicyFor(r), c) \in Grants
      BY BestGrantType DEF Grants
    <3> QED
      BY <2>3, <3>1 DEF SubmitOutbound, TypeOK, JobStates, ApprovalStates
  <2>4. ASSUME NEW r \in Requests, NEW decision \in {"approved", "denied"},
               DecideApproval(r, decision)
        PROVE  TypeOK'
    <3>1. CASE decision = "approved"
      <4>1. jobState' \in [Jobs -> JobStates]
        BY <2>4, <3>1 DEF DecideApproval, TypeOK, JobStates
      <4>2. approval' \in [Requests -> ApprovalStates]
        BY <2>4, <3>1 DEF DecideApproval, TypeOK, ApprovalStates
      <4>3. UNCHANGED <<failure, content, deleted, attempt, mailbox,
                        approvalDue, claimDue, policy, caller, pass, calls,
                        provider, grant, faults>>
        BY <2>4, <3>1 DEF DecideApproval
      <4> QED BY <4>1, <4>2, <4>3 DEF TypeOK
    <3>2. CASE decision = "denied"
      <4>1. [approval EXCEPT ![r] = "denied"] \in [Requests -> ApprovalStates]
        BY DEF TypeOK, ApprovalStates
      <4>2. "denied" \in FailureClasses
        BY DEF FailureClasses
      <4>3. /\ jobState' \in [Jobs -> JobStates]
            /\ failure' \in [Jobs -> FailureClasses]
            /\ approval' \in [Requests -> ApprovalStates]
        BY <2>4, <3>2, <4>1, <4>2, RejectUndispatchedType
           DEF DecideApproval, TypeOK
      <4> QED BY <2>4, <4>3 DEF DecideApproval, TypeOK
    <3> QED BY <3>1, <3>2
  <2>5. ASSUME NEW ms \in SUBSET Requests, SoftDeleteThread(ms) PROVE TypeOK'
    <3>1. "cancelled" \in FailureClasses
      BY DEF FailureClasses
    <3>2. /\ jobState' \in [Jobs -> JobStates]
          /\ failure' \in [Jobs -> FailureClasses]
          /\ approval' \in [Requests -> ApprovalStates]
      BY <2>5, <3>1, RejectUndispatchedType DEF SoftDeleteThread, TypeOK
    <3> QED BY <2>5, <3>2 DEF SoftDeleteThread, TypeOK
  <2>6. ASSUME NEW m \in Mailboxes, NEW to \in {"active", "paused"},
               PatchAddress(m, to)
        PROVE  TypeOK'
    BY <2>6 DEF PatchAddress, TypeOK
  <2>7. ASSUME NEW m \in Mailboxes, RetireAddress(m) PROVE TypeOK'
    BY <2>7 DEF RetireAddress, TypeOK
  <2>8. ASSUME NEW c \in Clients, NEW p \in Policies \cup {NoPolicy},
               SetPolicy(c, p)
        PROVE  TypeOK'
    <3>1. \A r \in Requests : BestGrant(grant[r], p, content[r]) \in Grants
      BY BestGrantType DEF TypeOK
    <3> QED BY <2>8, <3>1 DEF SetPolicy, TypeOK
  <2> QED
    BY <1>2, <2>1, <2>2, <2>3, <2>4, <2>5, <2>6, <2>7, <2>8 DEF CallStep
<1>3. ASSUME NEW r \in Requests, ApprovalComesDue(r) PROVE TypeOK'
  BY <1>3 DEF ApprovalComesDue, TypeOK
<1>4. ASSUME NEW j \in Jobs, ClaimComesDue(j) PROVE TypeOK'
  BY <1>4 DEF ClaimComesDue, TypeOK
<1>5. ASSUME NEW j \in Jobs, NEW fate \in {"delivered", "refused"},
             ProviderSettles(j, fate)
      PROVE  TypeOK'
  BY <1>5 DEF ProviderSettles, TypeOK
<1>6. CASE DispatchFails
  <2>1. NextJob \in PassRecord /\ NextJob.phase \notin Working
    BY DEF NextJob, TypeOK, PassRecord, Phases, Working
  <2> QED BY <1>6, <2>1 DEF DispatchFails, TypeOK
<1>7. CASE Crash
  <2>1. IdlePass \in PassRecord /\ IdlePass.phase \notin Working
    BY DEF IdlePass, PassRecord, Phases, Working
  <2> QED BY <1>7, <2>1 DEF Crash, TypeOK
<1>8. CASE StepFails
  <2>1. IdlePass \in PassRecord /\ IdlePass.phase \notin Working
    BY DEF IdlePass, PassRecord, Phases, Working
  <2>2. CASE pass.phase = "expire"
    <3>1. pass' = [pass EXCEPT !.phase = "select", !.dueApprovals = {}]
      BY <1>8, <2>2 DEF StepFails
    <3>2. pass' \in PassRecord /\ pass'.phase \notin Working
      BY <3>1 DEF TypeOK, PassRecord, Phases, Working
    <3> QED BY <1>8, <3>2 DEF StepFails, TypeOK
  <2>3. CASE pass.phase = "select"
    <3>1. pass' = [pass EXCEPT !.phase = "settle"]
      BY <1>8, <2>3 DEF StepFails
    <3>2. pass' \in PassRecord /\ pass'.phase \notin Working
      BY <3>1 DEF TypeOK, PassRecord, Phases, Working
    <3> QED BY <1>8, <3>2 DEF StepFails, TypeOK
  <2>4. CASE pass.phase = "settle"
    BY <1>8, <2>1, <2>4 DEF StepFails, TypeOK
  <2> QED BY <1>8, <2>2, <2>3, <2>4 DEF StepFails
<1>9. CASE UNCHANGED vars
  BY <1>9 DEF vars, TypeOK
<1> QED BY <1>1, <1>2, <1>3, <1>4, <1>5, <1>6, <1>7, <1>8, <1>9 DEF Next

(* Every variable keeps its type: the store's tables hold what their CHECK *)
(* constraints allow.                                                      *)
THEOREM TypeCorrect == Spec => []TypeOK
BY TypeInit, TypeStep, PTL DEF Spec
-----------------------------------------------------------------------------
(* The send invariant.                                                     *)

(* A step that leaves the tables and the provider alone keeps SendInv if   *)
(* the pass still holds what it works on.                                  *)
LEMMA TablesUntouched ==
  ASSUME SendInv, TypeOK', PassHolds',
         UNCHANGED <<content, jobState, approval, calls, provider>>
  PROVE  SendInv'
BY DEF SendInv, RowsTogether, InStep, HandedOver

(* rejectUndispatched, called on the tables as they are or with pending    *)
(* approvals of its own messages just resolved, keeps SendInv.             *)
LEMMA RejectKeepsSendInv ==
  ASSUME SendInv, TypeOK',
         NEW ms \in SUBSET Requests, NEW class \in FailureClasses,
         NEW ap \in [Requests -> ApprovalStates],
         \A r \in Requests : ap[r] # approval[r] =>
           r \in ms /\ approval[r] = "pending" /\ ap[r] # "pending",
         RejectUndispatched(ms, class, jobState, failure, ap),
         UNCHANGED <<content, attempt, calls, provider>>,
         pass' = pass \/ pass'.phase \notin Working
  PROVE  SendInv'
<1> USE JobOfRequest, JobCases
<1>1. \A j \in Jobs : jobState'[j] = IF Rejects(ms, jobState, j)
                                      THEN "rejected" ELSE jobState[j]
  BY DEF RejectUndispatched
<1>2. \A r \in Requests :
        approval'[r] = IF Cancels(ms, jobState, ap, r) THEN "cancelled" ELSE ap[r]
  BY DEF RejectUndispatched
<1>3. ASSUME NEW r \in Requests PROVE RowsTogether(r)'
  <2>1. RowsTogether(r)
    BY DEF SendInv
  <2>2. /\ jobState[MessageJob(r)] = "none" <=> jobState'[MessageJob(r)] = "none"
        /\ jobState[NotificationJob(r)] = "none"
             => jobState'[NotificationJob(r)] = "none"
        /\ jobState'[NotificationJob(r)] # "waiting_approval"
    BY <1>1, <2>1 DEF Rejects, Undispatched, RowsTogether
  <2>3. approval[r] = "none" => approval'[r] = "none"
    BY <1>2 DEF Cancels
  <2> QED BY <2>1, <2>2, <2>3 DEF RowsTogether
<1>4. ASSUME NEW r \in Requests PROVE InStep(r)'
  <2>1. InStep(r)
    BY DEF SendInv
  <2>2. CASE r \in ms
    <3>1. /\ jobState'[MessageJob(r)] \notin Undispatched
          /\ jobState'[NotificationJob(r)] \notin Undispatched
      BY <1>1, <2>2 DEF Rejects, Undispatched
    <3>2. approval'[r] # "pending"
      BY <1>2, <2>1, <2>2 DEF Cancels, Rejects, Undispatched, InStep
    <3> QED BY <3>1, <3>2 DEF InStep, Undispatched
  <2>3. CASE r \notin ms
    <3>1. /\ jobState'[MessageJob(r)] = jobState[MessageJob(r)]
          /\ jobState'[NotificationJob(r)] = jobState[NotificationJob(r)]
          /\ approval'[r] = approval[r]
      BY <1>1, <1>2, <2>3 DEF Cancels, Rejects
    <3> QED BY <2>1, <3>1 DEF InStep
  <2> QED BY <2>2, <2>3
<1>5. ASSUME NEW j \in Jobs PROVE HandedOver(j)'
  <2>1. HandedOver(j)
    BY DEF SendInv
  <2> QED BY <1>1, <2>1 DEF HandedOver, Rejects, Undispatched
<1>6. PassHolds'
  <2>1. CASE pass'.phase \notin Working
    BY <2>1 DEF PassHolds, Working
  <2>2. CASE pass' = pass /\ pass.phase \in Working
    <3>1. pass.job \in Jobs
      BY <2>2 DEF SendInv, TypeOK
    <3> QED
      BY <1>1, <2>2, <3>1 DEF SendInv, PassHolds, Rejects, Undispatched
  <2> QED BY <2>1, <2>2
<1> QED BY <1>3, <1>4, <1>5, <1>6 DEF SendInv

(* What the answer to an attempt does to the tables: the claim it was sent *)
(* under always still holds, since only completeAttempt and a later pass's *)
(* settleAbandonedClaims end one.                                          *)
LEMMA CompleteEffect ==
  ASSUME SendInv, NEW outcome \in Settled, CompleteAttempt(outcome)
  PROVE  /\ pass.job \in Jobs
         /\ jobState[pass.job] = "in_flight"
         /\ Holds(pass.job)
         /\ \A j \in Jobs :
              jobState'[j] =
                IF j = pass.job THEN outcome
                ELSE IF Rejects(GivesUpOn(pass.job, outcome), jobState, j)
                THEN "rejected" ELSE jobState[j]
         /\ \A j \in Jobs :
              failure'[j] =
                IF j = pass.job
                THEN IF outcome = "rejected" THEN "provider" ELSE failure[j]
                ELSE IF Rejects(GivesUpOn(pass.job, outcome), jobState, j)
                THEN "notification_failed" ELSE failure[j]
         /\ \A r \in Requests :
              approval'[r] =
                IF approval[r] = "pending" /\ r \in GivesUpOn(pass.job, outcome)
                THEN "cancelled" ELSE approval[r]
<1> USE JobOfRequest
<1> DEFINE ms == GivesUpOn(pass.job, outcome)
           settled == [jobState EXCEPT
             ![pass.job] = IF Holds(pass.job) THEN outcome ELSE @]
           explained == [failure EXCEPT
             ![pass.job] = IF Holds(pass.job) /\ outcome = "rejected"
                             THEN "provider" ELSE @]
<1>1. pass.job \in Jobs /\ jobState[pass.job] = "in_flight" /\ Holds(pass.job)
  BY DEF SendInv, TypeOK, CompleteAttempt, PassHolds, Holds, Working
<1>2. \A j \in Jobs :
        /\ settled[j] = IF j = pass.job THEN outcome ELSE jobState[j]
        /\ explained[j] = IF j = pass.job /\ outcome = "rejected"
                            THEN "provider" ELSE failure[j]
  BY <1>1 DEF SendInv, TypeOK
<1>3. RejectUndispatched(ms, "notification_failed", settled, explained, approval)
  BY DEF CompleteAttempt
<1> HIDE DEF settled, explained, ms
<1>4. /\ \A j \in Jobs : jobState'[j] =
            IF Rejects(ms, settled, j) THEN "rejected" ELSE settled[j]
      /\ \A j \in Jobs : failure'[j] =
            IF Rejects(ms, settled, j) THEN "notification_failed" ELSE explained[j]
      /\ \A r \in Requests : approval'[r] =
            IF Cancels(ms, settled, approval, r) THEN "cancelled" ELSE approval[r]
  BY <1>3 DEF RejectUndispatched
<1>5. \A j \in Jobs : Rejects(ms, settled, j) <=>
                        j # pass.job /\ Rejects(ms, jobState, j)
  BY <1>1, <1>2 DEF Rejects, Undispatched, Settled
<1>6. \A r \in Requests : approval[r] = "pending" =>
        jobState[MessageJob(r)] = "waiting_approval"
  BY DEF SendInv, InStep
<1>7. \A r \in Requests : Cancels(ms, settled, approval, r) <=>
                            approval[r] = "pending" /\ r \in ms
  BY <1>1, <1>2, <1>6 DEF Cancels, Rejects, Undispatched
<1>8. \A j \in Jobs : jobState'[j] =
        IF j = pass.job THEN outcome
        ELSE IF Rejects(ms, jobState, j) THEN "rejected" ELSE jobState[j]
  BY <1>2, <1>4, <1>5
<1>9. \A j \in Jobs : failure'[j] =
        IF j = pass.job THEN IF outcome = "rejected" THEN "provider" ELSE failure[j]
        ELSE IF Rejects(ms, jobState, j) THEN "notification_failed" ELSE failure[j]
  BY <1>2, <1>4, <1>5
<1>10. \A r \in Requests : approval'[r] =
         IF approval[r] = "pending" /\ r \in ms THEN "cancelled" ELSE approval[r]
  BY <1>4, <1>7
<1> QED BY <1>1, <1>8, <1>9, <1>10 DEF ms

(* The invariant behind AtMostOnce, ApprovalInStep, WaitingIsDecidable and *)
(* StateTellsTheTruth is kept by every step.                               *)
LEMMA SendStep ==
  SendInv /\ [Next]_vars => SendInv'
<1> SUFFICES ASSUME SendInv, [Next]_vars PROVE SendInv'
  OBVIOUS
<1> USE JobOfRequest, JobCases
<1>1. TypeOK /\ TypeOK'
  BY TypeStep DEF SendInv
<1>2. PassHolds
  BY DEF SendInv
<1>3. "policy" \in FailureClasses /\ "expired" \in FailureClasses
        /\ "denied" \in FailureClasses /\ "cancelled" \in FailureClasses
  BY DEF FailureClasses
<1>4. NextJob.phase \notin Working /\ IdlePass.phase \notin Working
  BY <1>1 DEF NextJob, IdlePass, Working, TypeOK, PassRecord
<1>5. pass'.phase \notin Working => PassHolds'
  BY DEF PassHolds, Working
<1>6. CASE PassStep
  <2>1. CASE StartPass
    <3>1. pass'.phase \notin Working
      BY <1>1, <2>1 DEF StartPass, TypeOK, PassRecord, Working
    <3> QED BY <1>1, <1>5, <2>1, <3>1, TablesUntouched DEF StartPass
  <2>2. CASE ExpireDueApprovals
    <3> DEFINE ap == [r \in Requests |->
                        IF r \in Expiring THEN "expired" ELSE approval[r]]
    <3>1. ap \in [Requests -> ApprovalStates]
      BY <1>1 DEF TypeOK, ApprovalStates
    <3>2. Expiring \in SUBSET Requests
      BY <1>1 DEF Expiring, TypeOK, PassRecord
    <3>3. \A r \in Requests : ap[r] # approval[r] =>
            r \in Expiring /\ approval[r] = "pending" /\ ap[r] # "pending"
      BY DEF Expiring
    <3>4. pass'.phase \notin Working
      BY <1>1, <2>2 DEF ExpireDueApprovals, TypeOK, PassRecord, Working
    <3>5. RejectUndispatched(Expiring, "expired", jobState, failure, ap)
      BY <2>2 DEF ExpireDueApprovals
    <3>6. UNCHANGED <<content, attempt, calls, provider>>
      BY <2>2 DEF ExpireDueApprovals
    <3> HIDE DEF ap
    <3> QED BY <1>1, <1>3, <3>1, <3>2, <3>3, <3>4, <3>5, <3>6, RejectKeepsSendInv
  <2>3. ASSUME NEW queue \in SUBSET Jobs, SelectReadyJobs(queue) PROVE SendInv'
    <3>1. pass'.phase \notin Working
      BY <1>1, <2>3 DEF SelectReadyJobs, TypeOK, PassRecord, Working
    <3> QED BY <1>1, <1>5, <2>3, <3>1, TablesUntouched DEF SelectReadyJobs
  <2>4. ASSUME NEW j \in Jobs, ReadDispatch(j) PROVE SendInv'
    <3>1. PassHolds'
      BY <1>1, <1>2, <2>4 DEF ReadDispatch, PassHolds, TypeOK, PassRecord, Working
    <3> QED BY <1>1, <2>4, <3>1, TablesUntouched DEF ReadDispatch
  <2>5. CASE PreparePasses
    <3>1. PassHolds'
      BY <1>1, <1>2, <2>5 DEF PreparePasses, PassHolds, TypeOK, PassRecord, Working
    <3> QED BY <1>1, <2>5, <3>1, TablesUntouched DEF PreparePasses
  <2>6. CASE PrepareRejects
    <3>1. {pass.job[1]} \in SUBSET Requests
      BY <1>1, <2>6 DEF PrepareRejects, TypeOK, Working
    <3>2. approval \in [Requests -> ApprovalStates]
      BY <1>1 DEF TypeOK
    <3> QED BY <1>1, <1>3, <1>4, <2>6, <3>1, <3>2, RejectKeepsSendInv
            DEF PrepareRejects
  <2>7. CASE ReadPolicy
    <3>1. PassHolds'
      BY <1>1, <1>2, <2>7 DEF ReadPolicy, PassHolds, TypeOK, PassRecord, Working
    <3> QED BY <1>1, <2>7, <3>1, TablesUntouched DEF ReadPolicy
  <2>8. CASE ClaimJob
    <3>1. pass.job \in Jobs
      BY <1>1, <2>8 DEF ClaimJob, TypeOK, Working
    <3>2. \A j \in Jobs : jobState'[j] = IF j = pass.job THEN "in_flight"
                                          ELSE jobState[j]
      BY <1>1, <2>8, <3>1 DEF ClaimJob, TypeOK
    <3>3. ASSUME NEW r \in Requests PROVE RowsTogether(r)' /\ InStep(r)'
      <4>1. RowsTogether(r) /\ InStep(r)
        BY DEF SendInv
      <4>2. content' = content /\ approval' = approval /\ jobState[pass.job] = "ready"
        BY <2>8 DEF ClaimJob
      <4> QED BY <3>1, <3>2, <4>1, <4>2 DEF RowsTogether, InStep
    <3>4. ASSUME NEW j \in Jobs PROVE HandedOver(j)'
      <4>1. HandedOver(j)
        BY DEF SendInv
      <4> QED BY <2>8, <3>2, <4>1 DEF ClaimJob, HandedOver, Undispatched
    <3>5. PassHolds'
      <4>1. /\ pass'.phase = "send" /\ pass'.job = pass.job
            /\ pass'.attempt = attempt[pass.job] + 1
        BY <1>1, <2>8 DEF ClaimJob, TypeOK, PassRecord
      <4>2. attempt'[pass.job] = attempt[pass.job] + 1
        BY <1>1, <2>8, <3>1 DEF ClaimJob, TypeOK
      <4>3. provider'[pass.job] = "none"
        BY <2>8, <3>1 DEF ClaimJob, SendInv, HandedOver, Undispatched
      <4> QED BY <3>1, <3>2, <4>1, <4>2, <4>3 DEF PassHolds, Working
    <3> QED BY <1>1, <3>3, <3>4, <3>5 DEF SendInv
  <2>9. CASE ClaimRefused
    <3>1. {pass.job[1]} \in SUBSET Requests
      BY <1>1, <2>9 DEF ClaimRefused, TypeOK, Working
    <3>2. approval \in [Requests -> ApprovalStates]
      BY <1>1 DEF TypeOK
    <3> QED BY <1>1, <1>3, <1>4, <2>9, <3>1, <3>2, RejectKeepsSendInv
            DEF ClaimRefused
  <2>10. CASE ClaimFindsJobGone
    BY <1>1, <1>4, <1>5, <2>10, TablesUntouched DEF ClaimFindsJobGone
  <2>11. CASE CallProvider
    <3>1. pass.job \in Jobs /\ pass'.phase = "await" /\ pass'.job = pass.job
            /\ pass'.attempt = pass.attempt
      BY <1>1, <2>11 DEF CallProvider, TypeOK, PassRecord, Working
    <3>2. jobState[pass.job] = "in_flight" /\ provider[pass.job] = "none"
      BY <1>2, <2>11 DEF CallProvider, PassHolds
    <3>3. ASSUME NEW j \in Jobs PROVE HandedOver(j)'
      <4>1. HandedOver(j)
        BY DEF SendInv
      <4>2. CASE j = pass.job
        <5>1. calls'[j] = 1 /\ provider'[j] = "transit" /\ jobState'[j] = "in_flight"
          BY <1>1, <2>11, <3>1, <3>2, <4>1, <4>2 DEF CallProvider, HandedOver, TypeOK
        <5> QED BY <5>1 DEF HandedOver, Undispatched
      <4>3. CASE j # pass.job
        BY <1>1, <2>11, <4>1, <4>3 DEF CallProvider, HandedOver, TypeOK
      <4> QED BY <4>2, <4>3
    <3>4. PassHolds'
      BY <1>2, <2>11, <3>1, <3>2 DEF CallProvider, PassHolds
    <3> QED BY <1>1, <2>11, <3>3, <3>4 DEF CallProvider, SendInv, RowsTogether, InStep
  <2>12. ASSUME NEW outcome \in Settled, CompleteAttempt(outcome) PROVE SendInv'
    <3> DEFINE ms == GivesUpOn(pass.job, outcome)
    <3>1. pass.job \in Jobs /\ jobState[pass.job] = "in_flight" /\ Holds(pass.job)
      BY <2>12, CompleteEffect
    <3>2. \A j \in Jobs :
            jobState'[j] = IF j = pass.job THEN outcome
                           ELSE IF Rejects(ms, jobState, j) THEN "rejected"
                           ELSE jobState[j]
      BY <2>12, CompleteEffect
    <3>3. \A r \in Requests : approval'[r] =
            IF approval[r] = "pending" /\ r \in ms THEN "cancelled" ELSE approval[r]
      BY <2>12, CompleteEffect
    <3>4. ASSUME NEW r \in Requests PROVE RowsTogether(r)'
      <4>1. RowsTogether(r) /\ content' = content
        BY <2>12 DEF SendInv, CompleteAttempt
      <4>2. approval[r] = "none" => approval'[r] = "none"
        BY <3>3
      <4> HIDE DEF ms
      <4> QED BY <3>1, <3>2, <4>1, <4>2 DEF RowsTogether, Rejects, Undispatched, Settled
    <3>5. ASSUME NEW r \in Requests PROVE InStep(r)'
      <4>1. InStep(r) /\ RowsTogether(r)
        BY DEF SendInv
      <4>2. CASE r \in ms
        <5>1. pass.job = NotificationJob(r) /\ outcome = "rejected"
          BY <3>1, <4>2 DEF GivesUpOn
        <5>2. jobState'[MessageJob(r)] # "waiting_approval"
          BY <3>2, <4>2, <5>1 DEF Rejects, Undispatched
        <5>3. jobState'[NotificationJob(r)] = "rejected"
          BY <3>2, <5>1
        <5>4. approval'[r] # "pending"
          BY <3>3, <4>2
        <5> QED BY <5>2, <5>3, <5>4 DEF InStep
      <4>3. CASE r \notin ms
        <5>1. pass.job = NotificationJob(r) => outcome # "rejected"
          BY <3>1, <4>3 DEF GivesUpOn
        <5>2. approval'[r] = approval[r]
          BY <3>3, <4>3
        <5>3. \A j \in {MessageJob(r), NotificationJob(r)} :
                jobState'[j] = IF j = pass.job THEN outcome ELSE jobState[j]
          <6> HIDE DEF ms
          <6> QED BY <3>2, <4>3 DEF Rejects
        <5> QED BY <3>1, <4>1, <5>1, <5>2, <5>3 DEF InStep, Settled
      <4> QED BY <4>2, <4>3
    <3>6. ASSUME NEW j \in Jobs PROVE HandedOver(j)'
      <4>1. HandedOver(j) /\ calls' = calls /\ provider' = provider
        BY <2>12 DEF SendInv, CompleteAttempt
      <4>2. Possible(outcome, provider[pass.job])
        BY <2>12 DEF CompleteAttempt
      <4>3. CASE j = pass.job
        BY <3>1, <3>2, <4>1, <4>2, <4>3
           DEF HandedOver, Possible, Settled, Undispatched
      <4>4. CASE j # pass.job
        <5> HIDE DEF ms
        <5> QED BY <3>2, <4>1, <4>4 DEF HandedOver, Rejects, Undispatched
      <4> QED BY <4>3, <4>4
    <3>7. PassHolds'
      BY <1>4, <1>5, <2>12 DEF CompleteAttempt
    <3> QED BY <1>1, <3>4, <3>5, <3>6, <3>7 DEF SendInv
  <2>13. CASE FinishSends
    <3>1. pass'.phase \notin Working
      BY <1>1, <2>13 DEF FinishSends, TypeOK, PassRecord, Working
    <3> QED BY <1>1, <1>5, <2>13, <3>1, TablesUntouched DEF FinishSends
  <2>14. CASE SettleAbandonedClaims
    <3>1. \A j \in Jobs : jobState'[j] = IF Abandoned(j) THEN "unknown" ELSE jobState[j]
      BY <2>14 DEF SettleAbandonedClaims, AbandonedBecomes
    <3>2. ASSUME NEW r \in Requests PROVE RowsTogether(r)' /\ InStep(r)'
      <4>1. RowsTogether(r) /\ InStep(r)
        BY DEF SendInv
      <4> QED BY <2>14, <3>1, <4>1
              DEF SettleAbandonedClaims, RowsTogether, InStep, Abandoned
    <3>3. ASSUME NEW j \in Jobs PROVE HandedOver(j)'
      <4>1. HandedOver(j)
        BY DEF SendInv
      <4> QED BY <2>14, <3>1, <4>1
              DEF SettleAbandonedClaims, HandedOver, Abandoned, Undispatched
    <3>4. PassHolds'
      BY <1>4, <1>5, <2>14 DEF SettleAbandonedClaims
    <3> QED BY <1>1, <3>2, <3>3, <3>4 DEF SendInv
  <2> QED
    BY <1>6, <2>1, <2>2, <2>3, <2>4, <2>5, <2>6, <2>7, <2>8, <2>9, <2>10,
       <2>11, <2>12, <2>13, <2>14 DEF PassStep
<1>7. CASE CallStep
  <2>1. ASSUME NEW r \in Requests, Authenticate(r) PROVE SendInv'
    BY <1>1, <1>2, <2>1, TablesUntouched DEF Authenticate, PassHolds
  <2>2. ASSUME NEW r \in Requests, SubmitWritesNothing(r) PROVE SendInv'
    BY <1>1, <1>2, <2>2, TablesUntouched DEF SubmitWritesNothing, PassHolds
  <2>3. ASSUME NEW r \in Requests, NEW c \in Contents, SubmitOutbound(r, c)
        PROVE  SendInv'
    <3> DEFINE held == NeedsApproval(caller[r], c)
    <3>1. /\ RowsTogether(r) /\ content[r] = NoContent
          /\ jobState[MessageJob(r)] = "none"
          /\ jobState[NotificationJob(r)] = "none"
      BY <2>3 DEF SendInv, RowsTogether, SubmitOutbound
    <3>2. /\ jobState'[MessageJob(r)] = IF held THEN "waiting_approval" ELSE "ready"
          /\ jobState'[NotificationJob(r)] = IF held THEN "ready" ELSE "none"
          /\ \A j \in Jobs \ {MessageJob(r), NotificationJob(r)} :
               jobState'[j] = jobState[j]
      BY <1>1, <2>3 DEF SubmitOutbound, TypeOK
    <3>3. /\ content'[r] = c /\ approval'[r] = IF held THEN "pending" ELSE "none"
          /\ \A q \in Requests \ {r} :
               content'[q] = content[q] /\ approval'[q] = approval[q]
      BY <1>1, <2>3 DEF SubmitOutbound, TypeOK
    <3>4. UNCHANGED <<attempt, calls, provider, pass>>
      BY <2>3 DEF SubmitOutbound
    <3> HIDE DEF held
    <3>5. ASSUME NEW q \in Requests PROVE RowsTogether(q)' /\ InStep(q)'
      <4>1. CASE q = r
        <5>1. c # NoContent
          BY SendAssumption
        <5> QED BY <3>2, <3>3, <4>1, <5>1 DEF RowsTogether, InStep
      <4>2. CASE q # r
        <5>1. RowsTogether(q) /\ InStep(q)
          BY DEF SendInv
        <5>2. /\ MessageJob(q) \in Jobs \ {MessageJob(r), NotificationJob(r)}
              /\ NotificationJob(q) \in Jobs \ {MessageJob(r), NotificationJob(r)}
          BY <4>2
        <5> QED BY <3>2, <3>3, <4>2, <5>1, <5>2 DEF RowsTogether, InStep
      <4> QED BY <4>1, <4>2
    <3>6. ASSUME NEW j \in Jobs PROVE HandedOver(j)'
      <4>1. HandedOver(j)
        BY DEF SendInv
      <4> QED BY <3>1, <3>2, <3>4, <4>1 DEF HandedOver, Undispatched
    <3>7. PassHolds'
      <4>1. CASE pass.phase \in Working
        <5>1. pass.job \in Jobs \ {MessageJob(r), NotificationJob(r)}
          BY <1>1, <1>2, <3>1, <4>1 DEF PassHolds, TypeOK
        <5> QED BY <1>2, <3>2, <3>4, <5>1 DEF PassHolds
      <4>2. CASE pass.phase \notin Working
        BY <1>5, <3>4, <4>2
      <4> QED BY <4>1, <4>2
    <3> QED BY <1>1, <3>5, <3>6, <3>7 DEF SendInv
  <2>4. ASSUME NEW r \in Requests, NEW decision \in {"approved", "denied"},
               DecideApproval(r, decision)
        PROVE  SendInv'
    <3>1. CASE decision = "denied"
      <4> DEFINE ap == [approval EXCEPT ![r] = "denied"]
      <4>1. ap \in [Requests -> ApprovalStates]
        BY <1>1 DEF TypeOK, ApprovalStates
      <4>2. \A q \in Requests : ap[q] # approval[q] =>
              q \in {r} /\ approval[q] = "pending" /\ ap[q] # "pending"
        BY <1>1, <2>4 DEF DecideApproval, TypeOK
      <4>3. RejectUndispatched({r}, "denied", jobState, failure, ap)
        BY <2>4, <3>1 DEF DecideApproval
      <4>4. UNCHANGED <<content, attempt, calls, provider>> /\ pass' = pass
        BY <2>4 DEF DecideApproval
      <4> HIDE DEF ap
      <4> QED BY <1>1, <1>3, <4>1, <4>2, <4>3, <4>4, RejectKeepsSendInv
    <3>2. CASE decision = "approved"
      <4>1. /\ approval[r] = "pending" /\ jobState[MessageJob(r)] = "waiting_approval"
            /\ provider[NotificationJob(r)] = "delivered"
            /\ UNCHANGED <<content, attempt, calls, provider, pass>>
        BY <2>4 DEF DecideApproval
      <4>2. \A q \in Requests :
              approval'[q] = IF q = r THEN "approved" ELSE approval[q]
        BY <1>1, <2>4, <3>2 DEF DecideApproval, TypeOK
      <4>3. \A j \in Jobs :
              jobState'[j] = IF j = MessageJob(r) THEN "ready" ELSE jobState[j]
        BY <1>1, <2>4, <3>2 DEF DecideApproval, TypeOK
      <4>4. jobState[NotificationJob(r)] # "ready"
        BY <4>1 DEF SendInv, HandedOver, Undispatched
      <4>5. ASSUME NEW q \in Requests PROVE RowsTogether(q)' /\ InStep(q)'
        <5>1. RowsTogether(q) /\ InStep(q)
          BY DEF SendInv
        <5>2. NotificationJob(q) # MessageJob(r) /\ (MessageJob(q) = MessageJob(r) => q = r)
          BY DEF MessageJob, NotificationJob
        <5> QED BY <4>1, <4>2, <4>3, <4>4, <5>1, <5>2 DEF RowsTogether, InStep
      <4>6. ASSUME NEW j \in Jobs PROVE HandedOver(j)'
        <5>1. HandedOver(j)
          BY DEF SendInv
        <5> QED BY <4>1, <4>3, <5>1 DEF HandedOver, Undispatched
      <4>7. PassHolds'
        <5>1. CASE pass.phase \in Working
          <6>1. pass.job \in Jobs
            BY <1>1, <5>1 DEF TypeOK
          <6> QED BY <1>2, <4>1, <4>3, <6>1 DEF PassHolds
        <5>2. CASE pass.phase \notin Working
          BY <1>5, <4>1, <5>2
        <5> QED BY <5>1, <5>2
      <4> QED BY <1>1, <4>5, <4>6, <4>7 DEF SendInv
    <3> QED BY <3>1, <3>2
  <2>5. ASSUME NEW ms \in SUBSET Requests, SoftDeleteThread(ms) PROVE SendInv'
    <3>1. approval \in [Requests -> ApprovalStates]
      BY <1>1 DEF TypeOK
    <3> QED BY <1>1, <1>3, <2>5, <3>1, RejectKeepsSendInv DEF SoftDeleteThread
  <2>6. ASSUME NEW m \in Mailboxes, NEW to \in {"active", "paused"},
               PatchAddress(m, to)
        PROVE  SendInv'
    BY <1>1, <1>2, <2>6, TablesUntouched DEF PatchAddress, PassHolds
  <2>7. ASSUME NEW m \in Mailboxes, RetireAddress(m) PROVE SendInv'
    BY <1>1, <1>2, <2>7, TablesUntouched DEF RetireAddress, PassHolds
  <2>8. ASSUME NEW c \in Clients, NEW p \in Policies \cup {NoPolicy}, SetPolicy(c, p)
        PROVE  SendInv'
    BY <1>1, <1>2, <2>8, TablesUntouched DEF SetPolicy, PassHolds
  <2> QED BY <1>7, <2>1, <2>2, <2>3, <2>4, <2>5, <2>6, <2>7, <2>8 DEF CallStep
<1>8. ASSUME NEW r \in Requests, ApprovalComesDue(r) PROVE SendInv'
  BY <1>1, <1>2, <1>8, TablesUntouched DEF ApprovalComesDue, PassHolds
<1>9. ASSUME NEW j \in Jobs, ClaimComesDue(j) PROVE SendInv'
  BY <1>1, <1>2, <1>9, TablesUntouched DEF ClaimComesDue, PassHolds
<1>10. ASSUME NEW j \in Jobs, NEW fate \in {"delivered", "refused"},
              ProviderSettles(j, fate)
       PROVE  SendInv'
  <2>1. /\ provider[j] = "transit"
        /\ \A k \in Jobs : provider'[k] = IF k = j THEN fate ELSE provider[k]
        /\ UNCHANGED <<content, jobState, attempt, approval, pass, calls>>
    BY <1>1, <1>10 DEF ProviderSettles, TypeOK
  <2>2. ASSUME NEW k \in Jobs PROVE HandedOver(k)'
    <3>1. HandedOver(k)
      BY DEF SendInv
    <3> QED BY <2>1, <3>1 DEF HandedOver, Undispatched
  <2>3. PassHolds'
    <3>1. pass.phase = "send" => provider'[pass.job] = "none"
      BY <1>1, <1>2, <2>1 DEF PassHolds, TypeOK, Working
    <3> QED BY <1>2, <2>1, <3>1 DEF PassHolds
  <2> QED BY <1>1, <2>1, <2>2, <2>3 DEF SendInv, RowsTogether, InStep
<1>11. CASE DispatchFails
  BY <1>1, <1>4, <1>5, <1>11, TablesUntouched DEF DispatchFails
<1>12. CASE StepFails
  <2>1. CASE pass.phase = "settle"
    BY <1>1, <1>4, <1>5, <1>12, <2>1, TablesUntouched DEF StepFails
  <2>2. CASE pass.phase # "settle"
    <3>1. \/ pass' = [pass EXCEPT !.phase = "select", !.dueApprovals = {}]
          \/ pass' = [pass EXCEPT !.phase = "settle"]
      BY <1>12, <2>2 DEF StepFails
    <3>2. pass'.phase \in {"select", "settle"}
      <4>1. CASE pass' = [pass EXCEPT !.phase = "select", !.dueApprovals = {}]
        BY <1>1, <4>1 DEF TypeOK, PassRecord
      <4>2. CASE pass' = [pass EXCEPT !.phase = "settle"]
        BY <1>1, <4>2 DEF TypeOK, PassRecord
      <4> QED BY <3>1, <4>1, <4>2
    <3> QED BY <1>1, <1>5, <1>12, <3>2, TablesUntouched DEF StepFails, Working
  <2> QED BY <2>1, <2>2
<1>13. CASE Crash
  BY <1>1, <1>4, <1>5, <1>13, TablesUntouched DEF Crash
<1>14. CASE UNCHANGED vars
  BY <1>1, <1>2, <1>14, TablesUntouched DEF vars, PassHolds
<1> QED BY <1>6, <1>7, <1>8, <1>9, <1>10, <1>11, <1>12, <1>13, <1>14 DEF Next

(* The empty store satisfies the send invariant.                           *)
LEMMA SendInit == Init => SendInv
<1> SUFFICES ASSUME Init PROVE SendInv
  OBVIOUS
<1>1. TypeOK
  BY TypeInit
<1>2. \A r \in Requests : RowsTogether(r) /\ InStep(r)
  BY JobOfRequest DEF Init, RowsTogether, InStep
<1>3. \A j \in Jobs : HandedOver(j)
  BY DEF Init, HandedOver
<1>4. PassHolds
  BY DEF Init, IdlePass, PassHolds, Working
<1> QED BY <1>1, <1>2, <1>3, <1>4 DEF SendInv

(* SendInv holds in every reachable state.                                 *)
THEOREM SendInvariant == Spec => []SendInv
BY SendInit, SendStep, PTL DEF Spec

(* No job's mail is handed to the provider twice, whatever crashes, failed *)
(* steps and later passes do (claimJob's "at-most-once").                  *)
THEOREM SentAtMostOnce == Spec => []AtMostOnce
<1>1. SendInv => AtMostOnce
  BY DEF SendInv, HandedOver, AtMostOnce
<1> QED BY <1>1, SendInvariant, PTL

(* A message waits exactly while its approval is pending.                  *)
THEOREM TablesInStep == Spec => []ApprovalInStep
<1>1. SendInv => ApprovalInStep
  BY DEF SendInv, InStep, ApprovalInStep
<1> QED BY <1>1, SendInvariant, PTL

(* A waiting message can still be decided: no refused notification leaves  *)
(* it behind once its answer is in.                                        *)
THEOREM WaitingStaysDecidable == Spec => []WaitingIsDecidable
<1>1. SendInv => WaitingIsDecidable
  <2> SUFFICES ASSUME SendInv, NEW r \in Requests,
                      jobState[MessageJob(r)] = "waiting_approval"
               PROVE  /\ jobState[NotificationJob(r)] # "rejected"
                      /\ provider[NotificationJob(r)] = "refused" =>
                           jobState[NotificationJob(r)] \in {"in_flight", "unknown"}
    BY DEF WaitingIsDecidable
  <2>1. InStep(r) /\ HandedOver(NotificationJob(r))
    BY JobOfRequest DEF SendInv
  <2>2. jobState[NotificationJob(r)] \in JobStates
    BY JobOfRequest DEF SendInv, TypeOK
  <2> QED BY <2>1, <2>2 DEF InStep, HandedOver, Undispatched, JobStates
<1> QED BY <1>1, SendInvariant, PTL

(* Rejected mail reached nobody and accepted mail was delivered.           *)
THEOREM StatesTellTheTruth == Spec => []StateTellsTheTruth
<1>1. SendInv => StateTellsTheTruth
  <2> SUFFICES ASSUME SendInv, NEW j \in Jobs
               PROVE  /\ jobState[j] = "rejected" => provider[j] \in {"none", "refused"}
                      /\ jobState[j] = "accepted" => provider[j] = "delivered"
                      /\ provider[j] # "none" => jobState[j] \in {"in_flight"} \cup Settled
    BY DEF StateTellsTheTruth
  <2>1. HandedOver(j) /\ jobState[j] \in JobStates
    BY DEF SendInv, TypeOK
  <2> QED BY <2>1 DEF HandedOver, Undispatched, JobStates, Settled
<1> QED BY <1>1, SendInvariant, PTL

-----------------------------------------------------------------------------
(* An approval is resolved once.                                           *)

(* No step changes an approval that is neither missing nor pending.        *)
LEMMA ResolvedStays ==
  ASSUME SendInv, [Next]_vars, NEW r \in Requests,
         approval[r] \notin {"none", "pending"}
  PROVE  approval'[r] = approval[r]
<1>1. TypeOK
  BY DEF SendInv
<1>2. ASSUME NEW ms, NEW class, NEW js, NEW fl,
             NEW ap \in [Requests -> ApprovalStates], ap[r] = approval[r],
             RejectUndispatched(ms, class, js, fl, ap)
      PROVE  approval'[r] = approval[r]
  BY <1>2 DEF RejectUndispatched, Cancels
<1>3. approval \in [Requests -> ApprovalStates]
  BY <1>1 DEF TypeOK
<1>4. CASE PassStep
  <2>1. CASE ExpireDueApprovals
    <3> DEFINE ap == [q \in Requests |->
                        IF q \in Expiring THEN "expired" ELSE approval[q]]
    <3>1. ap \in [Requests -> ApprovalStates]
      BY <1>3 DEF ApprovalStates
    <3>2. ap[r] = approval[r]
      BY DEF Expiring
    <3>3. RejectUndispatched(Expiring, "expired", jobState, failure, ap)
      BY <2>1 DEF ExpireDueApprovals
    <3> HIDE DEF ap
    <3> QED BY <1>2, <3>1, <3>2, <3>3
  <2>2. CASE PrepareRejects
    BY <1>2, <1>3, <2>2 DEF PrepareRejects
  <2>3. CASE ClaimRefused
    BY <1>2, <1>3, <2>3 DEF ClaimRefused
  <2>4. ASSUME NEW outcome \in Settled, CompleteAttempt(outcome)
        PROVE  approval'[r] = approval[r]
    BY <2>4, CompleteEffect
  <2> QED
    BY <1>4, <2>1, <2>2, <2>3, <2>4
       DEF PassStep, StartPass, SelectReadyJobs, ReadDispatch, PreparePasses,
           ReadPolicy, ClaimJob, ClaimFindsJobGone, CallProvider, FinishSends,
           SettleAbandonedClaims
<1>5. CASE CallStep
  <2>1. ASSUME NEW q \in Requests, NEW c \in Contents, SubmitOutbound(q, c)
        PROVE  approval'[r] = approval[r]
    <3>1. content[r] # NoContent
      BY DEF SendInv, RowsTogether
    <3> QED BY <1>3, <2>1, <3>1 DEF SubmitOutbound
  <2>2. ASSUME NEW q \in Requests, NEW decision \in {"approved", "denied"},
               DecideApproval(q, decision)
        PROVE  approval'[r] = approval[r]
    <3>1. q # r
      BY <2>2 DEF DecideApproval
    <3>2. CASE decision = "approved"
      BY <1>3, <2>2, <3>1, <3>2 DEF DecideApproval
    <3>3. CASE decision = "denied"
      <4> DEFINE ap == [approval EXCEPT ![q] = "denied"]
      <4>1. ap \in [Requests -> ApprovalStates] /\ ap[r] = approval[r]
        BY <1>3, <3>1 DEF ApprovalStates
      <4>2. RejectUndispatched({q}, "denied", jobState, failure, ap)
        BY <2>2, <3>3 DEF DecideApproval
      <4> HIDE DEF ap
      <4> QED BY <1>2, <4>1, <4>2
    <3> QED BY <3>2, <3>3
  <2>3. ASSUME NEW ms \in SUBSET Requests, SoftDeleteThread(ms)
        PROVE  approval'[r] = approval[r]
    BY <1>2, <1>3, <2>3 DEF SoftDeleteThread
  <2> QED
    BY <1>5, <2>1, <2>2, <2>3
       DEF CallStep, Authenticate, SubmitWritesNothing, PatchAddress,
           RetireAddress, SetPolicy
<1> QED
  BY <1>4, <1>5 DEF Next, ApprovalComesDue, ClaimComesDue, ProviderSettles,
     DispatchFails, StepFails, Crash, vars

(* Nothing overwrites the operator's decision or the expiry.               *)
THEOREM ApprovalsDecidedOnce == Spec => DecidedOnce
<1>1. SendInv /\ [Next]_vars =>
        [\A r \in Requests : approval[r] \notin {"none", "pending"} =>
           approval'[r] = approval[r]]_vars
  BY ResolvedStays
<1> QED BY <1>1, SendInvariant, PTL DEF Spec, DecidedOnce

-----------------------------------------------------------------------------
(* What ended a message.                                                   *)

(* A step that leaves the tables and the provider alone keeps OutcomeInv.  *)
LEMMA OutcomeUntouched ==
  ASSUME OutcomeInv, SendInv',
         UNCHANGED <<content, deleted, jobState, failure, approval, provider>>
  PROVE  OutcomeInv'
BY DEF OutcomeInv, DeletedStaysUnsent, Explained, Resolved

(* What a caller of rejectUndispatched guarantees of the messages ms it     *)
(* ends, the class it gives and the approvals ap it has resolved first.    *)
Ends(ms, class, ap) ==
  /\ ms \in SUBSET Requests
  /\ class \in {"denied", "expired", "cancelled", "policy"}
  /\ ap \in [Requests -> ApprovalStates]
  /\ \A r \in Requests : ap[r] # approval[r] =>
       r \in ms /\ approval[r] = "pending" /\ ap[r] = class
  /\ class \in {"denied", "expired"} => \A r \in ms : ap[r] = class
  /\ class = "cancelled" => ms \subseteq deleted'
  /\ RejectUndispatched(ms, class, jobState, failure, ap)
  /\ \/ deleted' = deleted
     \/ deleted' = deleted \cup ms /\ \A r \in ms : content[r] # NoContent
  /\ UNCHANGED <<content, provider>>

(* rejectUndispatched explains what it rejects: its class, the approvals   *)
(* its caller resolved and the messages its caller deleted agree.          *)
LEMMA RejectKeepsOutcome ==
  ASSUME OutcomeInv, SendInv', NEW ms, NEW class, NEW ap, Ends(ms, class, ap)
  PROVE  OutcomeInv'
<1> USE DEF Ends
<1> USE JobOfRequest
<1>1. /\ \A j \in Jobs : jobState'[j] =
           IF Rejects(ms, jobState, j) THEN "rejected" ELSE jobState[j]
      /\ \A j \in Jobs : failure'[j] =
           IF Rejects(ms, jobState, j) THEN class ELSE failure[j]
      /\ \A r \in Requests : approval'[r] =
           IF Cancels(ms, jobState, ap, r) THEN "cancelled" ELSE ap[r]
  BY DEF RejectUndispatched
<1>2. ASSUME NEW r \in Requests
      PROVE  IF Rejects(ms, jobState, MessageJob(r))
             THEN /\ r \in ms
                  /\ approval'[r] = IF ap[r] = "pending" THEN "cancelled" ELSE ap[r]
             ELSE approval'[r] = approval[r]
  <2>1. approval[r] = "pending" => jobState[MessageJob(r)] = "waiting_approval"
    BY DEF OutcomeInv, SendInv, InStep
  <2> QED BY <1>1, <2>1 DEF Cancels, Rejects, Undispatched
<1>3. ASSUME NEW r \in Requests PROVE Explained(r)' /\ Resolved(r)'
  <2>1. Explained(r) /\ Resolved(r)
    BY DEF OutcomeInv
  <2>2. CASE Rejects(ms, jobState, MessageJob(r))
    <3>1. /\ jobState'[MessageJob(r)] = "rejected"
          /\ failure'[MessageJob(r)] = class
          /\ r \in ms
          /\ approval'[r] = IF ap[r] = "pending" THEN "cancelled" ELSE ap[r]
      BY <1>1, <1>2, <2>2
    <3>2. failure[MessageJob(r)] = "none"
      BY <2>1, <2>2 DEF Explained, Rejects, Undispatched
    <3>3. approval[r] \notin {"denied", "expired"}
      BY <2>1, <3>2 DEF Explained
    <3>4. class = "denied" <=> approval'[r] = "denied"
      BY <3>1, <3>3
    <3>5. class = "expired" <=> approval'[r] = "expired"
      BY <3>1, <3>3
    <3>6. class = "cancelled" => r \in deleted'
      BY <3>1
    <3>7. Explained(r)'
      BY <3>1, <3>4, <3>5, <3>6 DEF Explained
    <3>8. approval'[r] = "none" => approval[r] = "none"
      BY <3>1
    <3>9. approval'[r] = "approved" => approval[r] = "approved"
      BY <3>1
    <3>10. jobState[NotificationJob(r)] = "none" => jobState'[NotificationJob(r)] = "none"
      BY <1>1 DEF Rejects, Undispatched
    <3> QED BY <2>1, <3>1, <3>7, <3>8, <3>9, <3>10 DEF Resolved
  <2>3. CASE ~ Rejects(ms, jobState, MessageJob(r))
    <3>1. /\ jobState'[MessageJob(r)] = jobState[MessageJob(r)]
          /\ failure'[MessageJob(r)] = failure[MessageJob(r)]
          /\ approval'[r] = approval[r]
      BY <1>1, <1>2, <2>3
    <3>2. r \in deleted => r \in deleted'
      OBVIOUS
    <3>3. Explained(r)'
      BY <2>1, <3>1, <3>2 DEF Explained
    <3>4. jobState[NotificationJob(r)] = "none" => jobState'[NotificationJob(r)] = "none"
      BY <1>1 DEF Rejects, Undispatched
    <3> QED BY <2>1, <3>1, <3>3, <3>4 DEF Resolved
  <2> QED BY <2>2, <2>3
<1>4. DeletedStaysUnsent'
  <2> SUFFICES ASSUME NEW r \in deleted'
               PROVE  /\ jobState'[MessageJob(r)] \notin Undispatched
                      /\ jobState'[NotificationJob(r)] \notin Undispatched
    BY DEF DeletedStaysUnsent
  <2>1. r \in Requests
    BY DEF SendInv, TypeOK
  <2>2. r \in deleted \/ r \in ms
    OBVIOUS
  <2>3. CASE r \in deleted
    BY <1>1, <2>1, <2>3 DEF OutcomeInv, DeletedStaysUnsent, Rejects, Undispatched
  <2>4. CASE r \in ms
    BY <1>1, <2>1, <2>4 DEF Rejects, Undispatched
  <2> QED BY <2>2, <2>3, <2>4
<1>5. \A r \in deleted' : content'[r] # NoContent
  BY DEF OutcomeInv
<1> QED BY <1>3, <1>4, <1>5 DEF OutcomeInv

(* Every step explains what it ends.                                       *)
LEMMA OutcomeStep ==
  OutcomeInv /\ [Next]_vars => OutcomeInv'
<1> SUFFICES ASSUME OutcomeInv, [Next]_vars PROVE OutcomeInv'
  OBVIOUS
<1> USE JobOfRequest, JobCases
<1>1. SendInv /\ SendInv' /\ TypeOK
  BY SendStep DEF OutcomeInv, SendInv
<1>2. approval \in [Requests -> ApprovalStates]
  BY <1>1 DEF TypeOK
<1>3. deleted \subseteq Requests
  BY <1>1 DEF TypeOK
<1>4. CASE PassStep
  <2>1. CASE ExpireDueApprovals
    <3> DEFINE ap == [r \in Requests |->
                        IF r \in Expiring THEN "expired" ELSE approval[r]]
    <3>1. ap \in [Requests -> ApprovalStates]
      BY <1>2 DEF ApprovalStates
    <3>2. Expiring \in SUBSET Requests
      BY <1>1 DEF Expiring, TypeOK, PassRecord
    <3>3. \A r \in Requests : ap[r] # approval[r] =>
            r \in Expiring /\ approval[r] = "pending" /\ ap[r] = "expired"
      BY DEF Expiring
    <3>4. \A r \in Expiring : ap[r] = "expired"
      BY <3>2
    <3>5. /\ RejectUndispatched(Expiring, "expired", jobState, failure, ap)
          /\ UNCHANGED <<content, provider>> /\ deleted' = deleted
      BY <2>1 DEF ExpireDueApprovals
    <3> HIDE DEF ap
    <3>6. Ends(Expiring, "expired", ap)
      BY <3>1, <3>2, <3>3, <3>4, <3>5 DEF Ends
    <3> QED BY <1>1, <3>6, RejectKeepsOutcome
  <2>2. CASE PrepareRejects \/ ClaimRefused
    <3>1. {pass.job[1]} \in SUBSET Requests
      BY <1>1, <2>2 DEF PrepareRejects, ClaimRefused, TypeOK, Working
    <3>2. /\ RejectUndispatched({pass.job[1]}, "policy", jobState, failure, approval)
          /\ UNCHANGED <<content, provider>> /\ deleted' = deleted
      BY <2>2 DEF PrepareRejects, ClaimRefused
    <3>3. Ends({pass.job[1]}, "policy", approval)
      BY <1>2, <3>1, <3>2 DEF Ends
    <3> QED BY <1>1, <3>3, RejectKeepsOutcome
  <2>3. CASE ClaimJob
    <3>1. pass.job \in Jobs /\ jobState[pass.job] = "ready"
      BY <1>1, <2>3 DEF ClaimJob, TypeOK, Working
    <3>2. \A j \in Jobs : jobState'[j] = IF j = pass.job THEN "in_flight"
                                          ELSE jobState[j]
      BY <1>1, <2>3, <3>1 DEF ClaimJob, TypeOK
    <3>3. UNCHANGED <<content, deleted, failure, approval, provider>>
      BY <2>3 DEF ClaimJob
    <3> QED BY <1>1, <1>3, <3>1, <3>2, <3>3
            DEF OutcomeInv, DeletedStaysUnsent, Undispatched, Explained, Resolved
  <2>4. CASE CallProvider
    <3>1. pass.job \in Jobs /\ provider[pass.job] = "none"
      BY <1>1, <2>4 DEF CallProvider, SendInv, PassHolds, TypeOK, Working
    <3>2. \A j \in Jobs : provider'[j] = IF j = pass.job THEN "transit"
                                          ELSE provider[j]
      BY <1>1, <2>4, <3>1 DEF CallProvider, TypeOK
    <3>3. UNCHANGED <<content, deleted, jobState, failure, approval>>
      BY <2>4 DEF CallProvider
    <3> QED BY <1>1, <1>3, <3>1, <3>2, <3>3
            DEF OutcomeInv, DeletedStaysUnsent, Explained, Resolved
  <2>5. ASSUME NEW outcome \in Settled, CompleteAttempt(outcome) PROVE OutcomeInv'
    <3> DEFINE ms == GivesUpOn(pass.job, outcome)
    <3>1. /\ pass.job \in Jobs
          /\ jobState[pass.job] = "in_flight"
          /\ \A j \in Jobs :
               jobState'[j] = IF j = pass.job THEN outcome
                              ELSE IF Rejects(ms, jobState, j)
                              THEN "rejected" ELSE jobState[j]
          /\ \A j \in Jobs :
               failure'[j] = IF j = pass.job
                             THEN IF outcome = "rejected" THEN "provider" ELSE failure[j]
                             ELSE IF Rejects(ms, jobState, j)
                             THEN "notification_failed" ELSE failure[j]
          /\ \A r \in Requests :
               approval'[r] = IF approval[r] = "pending" /\ r \in ms
                              THEN "cancelled" ELSE approval[r]
      BY <1>1, <2>5, CompleteEffect
    <3>2. \A r \in Requests : r \in ms =>
            /\ pass.job = NotificationJob(r)
            /\ outcome = "rejected"
            /\ provider[NotificationJob(r)] = "refused"
      BY <2>5, <3>1 DEF GivesUpOn, CompleteAttempt, Possible
    <3>3. UNCHANGED <<content, deleted, provider>>
      BY <2>5 DEF CompleteAttempt
    <3> HIDE DEF ms
    <3>4. ASSUME NEW r \in Requests, r \in ms,
                 jobState[MessageJob(r)] \in Undispatched
          PROVE  approval[r] = "pending"
      <4>1. Resolved(r) /\ Explained(r) /\ InStep(r)
        BY <1>1 DEF OutcomeInv, SendInv
      <4>2. approval[r] \in ApprovalStates
        BY <1>2
      <4> QED BY <3>1, <3>2, <3>4, <4>1, <4>2
              DEF Resolved, Explained, Undispatched, ApprovalStates
    <3>5. ASSUME NEW r \in Requests PROVE Explained(r)' /\ Resolved(r)'
      <4>1. Explained(r) /\ Resolved(r)
        BY DEF OutcomeInv
      <4>2. CASE Rejects(ms, jobState, MessageJob(r))
        <5>1. r \in ms /\ approval[r] = "pending" /\ MessageJob(r) # pass.job
          BY <3>1, <3>4, <4>2 DEF Rejects, Undispatched
        <5>2. /\ jobState'[MessageJob(r)] = "rejected"
              /\ failure'[MessageJob(r)] = "notification_failed"
              /\ approval'[r] = "cancelled"
          BY <3>1, <4>2, <5>1
        <5>3. provider'[NotificationJob(r)] = "refused"
          BY <3>2, <3>3, <5>1
        <5> QED BY <5>2, <5>3 DEF Explained, Resolved
      <4>3. CASE ~ Rejects(ms, jobState, MessageJob(r)) /\ MessageJob(r) # pass.job
        <5>1. approval'[r] = approval[r]
          <6>1. approval[r] = "pending" => jobState[MessageJob(r)] = "waiting_approval"
            BY <1>1 DEF SendInv, InStep
          <6> QED BY <3>1, <4>3, <6>1 DEF Rejects, Undispatched
        <5>2. /\ jobState'[MessageJob(r)] = jobState[MessageJob(r)]
              /\ failure'[MessageJob(r)] = failure[MessageJob(r)]
          BY <3>1, <4>3
        <5>3. jobState[NotificationJob(r)] = "none" => jobState'[NotificationJob(r)] = "none"
          BY <3>1 DEF Rejects, Undispatched
        <5> QED BY <3>3, <4>1, <5>1, <5>2, <5>3 DEF Explained, Resolved
      <4>4. CASE MessageJob(r) = pass.job
        <5>1. r \notin ms
          BY <3>2, <4>4
        <5>2. /\ approval'[r] = approval[r]
              /\ jobState'[MessageJob(r)] = outcome
              /\ failure'[MessageJob(r)] = IF outcome = "rejected" THEN "provider"
                                           ELSE failure[MessageJob(r)]
              /\ jobState'[NotificationJob(r)] = jobState[NotificationJob(r)]
          BY <3>1, <4>4, <5>1 DEF Rejects
        <5>3. failure[MessageJob(r)] = "none"
          BY <3>1, <4>1, <4>4 DEF Explained
        <5>4. approval[r] # "cancelled"
          BY <3>1, <4>1, <4>4 DEF Resolved
        <5> QED BY <3>3, <4>1, <5>2, <5>3, <5>4 DEF Explained, Resolved
      <4> QED BY <4>2, <4>3, <4>4
    <3>6. DeletedStaysUnsent'
      BY <1>3, <3>1, <3>3
         DEF OutcomeInv, DeletedStaysUnsent, Rejects, Undispatched, Settled
    <3> QED BY <1>1, <3>3, <3>5, <3>6 DEF OutcomeInv
  <2>6. CASE SettleAbandonedClaims
    <3>1. \A j \in Jobs : jobState'[j] = IF Abandoned(j) THEN "unknown" ELSE jobState[j]
      BY <2>6 DEF SettleAbandonedClaims, AbandonedBecomes
    <3>2. UNCHANGED <<content, deleted, failure, approval, provider>>
      BY <2>6 DEF SettleAbandonedClaims
    <3>3. ASSUME NEW r \in Requests PROVE Explained(r)' /\ Resolved(r)'
      BY <3>1, <3>2 DEF OutcomeInv, Explained, Resolved, Abandoned
    <3>4. DeletedStaysUnsent'
      BY <1>3, <3>1, <3>2 DEF OutcomeInv, DeletedStaysUnsent, Undispatched
    <3> QED BY <1>1, <3>2, <3>3, <3>4 DEF OutcomeInv
  <2> QED
    BY <1>1, <1>4, <2>1, <2>2, <2>3, <2>4, <2>5, <2>6, OutcomeUntouched
       DEF PassStep, StartPass, SelectReadyJobs, ReadDispatch, PreparePasses,
           ReadPolicy, ClaimFindsJobGone, FinishSends
<1>5. CASE CallStep
  <2>1. ASSUME NEW r \in Requests, NEW c \in Contents, SubmitOutbound(r, c)
        PROVE  OutcomeInv'
    <3> DEFINE held == NeedsApproval(caller[r], c)
    <3>1. /\ content[r] = NoContent
          /\ jobState[MessageJob(r)] = "none"
          /\ jobState[NotificationJob(r)] = "none"
          /\ approval[r] = "none"
      BY <1>1, <2>1 DEF SendInv, RowsTogether, SubmitOutbound
    <3>2. /\ jobState'[MessageJob(r)] = IF held THEN "waiting_approval" ELSE "ready"
          /\ jobState'[NotificationJob(r)] = IF held THEN "ready" ELSE "none"
          /\ \A j \in Jobs \ {MessageJob(r), NotificationJob(r)} :
               jobState'[j] = jobState[j]
      BY <1>1, <2>1 DEF SubmitOutbound, TypeOK
    <3>3. /\ approval'[r] = IF held THEN "pending" ELSE "none"
          /\ \A q \in Requests \ {r} :
               content'[q] = content[q] /\ approval'[q] = approval[q]
      BY <1>1, <2>1 DEF SubmitOutbound, TypeOK
    <3>4. UNCHANGED <<deleted, failure, provider>>
      BY <2>1 DEF SubmitOutbound
    <3> HIDE DEF held
    <3>5. r \notin deleted
      BY <3>1 DEF OutcomeInv
    <3>6. \A q \in Requests \ {r} :
            /\ MessageJob(q) \in Jobs \ {MessageJob(r), NotificationJob(r)}
            /\ NotificationJob(q) \in Jobs \ {MessageJob(r), NotificationJob(r)}
      OBVIOUS
    <3>7. ASSUME NEW q \in Requests PROVE Explained(q)' /\ Resolved(q)'
      <4>1. Explained(q) /\ Resolved(q)
        BY DEF OutcomeInv
      <4>2. CASE q = r
        <5>1. failure[MessageJob(r)] = "none"
          BY <3>1, <4>1, <4>2 DEF Explained
        <5> QED BY <3>2, <3>3, <3>4, <4>2, <5>1 DEF Explained, Resolved
      <4>3. CASE q # r
        BY <3>2, <3>3, <3>4, <3>6, <4>1, <4>3 DEF Explained, Resolved
      <4> QED BY <4>2, <4>3
    <3>8. DeletedStaysUnsent' /\ \A q \in deleted' : content'[q] # NoContent
      BY <1>3, <3>2, <3>3, <3>4, <3>5, <3>6 DEF OutcomeInv, DeletedStaysUnsent
    <3> QED BY <1>1, <3>7, <3>8 DEF OutcomeInv
  <2>2. ASSUME NEW r \in Requests, NEW decision \in {"approved", "denied"},
               DecideApproval(r, decision)
        PROVE  OutcomeInv'
    <3>1. CASE decision = "denied"
      <4> DEFINE ap == [approval EXCEPT ![r] = "denied"]
      <4>1. ap \in [Requests -> ApprovalStates]
        BY <1>2 DEF ApprovalStates
      <4>2. \A q \in Requests : ap[q] # approval[q] =>
              q \in {r} /\ approval[q] = "pending" /\ ap[q] = "denied"
        BY <1>2, <2>2 DEF DecideApproval
      <4>3. \A q \in {r} : ap[q] = "denied"
        BY <1>2
      <4>4. /\ RejectUndispatched({r}, "denied", jobState, failure, ap)
            /\ UNCHANGED <<content, provider>> /\ deleted' = deleted
        BY <2>2, <3>1 DEF DecideApproval
      <4> HIDE DEF ap
      <4>5. Ends({r}, "denied", ap)
        BY <4>1, <4>2, <4>3, <4>4 DEF Ends
      <4> QED BY <1>1, <4>5, RejectKeepsOutcome
    <3>2. CASE decision = "approved"
      <4>1. /\ approval[r] = "pending" /\ jobState[MessageJob(r)] = "waiting_approval"
            /\ provider[NotificationJob(r)] = "delivered"
            /\ UNCHANGED <<content, deleted, failure, provider>>
        BY <2>2, <3>2 DEF DecideApproval
      <4>2. \A q \in Requests :
              approval'[q] = IF q = r THEN "approved" ELSE approval[q]
        BY <1>2, <2>2, <3>2 DEF DecideApproval
      <4>3. \A j \in Jobs :
              jobState'[j] = IF j = MessageJob(r) THEN "ready" ELSE jobState[j]
        BY <1>1, <2>2, <3>2 DEF DecideApproval, TypeOK
      <4>4. r \notin deleted
        BY <4>1 DEF OutcomeInv, DeletedStaysUnsent, Undispatched
      <4>5. ASSUME NEW q \in Requests PROVE Explained(q)' /\ Resolved(q)'
        <5>1. Explained(q) /\ Resolved(q)
          BY DEF OutcomeInv
        <5>2. NotificationJob(q) # MessageJob(r) /\ (MessageJob(q) = MessageJob(r) => q = r)
          BY DEF MessageJob, NotificationJob
        <5> QED BY <4>1, <4>2, <4>3, <5>1, <5>2 DEF Explained, Resolved
      <4>6. DeletedStaysUnsent'
        <5>1. \A q \in deleted : /\ MessageJob(q) # MessageJob(r)
                                 /\ NotificationJob(q) # MessageJob(r)
          BY <4>4 DEF MessageJob, NotificationJob
        <5> QED BY <1>3, <4>1, <4>3, <5>1 DEF OutcomeInv, DeletedStaysUnsent
      <4> QED BY <1>1, <4>1, <4>5, <4>6 DEF OutcomeInv
    <3> QED BY <3>1, <3>2
  <2>3. ASSUME NEW ms \in SUBSET Requests, SoftDeleteThread(ms) PROVE OutcomeInv'
    <3>1. /\ RejectUndispatched(ms, "cancelled", jobState, failure, approval)
          /\ UNCHANGED <<content, provider>> /\ deleted' = deleted \cup ms
          /\ \A r \in ms : content[r] # NoContent
      BY <2>3 DEF SoftDeleteThread
    <3>2. Ends(ms, "cancelled", approval)
      BY <1>2, <3>1 DEF Ends
    <3> QED BY <1>1, <3>2, RejectKeepsOutcome
  <2> QED
    BY <1>1, <1>5, <2>1, <2>2, <2>3, OutcomeUntouched
       DEF CallStep, Authenticate, SubmitWritesNothing, PatchAddress,
           RetireAddress, SetPolicy
<1>6. ASSUME NEW j \in Jobs, NEW fate \in {"delivered", "refused"},
             ProviderSettles(j, fate)
      PROVE  OutcomeInv'
  <2>1. /\ provider[j] = "transit"
        /\ \A k \in Jobs : provider'[k] = IF k = j THEN fate ELSE provider[k]
        /\ UNCHANGED <<content, deleted, jobState, failure, approval>>
    BY <1>1, <1>6 DEF ProviderSettles, TypeOK
  <2> QED BY <1>1, <1>3, <2>1 DEF OutcomeInv, DeletedStaysUnsent, Explained, Resolved
<1> QED
  BY <1>1, <1>4, <1>5, <1>6, OutcomeUntouched
     DEF Next, ApprovalComesDue, ClaimComesDue, DispatchFails, StepFails,
         Crash, vars

(* OutcomeInv holds in every reachable state.                              *)
THEOREM OutcomeInvariant == Spec => []OutcomeInv
<1>1. Init => OutcomeInv
  <2> SUFFICES ASSUME Init PROVE OutcomeInv
    OBVIOUS
  <2>1. SendInv
    BY SendInit
  <2> QED
    BY <2>1, JobOfRequest
       DEF Init, OutcomeInv, DeletedStaysUnsent, Explained, Resolved
<1> QED BY <1>1, OutcomeStep, PTL DEF Spec

(* The failure class of a message names what really ended it.              *)
THEOREM FailuresExplained == Spec => []FailureIsExplained
<1>1. OutcomeInv => FailureIsExplained
  BY DEF OutcomeInv, FailureIsExplained
<1> QED BY <1>1, OutcomeInvariant, PTL

(* A deleted conversation has no mail left to send.                        *)
THEOREM DeletionIsFinal == Spec => []DeletedStaysUnsent
<1>1. OutcomeInv => DeletedStaysUnsent
  BY DEF OutcomeInv
<1> QED BY <1>1, OutcomeInvariant, PTL

-----------------------------------------------------------------------------
(* The grant history.                                                      *)

(* A policy in force is covered once it has been counted, a policy covered *)
(* before stays covered, and a consent once given stays given.             *)
LEMMA BestGrantFacts ==
  ASSUME NEW g \in Grants, NEW p, NEW q, NEW c
  PROVE  /\ Covers(BestGrant(g, p, c), p, c)
         /\ Covers(g, q, c) => Covers(BestGrant(g, p, c), q, c)
         /\ g = "unattended" => BestGrant(g, p, c) = "unattended"
         /\ g = "with_approval" =>
              BestGrant(g, p, c) \in {"with_approval", "unattended"}
<1>1. g \in {"none", "with_approval", "unattended"}
  BY DEF Grants
<1> DEFINE best == BestGrant(g, p, c)
<1>2. CASE g = "unattended" \/ IsAllowed(p, c)
  <2>1. best = "unattended"
    BY <1>2 DEF BestGrant
  <2> QED BY <2>1 DEF Covers
<1>3. CASE ~ (g = "unattended" \/ IsAllowed(p, c))
            /\ (g = "with_approval" \/ NeedsApproval(p, c))
  <2>1. best = "with_approval"
    BY <1>3 DEF BestGrant
  <2> QED BY <1>3, <2>1 DEF Covers
<1>4. CASE g = "none" /\ ~ IsAllowed(p, c) /\ ~ NeedsApproval(p, c)
  <2>1. best = "none"
    BY <1>4 DEF BestGrant
  <2> QED BY <1>4, <2>1 DEF Covers
<1> QED BY <1>1, <1>2, <1>3, <1>4

(* What the claim lets through, a covered policy consented to.             *)
LEMMA ClaimConsents ==
  ASSUME NEW j \in Jobs, j[2] = "message", ~ ClaimRejected(j),
         Covers(grant[j[1]], pass.policy, content[j[1]]),
         grant[j[1]] \in Grants
  PROVE  Consented(j[1])
<1> DEFINE c == content[j[1]]
<1>1. ~ IsDenied(pass.policy, c)
  BY DEF ClaimRejected
<1>2. NeedsApproval(pass.policy, c) => approval[j[1]] = "approved"
  BY DEF ClaimRejected
<1>3. IsAllowed(pass.policy, c) \/ NeedsApproval(pass.policy, c)
  BY <1>1 DEF IsDenied, IsAllowed, NeedsApproval, RequiresApproval
<1> QED BY <1>2, <1>3 DEF Covers, Consented, Grants

-----------------------------------------------------------------------------
(* The consent invariant.                                                  *)

(* A step that neither stores a message, changes a policy nor claims a job *)
(* keeps every consent.                                                    *)
LEMMA ConsentKept ==
  ASSUME ConsentInv,
         UNCHANGED <<content, policy, grant>>,
         \A r \in Requests : approval[r] = "approved" => approval'[r] = "approved",
         \A r \in Requests :
           \/ calls'[MessageJob(r)] > 0
           \/ jobState'[MessageJob(r)] = "in_flight"
           => \/ calls[MessageJob(r)] > 0
              \/ jobState[MessageJob(r)] = "in_flight",
         pass'.phase = "claim" => pass' = pass
  PROVE  ConsentInv'
<1>1. \A r \in Requests : PolicyFor(r)' = PolicyFor(r)
  BY DEF PolicyFor
<1>2. \A r \in Requests : Consented(r) => Consented(r)'
  BY DEF Consented
<1> QED BY <1>1, <1>2 DEF ConsentInv

(* No step lets a message out without the operator's word.                 *)
LEMMA ConsentStep ==
  SendInv /\ ConsentInv /\ [Next]_vars => ConsentInv'
<1> SUFFICES ASSUME SendInv, ConsentInv, [Next]_vars PROVE ConsentInv'
  OBVIOUS
<1> USE JobOfRequest, JobCases
<1>1. TypeOK /\ PassHolds
  BY DEF SendInv
<1>2. \A r \in Requests : approval[r] = "approved" => approval'[r] = "approved"
  BY ResolvedStays
<1>3. ASSUME NEW ms, NEW class, NEW ap,
             RejectUndispatched(ms, class, jobState, failure, ap)
      PROVE  \A j \in Jobs : jobState'[j] = "in_flight" => jobState[j] = "in_flight"
  BY <1>3 DEF RejectUndispatched
<1>4. NextJob.phase # "claim" /\ IdlePass.phase # "claim"
  BY <1>1 DEF NextJob, IdlePass, TypeOK, PassRecord
<1>5. CASE PassStep
  <2>1. CASE StartPass \/ FinishSends \/ PreparePasses
    <3>1. pass'.phase # "claim"
      <4>1. CASE StartPass
        BY <1>1, <4>1 DEF StartPass, TypeOK, PassRecord
      <4>2. CASE FinishSends
        BY <1>1, <4>2 DEF FinishSends, TypeOK, PassRecord
      <4>3. CASE PreparePasses
        BY <1>1, <4>3 DEF PreparePasses, TypeOK, PassRecord
      <4> QED BY <2>1, <4>1, <4>2, <4>3
    <3> QED BY <1>2, <2>1, <3>1, ConsentKept DEF StartPass, FinishSends, PreparePasses
  <2>2. CASE ExpireDueApprovals
    <3>1. pass'.phase # "claim"
      BY <1>1, <2>2 DEF ExpireDueApprovals, TypeOK, PassRecord
    <3>2. \A j \in Jobs : jobState'[j] = "in_flight" => jobState[j] = "in_flight"
      BY <1>3, <2>2 DEF ExpireDueApprovals
    <3> QED BY <1>2, <2>2, <3>1, <3>2, ConsentKept DEF ExpireDueApprovals
  <2>3. ASSUME NEW queue \in SUBSET Jobs, SelectReadyJobs(queue) PROVE ConsentInv'
    <3>1. pass'.phase # "claim"
      BY <1>1, <2>3 DEF SelectReadyJobs, TypeOK, PassRecord
    <3> QED BY <1>2, <2>3, <3>1, ConsentKept DEF SelectReadyJobs
  <2>4. ASSUME NEW j \in Jobs, ReadDispatch(j) PROVE ConsentInv'
    <3>1. pass'.phase # "claim"
      BY <1>1, <2>4 DEF ReadDispatch, TypeOK, PassRecord
    <3> QED BY <1>2, <2>4, <3>1, ConsentKept DEF ReadDispatch
  <2>5. CASE PrepareRejects \/ ClaimRefused
    <3>1. \A j \in Jobs : jobState'[j] = "in_flight" => jobState[j] = "in_flight"
      BY <1>3, <2>5 DEF PrepareRejects, ClaimRefused
    <3> QED BY <1>2, <1>4, <2>5, <3>1, ConsentKept DEF PrepareRejects, ClaimRefused
  <2>6. CASE ReadPolicy
    <3>1. /\ pass.job \in Jobs /\ content[pass.job[1]] # NoContent
      BY <1>1, <2>6 DEF ReadPolicy, TypeOK, PassHolds, Working, SendInv, RowsTogether
    <3>2. pass'.job = pass.job /\ pass'.policy = PolicyFor(pass.job[1])
      BY <1>1, <2>6 DEF ReadPolicy, TypeOK, PassRecord
    <3>3. UNCHANGED <<content, jobState, approval, policy, calls, grant>>
      BY <2>6 DEF ReadPolicy
    <3>4. \A r \in Requests : PolicyFor(r)' = PolicyFor(r)
      BY <3>3 DEF PolicyFor
    <3>5. \A r \in Requests : Consented(r)' = Consented(r)
      BY <3>3 DEF Consented
    <3> QED BY <3>1, <3>2, <3>3, <3>4, <3>5 DEF ConsentInv
  <2>7. CASE ClaimJob
    <3>1. pass.job \in Jobs /\ ~ ClaimRejected(pass.job)
      BY <1>1, <2>7 DEF ClaimJob, TypeOK, Working
    <3>2. /\ Covers(grant[pass.job[1]], pass.policy, content[pass.job[1]])
          /\ grant[pass.job[1]] \in Grants
      BY <1>1, <2>7, <3>1 DEF ClaimJob, ConsentInv, TypeOK
    <3>3. pass.job[2] = "message" => Consented(pass.job[1])
      BY <3>1, <3>2, ClaimConsents
    <3>4. \A j \in Jobs : jobState'[j] = IF j = pass.job THEN "in_flight"
                                        ELSE jobState[j]
      BY <1>1, <2>7, <3>1 DEF ClaimJob, TypeOK
    <3>5. pass'.phase # "claim"
      BY <1>1, <2>7 DEF ClaimJob, TypeOK, PassRecord
    <3>6. UNCHANGED <<content, approval, policy, calls, grant>>
      BY <2>7 DEF ClaimJob
    <3>7. \A r \in Requests : PolicyFor(r)' = PolicyFor(r) /\ Consented(r)' = Consented(r)
      BY <3>6 DEF PolicyFor, Consented
    <3>8. ASSUME NEW r \in Requests,
                 \/ calls'[MessageJob(r)] > 0
                 \/ jobState'[MessageJob(r)] = "in_flight"
          PROVE  Consented(r)'
      <4>1. CASE MessageJob(r) = pass.job
        BY <3>3, <3>7, <4>1
      <4>2. CASE MessageJob(r) # pass.job
        BY <3>4, <3>6, <3>7, <3>8, <4>2 DEF ConsentInv
      <4> QED BY <4>1, <4>2
    <3> QED BY <3>5, <3>6, <3>7, <3>8 DEF ConsentInv
  <2>8. CASE ClaimFindsJobGone
    BY <1>2, <1>4, <2>8, ConsentKept DEF ClaimFindsJobGone
  <2>9. CASE CallProvider
    <3>1. pass.job \in Jobs /\ jobState[pass.job] = "in_flight"
      BY <1>1, <2>9 DEF CallProvider, PassHolds, TypeOK, Working
    <3>2. pass'.phase # "claim"
      BY <1>1, <2>9 DEF CallProvider, TypeOK, PassRecord
    <3>3. \A j \in Jobs : j # pass.job => calls'[j] = calls[j]
      BY <1>1, <2>9 DEF CallProvider, TypeOK
    <3> QED BY <1>2, <2>9, <3>1, <3>2, <3>3, ConsentKept DEF CallProvider
  <2>10. ASSUME NEW outcome \in Settled, CompleteAttempt(outcome) PROVE ConsentInv'
    <3>1. \A j \in Jobs : jobState'[j] = "in_flight" => jobState[j] = "in_flight"
      BY <2>10, CompleteEffect
    <3> QED BY <1>2, <1>4, <2>10, <3>1, ConsentKept DEF CompleteAttempt
  <2>11. CASE SettleAbandonedClaims
    <3>1. \A j \in Jobs : jobState'[j] = "in_flight" => jobState[j] = "in_flight"
      BY <2>11 DEF SettleAbandonedClaims, AbandonedBecomes
    <3> QED BY <1>2, <1>4, <2>11, <3>1, ConsentKept DEF SettleAbandonedClaims
  <2> QED
    BY <1>5, <2>1, <2>2, <2>3, <2>4, <2>5, <2>6, <2>7, <2>8, <2>9, <2>10, <2>11
       DEF PassStep
<1>6. CASE CallStep
  <2>1. ASSUME NEW r \in Requests, NEW c \in Contents, SubmitOutbound(r, c)
        PROVE  ConsentInv'
    <3> DEFINE held == NeedsApproval(caller[r], c)
    <3>1. /\ content[r] = NoContent
          /\ jobState[MessageJob(r)] = "none"
          /\ calls[MessageJob(r)] = 0
      BY <1>1, <2>1 DEF SendInv, RowsTogether, HandedOver, SubmitOutbound
    <3>2. /\ jobState'[MessageJob(r)] \in Undispatched
          /\ \A j \in Jobs \ {MessageJob(r), NotificationJob(r)} :
               jobState'[j] = jobState[j]
      BY <1>1, <2>1 DEF SubmitOutbound, TypeOK, Undispatched
    <3>3. /\ content'[r] = c
          /\ grant'[r] = BestGrant("none", PolicyFor(r), c)
          /\ \A q \in Requests \ {r} : content'[q] = content[q] /\ grant'[q] = grant[q]
      BY <1>1, <2>1 DEF SubmitOutbound, TypeOK
    <3>4. UNCHANGED <<policy, calls, pass>>
      BY <2>1 DEF SubmitOutbound
    <3>5. \A q \in Requests : PolicyFor(q)' = PolicyFor(q)
      BY <3>4 DEF PolicyFor
    <3>6. ASSUME NEW q \in Requests, content'[q] # NoContent
          PROVE  Covers(grant'[q], PolicyFor(q)', content'[q])
      <4>1. CASE q = r
        <5>1. Covers(BestGrant("none", PolicyFor(r), c), PolicyFor(r), c)
          BY BestGrantFacts DEF Grants
        <5> QED BY <3>3, <3>5, <4>1, <5>1
      <4>2. CASE q # r
        BY <3>3, <3>5, <3>6, <4>2 DEF ConsentInv
      <4> QED BY <4>1, <4>2
    <3>7. ASSUME NEW q \in Requests,
                 \/ calls'[MessageJob(q)] > 0
                 \/ jobState'[MessageJob(q)] = "in_flight"
          PROVE  Consented(q)'
      <4>1. q # r
        BY <3>1, <3>2, <3>4, <3>7 DEF Undispatched
      <4>2. MessageJob(q) \in Jobs \ {MessageJob(r), NotificationJob(r)}
        BY <4>1
      <4>3. Consented(q)
        BY <3>2, <3>4, <3>7, <4>2 DEF ConsentInv
      <4> QED BY <1>2, <3>3, <4>1, <4>3 DEF Consented
    <3>8. ASSUME pass'.phase = "claim"
          PROVE  Covers(grant'[pass'.job[1]], pass'.policy, content'[pass'.job[1]])
      <4>1. pass.phase = "claim" /\ pass.job \in Jobs /\ jobState[pass.job] # "none"
        BY <1>1, <3>4, <3>8 DEF TypeOK, PassHolds, Working
      <4>2. content[pass.job[1]] # NoContent
        BY <4>1 DEF SendInv, RowsTogether
      <4>3. pass.job[1] \in Requests \ {r}
        BY <3>1, <4>1, <4>2
      <4> QED BY <3>3, <3>4, <4>1, <4>3 DEF ConsentInv
    <3> QED BY <3>6, <3>7, <3>8 DEF ConsentInv
  <2>2. ASSUME NEW r \in Requests, NEW decision \in {"approved", "denied"},
               DecideApproval(r, decision)
        PROVE  ConsentInv'
    <3>1. \A j \in Jobs : jobState'[j] = "in_flight" => jobState[j] = "in_flight"
      BY <1>1, <1>3, <2>2 DEF DecideApproval, TypeOK
    <3> QED BY <1>2, <2>2, <3>1, ConsentKept DEF DecideApproval
  <2>3. ASSUME NEW ms \in SUBSET Requests, SoftDeleteThread(ms) PROVE ConsentInv'
    <3>1. \A j \in Jobs : jobState'[j] = "in_flight" => jobState[j] = "in_flight"
      BY <1>3, <2>3 DEF SoftDeleteThread
    <3> QED BY <1>2, <2>3, <3>1, ConsentKept DEF SoftDeleteThread
  <2>4. ASSUME NEW c \in Clients, NEW p \in Policies \cup {NoPolicy}, SetPolicy(c, p)
        PROVE  ConsentInv'
    <3>1. UNCHANGED <<content, jobState, approval, calls, pass>>
      BY <2>4 DEF SetPolicy
    <3>2. \A r \in Requests :
            grant'[r] = IF Requester[r] = c /\ content[r] # NoContent
                        THEN BestGrant(grant[r], p, content[r]) ELSE grant[r]
      BY <2>4 DEF SetPolicy
    <3>3. \A r \in Requests :
            PolicyFor(r)' = IF Requester[r] = c THEN p ELSE PolicyFor(r)
      BY <1>1, <2>4, SendAssumption DEF SetPolicy, PolicyFor, TypeOK
    <3>4. \A r \in Requests : grant[r] \in Grants
      BY <1>1 DEF TypeOK
    <3>5. ASSUME NEW r \in Requests, content[r] # NoContent
          PROVE  /\ Covers(grant'[r], PolicyFor(r)', content[r])
                 /\ \A q : Covers(grant[r], q, content[r]) =>
                           Covers(grant'[r], q, content[r])
                 /\ Consented(r) => Consented(r)'
      <4>1. CASE Requester[r] = c
        <5>1. Covers(BestGrant(grant[r], p, content[r]), p, content[r])
          BY <3>4, BestGrantFacts
        <5>2. \A q : Covers(grant[r], q, content[r]) =>
                     Covers(BestGrant(grant[r], p, content[r]), q, content[r])
          BY <3>4, BestGrantFacts
        <5>3. /\ grant[r] = "unattended" => grant'[r] = "unattended"
              /\ grant[r] = "with_approval" =>
                   grant'[r] \in {"with_approval", "unattended"}
          BY <3>2, <3>4, <3>5, <4>1, BestGrantFacts
        <5>4. Consented(r) => Consented(r)'
          BY <3>1, <5>3 DEF Consented
        <5> QED BY <3>2, <3>3, <3>5, <4>1, <5>1, <5>2, <5>4
      <4>2. CASE Requester[r] # c
        BY <3>1, <3>2, <3>3, <3>5, <4>2 DEF ConsentInv, Consented
      <4> QED BY <4>1, <4>2
    <3>6. ASSUME NEW r \in Requests, content[r] = NoContent
          PROVE  Consented(r) => Consented(r)'
      BY <3>1, <3>2, <3>6 DEF Consented
    <3>7. ASSUME pass'.phase = "claim"
          PROVE  Covers(grant'[pass'.job[1]], pass'.policy, content'[pass'.job[1]])
      <4>1. pass.phase = "claim" /\ pass.job \in Jobs /\ jobState[pass.job] # "none"
        BY <1>1, <3>1, <3>7 DEF TypeOK, PassHolds, Working
      <4>2. content[pass.job[1]] # NoContent
        BY <4>1 DEF SendInv, RowsTogether
      <4> QED BY <3>1, <3>5, <4>1, <4>2 DEF ConsentInv
    <3> QED BY <3>1, <3>5, <3>6, <3>7 DEF ConsentInv
  <2> QED
    BY <1>2, <1>6, <2>1, <2>2, <2>3, <2>4, ConsentKept
       DEF CallStep, Authenticate, SubmitWritesNothing, PatchAddress, RetireAddress
<1>7. CASE DispatchFails \/ Crash
  BY <1>2, <1>4, <1>7, ConsentKept DEF DispatchFails, Crash
<1>8. CASE StepFails
  <2>1. CASE pass.phase = "settle"
    BY <1>2, <1>4, <1>8, <2>1, ConsentKept DEF StepFails
  <2>2. CASE pass' = [pass EXCEPT !.phase = "select", !.dueApprovals = {}]
    <3>1. pass'.phase # "claim"
      BY <1>1, <2>2 DEF TypeOK, PassRecord
    <3> QED BY <1>2, <1>8, <3>1, ConsentKept DEF StepFails
  <2>3. CASE pass' = [pass EXCEPT !.phase = "settle"]
    <3>1. pass'.phase # "claim"
      BY <1>1, <2>3 DEF TypeOK, PassRecord
    <3> QED BY <1>2, <1>8, <3>1, ConsentKept DEF StepFails
  <2> QED BY <1>8, <2>1, <2>2, <2>3 DEF StepFails
<1> QED
  BY <1>2, <1>5, <1>6, <1>7, <1>8, ConsentKept
     DEF Next, ApprovalComesDue, ClaimComesDue, ProviderSettles, vars

(* ConsentInv holds in every reachable state.                              *)
THEOREM ConsentInvariant == Spec => []ConsentInv
<1>1. Init => ConsentInv
  BY JobOfRequest DEF Init, IdlePass, ConsentInv
<1> QED BY <1>1, ConsentStep, SendInvariant, PTL DEF Spec

(* A message reaches the provider only if a policy in force since it was   *)
(* submitted let it out, or asked for an approval that was given: the      *)
(* policy the submitting call carried along is never enough.               *)
THEOREM MailNeedsConsent == Spec => []NoUnapprovedMail
<1>1. ConsentInv => NoUnapprovedMail
  BY DEF ConsentInv, NoUnapprovedMail
<1> QED BY <1>1, ConsentInvariant, PTL

-----------------------------------------------------------------------------
(* OutboundJobs implements MailPromise: every mail is held, cleared, tried *)
(* once, handed over once and settled as what happened to it.              *)

(* One mail's part of a step of MailPromise. *)
MailStep(j) ==
  \/ Promise!Submit(j) \/ Promise!Clear(j) \/ Promise!Reject(j)
  \/ Promise!Try(j) \/ Promise!HandOver(j) \/ Promise!Arrive(j)
  \/ Promise!Settle(j) \/ Promise!Stay(j)

(* rejectUndispatched rejects mails nobody has, and no others.             *)
LEMMA RejectIsMailStep ==
  ASSUME SendInv, NEW ms, NEW class, NEW ap, NEW j \in Jobs,
         RejectUndispatched(ms, class, jobState, failure, ap),
         provider' = provider
  PROVE  MailStep(j)
<1>1. jobState'[j] = IF Rejects(ms, jobState, j) THEN "rejected" ELSE jobState[j]
  BY DEF RejectUndispatched
<1>2. jobState[j] \in Undispatched => provider[j] = "none"
  BY DEF SendInv, HandedOver
<1>3. CASE Rejects(ms, jobState, j)
  BY <1>1, <1>2, <1>3 DEF Rejects, Undispatched, MailStep, Promise!Reject
<1>4. CASE ~ Rejects(ms, jobState, j)
  BY <1>1, <1>4 DEF MailStep, Promise!Stay
<1> QED BY <1>3, <1>4

(* Every step of the store, the pass and the provider moves each mail by a *)
(* step of the promise, or not at all.                                     *)
LEMMA PromiseStep ==
  ASSUME SendInv, [Next]_vars, NEW j \in Jobs
  PROVE  MailStep(j)
<1> USE JobOfRequest
<1>1. TypeOK /\ PassHolds /\ HandedOver(j)
  BY DEF SendInv
<1>2. UNCHANGED <<jobState, provider>> => MailStep(j)
  BY DEF MailStep, Promise!Stay
<1>3. CASE PassStep
  <2>1. CASE ExpireDueApprovals \/ PrepareRejects \/ ClaimRefused
    BY <2>1, RejectIsMailStep DEF ExpireDueApprovals, PrepareRejects, ClaimRefused
  <2>2. CASE ClaimJob
    <3>1. /\ jobState[pass.job] = "ready" /\ provider' = provider
          /\ jobState'[j] = IF j = pass.job THEN "in_flight" ELSE jobState[j]
      BY <1>1, <2>2 DEF ClaimJob, TypeOK
    <3>2. CASE j = pass.job
      BY <1>1, <3>1, <3>2 DEF HandedOver, Undispatched, MailStep, Promise!Try
    <3>3. CASE j # pass.job
      BY <3>1, <3>3 DEF MailStep, Promise!Stay
    <3> QED BY <3>2, <3>3
  <2>3. CASE CallProvider
    <3>1. /\ jobState[pass.job] = "in_flight" /\ provider[pass.job] = "none"
          /\ jobState' = jobState
          /\ provider'[j] = IF j = pass.job THEN "transit" ELSE provider[j]
      BY <1>1, <2>3 DEF CallProvider, TypeOK, PassHolds
    <3>2. CASE j = pass.job
      BY <3>1, <3>2 DEF MailStep, Promise!HandOver
    <3>3. CASE j # pass.job
      BY <3>1, <3>3 DEF MailStep, Promise!Stay
    <3> QED BY <3>2, <3>3
  <2>4. ASSUME NEW outcome \in Settled, CompleteAttempt(outcome) PROVE MailStep(j)
    <3> DEFINE ms == GivesUpOn(pass.job, outcome)
    <3>1. /\ jobState[pass.job] = "in_flight"
          /\ jobState'[j] = IF j = pass.job THEN outcome
                            ELSE IF Rejects(ms, jobState, j)
                            THEN "rejected" ELSE jobState[j]
      BY <2>4, CompleteEffect
    <3>2. provider' = provider /\ Possible(outcome, provider[pass.job])
      BY <2>4 DEF CompleteAttempt
    <3> HIDE DEF ms
    <3>3. CASE j = pass.job
      BY <3>1, <3>2, <3>3 DEF Possible, Settled, MailStep, Promise!Settle
    <3>4. CASE j # pass.job /\ Rejects(ms, jobState, j)
      BY <1>1, <3>1, <3>2, <3>4
         DEF HandedOver, Rejects, Undispatched, MailStep, Promise!Reject
    <3>5. CASE j # pass.job /\ ~ Rejects(ms, jobState, j)
      BY <3>1, <3>2, <3>5 DEF MailStep, Promise!Stay
    <3> QED BY <3>3, <3>4, <3>5
  <2>5. CASE SettleAbandonedClaims
    <3>1. /\ jobState'[j] = IF Abandoned(j) THEN "unknown" ELSE jobState[j]
          /\ provider' = provider
      BY <2>5 DEF SettleAbandonedClaims, AbandonedBecomes
    <3>2. CASE Abandoned(j)
      BY <3>1, <3>2 DEF Abandoned, MailStep, Promise!Settle
    <3>3. CASE ~ Abandoned(j)
      BY <3>1, <3>3 DEF MailStep, Promise!Stay
    <3> QED BY <3>2, <3>3
  <2> QED
    BY <1>2, <1>3, <2>1, <2>2, <2>3, <2>4, <2>5
       DEF PassStep, StartPass, SelectReadyJobs, ReadDispatch, PreparePasses,
           ReadPolicy, ClaimFindsJobGone, FinishSends
<1>4. CASE CallStep
  <2>1. ASSUME NEW r \in Requests, NEW c \in Contents, SubmitOutbound(r, c)
        PROVE  MailStep(j)
    <3> DEFINE held == NeedsApproval(caller[r], c)
    <3>1. /\ jobState[MessageJob(r)] = "none"
          /\ jobState[NotificationJob(r)] = "none"
      BY <2>1 DEF SendInv, RowsTogether, SubmitOutbound
    <3>2. /\ jobState'[MessageJob(r)] = IF held THEN "waiting_approval" ELSE "ready"
          /\ jobState'[NotificationJob(r)] = IF held THEN "ready" ELSE "none"
          /\ j \notin {MessageJob(r), NotificationJob(r)} => jobState'[j] = jobState[j]
          /\ provider' = provider
      BY <1>1, <2>1 DEF SubmitOutbound, TypeOK
    <3> HIDE DEF held
    <3>3. CASE j \in {MessageJob(r), NotificationJob(r)} /\ jobState'[j] # "none"
      BY <3>1, <3>2, <3>3 DEF MailStep, Promise!Submit
    <3>4. CASE j \notin {MessageJob(r), NotificationJob(r)} \/ jobState'[j] = "none"
      BY <3>1, <3>2, <3>4 DEF MailStep, Promise!Stay
    <3> QED BY <3>3, <3>4
  <2>2. ASSUME NEW r \in Requests, NEW decision \in {"approved", "denied"},
               DecideApproval(r, decision)
        PROVE  MailStep(j)
    <3>1. CASE decision = "denied"
      BY <2>2, <3>1, RejectIsMailStep DEF DecideApproval
    <3>2. CASE decision = "approved"
      <4>1. /\ jobState[MessageJob(r)] = "waiting_approval" /\ provider' = provider
            /\ jobState'[j] = IF j = MessageJob(r) THEN "ready" ELSE jobState[j]
        BY <1>1, <2>2, <3>2 DEF DecideApproval, TypeOK
      <4>2. CASE j = MessageJob(r)
        BY <4>1, <4>2 DEF MailStep, Promise!Clear
      <4>3. CASE j # MessageJob(r)
        BY <4>1, <4>3 DEF MailStep, Promise!Stay
      <4> QED BY <4>2, <4>3
    <3> QED BY <3>1, <3>2
  <2>3. ASSUME NEW ms \in SUBSET Requests, SoftDeleteThread(ms) PROVE MailStep(j)
    BY <2>3, RejectIsMailStep DEF SoftDeleteThread
  <2> QED
    BY <1>2, <1>4, <2>1, <2>2, <2>3
       DEF CallStep, Authenticate, SubmitWritesNothing, PatchAddress,
           RetireAddress, SetPolicy
<1>5. ASSUME NEW k \in Jobs, NEW fate \in {"delivered", "refused"},
             ProviderSettles(k, fate)
      PROVE  MailStep(j)
  <2>1. /\ provider[k] = "transit" /\ jobState' = jobState
        /\ provider'[j] = IF j = k THEN fate ELSE provider[j]
    BY <1>1, <1>5 DEF ProviderSettles, TypeOK
  <2>2. CASE j = k
    BY <2>1, <2>2 DEF MailStep, Promise!Arrive
  <2>3. CASE j # k
    BY <2>1, <2>3 DEF MailStep, Promise!Stay
  <2> QED BY <2>2, <2>3
<1> QED
  BY <1>2, <1>3, <1>4, <1>5
     DEF Next, ApprovalComesDue, ClaimComesDue, DispatchFails, StepFails,
         Crash, vars

(* The account store keeps its promise about every mail: OutboundJobs      *)
(* implements MailPromise.                                                 *)
THEOREM StoreKeepsPromise == Spec => KeepsPromise
<1>1. Init => Promise!Init
  BY DEF Init, Promise!Init
<1>2. SendInv /\ [Next]_vars => [Promise!Next]_<<jobState, provider>>
  <2> SUFFICES ASSUME SendInv, [Next]_vars PROVE Promise!Next
    OBVIOUS
  <2>1. TypeOK'
    BY SendStep DEF SendInv
  <2>2. \A j \in Jobs : MailStep(j)
    BY PromiseStep
  <2> QED BY <2>1, <2>2 DEF TypeOK, JobStates, MailStep, Promise!Next
<1> QED BY <1>1, <1>2, SendInvariant, PTL DEF Spec, KeepsPromise, Promise!Spec

=============================================================================
