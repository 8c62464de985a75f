---------------------------- MODULE OutboundJobs ----------------------------
(***************************************************************************)
(* Sending mail: the account store's outbound jobs and approvals, the      *)
(* store calls that change them, and the alarm's due-work pass that sends  *)
(* them.  Every store call is one SQLite transaction and so one action;    *)
(* the pass awaits between its transactions, and any other call may run    *)
(* at each of those awaits.                                                *)
(*                                                                         *)
(* A message is named by the request (requester and requestId) that        *)
(* submitted it: the schema's UNIQUE key allows one message job per        *)
(* request.  Its jobs are the message itself and, when it waits for        *)
(* approval, the notification mail that carries the review link.           *)
(*                                                                         *)
(* Deadlines are events: an approval's expires_at and a claim's            *)
(* claim_expires_at pass at any moment after they were set, so the model   *)
(* has no clock and covers every TTL and every delay.                      *)
(***************************************************************************)
EXTENDS Naturals, FiniteSets, SendPolicy

CONSTANTS
  Requests,     \* (requester, requestId) pairs
  Clients,      \* MCP clients, each with a policy in the auth database
  Operator,     \* the operator as a requester, who needs no grant
  Requester,    \* [Requests -> Clients \cup {Operator}]
  Contents,     \* what a request can ask to send
  MailboxOf,    \* [Contents -> Mailboxes], the sending mailbox
  RecipientsOf, \* [Contents -> SUBSET Recipients], To and Cc
  Policies,     \* the policies the operator chooses from
  NoContent,    \* no message stored under a request
  Idle,         \* a request no API call is working on
  NoJob,        \* the pass works on no job
  BatchSize,    \* SEND_BATCH_SIZE: jobs one pass sends
  MaxFaults     \* bound: crashes and failed steps in a behavior

ASSUME SendAssumption ==
  /\ Requester \in [Requests -> Clients \cup {Operator}]
  /\ Operator \notin Clients
  /\ MailboxOf \in [Contents -> Mailboxes]
  /\ RecipientsOf \in [Contents -> SUBSET Recipients]
  /\ Policies \subseteq Policy
  /\ NoPolicy \notin Policy
  /\ NoContent \notin Contents
  /\ Idle \notin Policy \cup {NoPolicy}
  /\ NoJob \notin Requests \X {"message", "approval_notification"}
  /\ BatchSize \in Nat \ {0}
  /\ MaxFaults \in Nat

Jobs == Requests \X {"message", "approval_notification"}

MessageJob(r) == <<r, "message">>
NotificationJob(r) == <<r, "approval_notification">>

JobStates == {"none", "waiting_approval", "ready", "in_flight",
              "accepted", "rejected", "unknown"}
FailureClasses == {"none", "denied", "expired", "cancelled",
                   "notification_failed", "policy", "provider"}
ApprovalStates == {"none", "pending", "approved", "denied", "expired",
                   "cancelled"}
Phases == {"idle", "expire", "select", "next", "prepare", "policy", "claim",
           "send", "await", "settle"}
Working == {"prepare", "policy", "claim", "send", "await"}

Grants == {"none", "with_approval", "unattended"}

Undispatched == {"waiting_approval", "ready"}
Settled == {"accepted", "rejected", "unknown"}

VARIABLES
  \* the account store's tables
  content,      \* the message stored for each request
  deleted,      \* requests whose message has deleted_at set
  jobState,
  failure,      \* failure_class
  attempt,      \* attempt_id: ids are random, so the number of the attempt
  approval,     \* approval_requests.state
  mailbox,      \* addresses: active, paused (inactive) or retired
  \* deadlines that have passed
  approvalDue,  \* requests whose approval is past expires_at
  claimDue,     \* jobs past their claim_expires_at
  \* the auth database
  policy,
  \* API calls: the requester's policy as read when the call authenticated
  caller,
  \* the due-work pass
  pass,
  \* the mail provider
  calls,        \* how many times each job's mail was handed over
  provider,     \* what became of it
  \* history and bounds
  grant,        \* the most any policy in force since a request's submission
                \* has let its message do
  faults

vars == <<content, deleted, jobState, failure, attempt, approval, mailbox,
          approvalDue, claimDue, policy, caller, pass, calls, provider, grant, faults>>

PassRecord == [phase : Phases,
               dueApprovals : SUBSET Requests, dueClaims : SUBSET Jobs,
               queue : SUBSET Jobs, job : Jobs \cup {NoJob},
               approvalSeen : BOOLEAN, policy : Policy \cup {NoPolicy},
               attempt : Nat]

IdlePass == [phase |-> "idle", dueApprovals |-> {}, dueClaims |-> {},
             queue |-> {}, job |-> NoJob, approvalSeen |-> FALSE,
             policy |-> NoPolicy, attempt |-> 0]

TypeOK ==
  /\ content \in [Requests -> Contents \cup {NoContent}]
  /\ deleted \in SUBSET Requests
  /\ jobState \in [Jobs -> JobStates]
  /\ failure \in [Jobs -> FailureClasses]
  /\ attempt \in [Jobs -> Nat]
  /\ approval \in [Requests -> ApprovalStates]
  /\ mailbox \in [Mailboxes -> {"active", "paused", "retired"}]
  /\ approvalDue \in SUBSET Requests
  /\ claimDue \in SUBSET Jobs
  /\ policy \in [Clients -> Policies \cup {NoPolicy}]
  /\ caller \in [Requests -> Policy \cup {Idle}]
  /\ pass \in PassRecord
  /\ pass.phase \in Working => pass.job \in Jobs
  /\ calls \in [Jobs -> Nat]
  /\ provider \in [Jobs -> {"none", "transit", "delivered", "refused"}]
  /\ grant \in [Requests -> Grants]
  /\ faults \in 0 .. MaxFaults
-----------------------------------------------------------------------------
Init ==
  /\ content = [r \in Requests |-> NoContent]
  /\ deleted = {}
  /\ jobState = [j \in Jobs |-> "none"]
  /\ failure = [j \in Jobs |-> "none"]
  /\ attempt = [j \in Jobs |-> 0]
  /\ approval = [r \in Requests |-> "none"]
  /\ mailbox = [m \in Mailboxes |-> "active"]
  /\ approvalDue = {}
  /\ claimDue = {}
  /\ policy \in [Clients -> Policies \cup {NoPolicy}]
  /\ caller = [r \in Requests |-> Idle]
  /\ pass = IdlePass
  /\ calls = [j \in Jobs |-> 0]
  /\ provider = [j \in Jobs |-> "none"]
  /\ grant = [r \in Requests |-> "none"]
  /\ faults = 0

-----------------------------------------------------------------------------
(* The policy in force for a requester, and what a policy says of a        *)
(* request's message.                                                      *)
PolicyFor(r) ==
  IF Requester[r] = Operator THEN OPERATOR_POLICY ELSE policy[Requester[r]]

CanSendFrom(c) == mailbox[MailboxOf[c]] = "active"

IsDenied(p, c) == Denied(p, MailboxOf[c], RecipientsOf[c])
IsAllowed(p, c) == Allowed(p, MailboxOf[c], RecipientsOf[c])
NeedsApproval(p, c) == RequiresApproval(p, MailboxOf[c], RecipientsOf[c])

(* History: the more generous of a grant so far and a policy now in force. *)
BestGrant(g, p, c) ==
  IF g = "unattended" \/ IsAllowed(p, c) THEN "unattended"
  ELSE IF g = "with_approval" \/ NeedsApproval(p, c) THEN "with_approval"
  ELSE "none"

-----------------------------------------------------------------------------
(* Slips the properties are there to catch: each is a definition below as  *)
(* a plausible mistake would have it.  The specification uses none.        *)

(* Rejects: claimed jobs too, held jobs only, jobs of any message. *)
RejectsClaimed(ms, js, j) == j[1] \in ms /\ js[j] \in Undispatched \cup {"in_flight"}
RejectsHeld(ms, js, j) == j[1] \in ms /\ js[j] = "waiting_approval"
RejectsAll(ms, js, j) == js[j] \in Undispatched

(* Cancels: no approval, resolved ones too, those of any message. *)
CancelsNone(ms, js, ap, r) == FALSE
CancelsResolved(ms, js, ap, r) ==
  ap[r] # "none" /\ r \in ms /\ js[MessageJob(r)] \in Undispatched
CancelsAll(ms, js, ap, r) == ap[r] = "pending" /\ js[MessageJob(r)] \in Undispatched

(* Expiring: approvals past their time, whatever became of them. *)
ExpiringResolved == pass.dueApprovals

(* ClaimRejected: the claim trusts submit for the approval, or for *)
(* everything but the approval.                                    *)
ClaimTrustsSubmit(j) ==
  \/ ~ CanSendFrom(content[j[1]])
  \/ IsDenied(pass.policy, content[j[1]])

ClaimForgetsDenial(j) ==
  \/ ~ CanSendFrom(content[j[1]])
  \/ /\ j[2] = "message"
     /\ NeedsApproval(pass.policy, content[j[1]])
     /\ approval[j[1]] # "approved"

(* Possible: no answer counts as a rejection. *)
PossibleTimeoutRejects(outcome, fate) ==
  \/ outcome = "accepted" /\ fate = "delivered"
  \/ outcome = "rejected" /\ fate \in {"refused", "transit"}
  \/ outcome = "unknown"

(* GivesUpOn: a refused notification ends only itself. *)
GivesUpOnNothing(j, outcome) == {}

(* Abandoned claims: never settled, sent again, or given the name of an *)
(* approval's state.                                                    *)
AbandonedNever(j) == FALSE
AbandonedIsRetried == "ready"
AbandonedIsExpired == "expired"

-----------------------------------------------------------------------------
(* What rejectUndispatched touches: jobs of these messages not yet sent,   *)
(* and the pending approvals of message jobs among them.  js and ap are    *)
(* the tables as the calling transaction has left them so far.             *)
Rejects(ms, js, j) == j[1] \in ms /\ js[j] \in Undispatched
Cancels(ms, js, ap, r) == ap[r] = "pending" /\ Rejects(ms, js, MessageJob(r))

RejectUndispatched(ms, class, js, fl, ap) ==
  /\ approval' = [r \in Requests |->
       IF Cancels(ms, js, ap, r) THEN "cancelled" ELSE ap[r]]
  /\ jobState' = [j \in Jobs |-> IF Rejects(ms, js, j) THEN "rejected" ELSE js[j]]
  /\ failure' = [j \in Jobs |-> IF Rejects(ms, js, j) THEN class ELSE fl[j]]

-----------------------------------------------------------------------------
(* API calls.                                                              *)

(* A send request authenticates: its requester's policy is read now and    *)
(* handed to the store only after further awaits.                          *)
Authenticate(r) ==
  /\ caller[r] = Idle
  /\ PolicyFor(r) # NoPolicy
  /\ caller' = [caller EXCEPT ![r] = PolicyFor(r)]
  /\ UNCHANGED <<content, deleted, jobState, failure, attempt, approval,
                 mailbox, approvalDue, claimDue, policy, pass, calls, provider,
                 grant, faults>>

(* The store refuses the call, or answers with the job the request already *)
(* has (or a conflict, when its content differs): nothing is written.  A   *)
(* call that is lost on its way looks the same.                            *)
SubmitWritesNothing(r) ==
  /\ caller[r] # Idle
  /\ caller' = [caller EXCEPT ![r] = Idle]
  /\ UNCHANGED <<content, deleted, jobState, failure, attempt, approval,
                 mailbox, approvalDue, claimDue, policy, pass, calls, provider,
                 grant, faults>>

(* submitOutbound writes the message and its jobs in one transaction.      *)
SubmitOutbound(r, c) ==
  LET held == NeedsApproval(caller[r], c) IN
  /\ caller[r] # Idle
  /\ CanSendFrom(c)
  /\ ~ IsDenied(caller[r], c)
  /\ content[r] = NoContent
  /\ content' = [content EXCEPT ![r] = c]
  /\ jobState' = [jobState EXCEPT
       ![MessageJob(r)] = IF held THEN "waiting_approval" ELSE "ready",
       ![NotificationJob(r)] = IF held THEN "ready" ELSE "none"]
  /\ approval' = [approval EXCEPT ![r] = IF held THEN "pending" ELSE "none"]
  /\ caller' = [caller EXCEPT ![r] = Idle]
  /\ grant' = [grant EXCEPT ![r] = BestGrant("none", PolicyFor(r), c)]
  /\ UNCHANGED <<deleted, failure, attempt, mailbox, approvalDue, claimDue,
                 policy, pass, calls, provider, faults>>

(* The operator decides through the review link, which only a delivered    *)
(* notification carries.                                                   *)
DecideApproval(r, decision) ==
  /\ provider[NotificationJob(r)] = "delivered"
  /\ approval[r] = "pending"
  /\ r \notin approvalDue
  /\ jobState[MessageJob(r)] = "waiting_approval"
  /\ \/ /\ decision = "approved"
        /\ approval' = [approval EXCEPT ![r] = "approved"]
        /\ jobState' = [jobState EXCEPT ![MessageJob(r)] = "ready"]
        /\ UNCHANGED failure
     \/ /\ decision = "denied"
        /\ RejectUndispatched({r}, "denied", jobState, failure,
             [approval EXCEPT ![r] = "denied"])
  /\ UNCHANGED <<content, deleted, attempt, mailbox, approvalDue, claimDue,
                 policy, caller, pass, calls, provider, grant, faults>>

(* softDeleteThread: all live messages of one conversation.  Which         *)
(* messages share a conversation is left open here.                        *)
SoftDeleteThread(ms) ==
  /\ ms # {}
  /\ \A r \in ms : content[r] # NoContent /\ r \notin deleted
  /\ RejectUndispatched(ms, "cancelled", jobState, failure, approval)
  /\ deleted' = deleted \cup ms
  /\ UNCHANGED <<content, attempt, mailbox, approvalDue, claimDue, policy,
                 caller, pass, calls, provider, grant, faults>>

(* patchAddress pauses or resumes a mailbox that is not retired, and       *)
(* retireAddress ends it for good.                                         *)
PatchAddress(m, to) ==
  /\ {mailbox[m], to} = {"active", "paused"}
  /\ mailbox' = [mailbox EXCEPT ![m] = to]
  /\ UNCHANGED <<content, deleted, jobState, failure, attempt, approval,
                 approvalDue, claimDue, policy, caller, pass, calls, provider,
                 grant, faults>>

RetireAddress(m) ==
  /\ mailbox[m] # "retired"
  /\ mailbox' = [mailbox EXCEPT ![m] = "retired"]
  /\ UNCHANGED <<content, deleted, jobState, failure, attempt, approval,
                 approvalDue, claimDue, policy, caller, pass, calls, provider,
                 grant, faults>>

(* The operator grants, changes or revokes a client's policy.              *)
SetPolicy(c, p) ==
  /\ p # policy[c]
  /\ policy' = [policy EXCEPT ![c] = p]
  /\ grant' = [r \in Requests |->
       IF Requester[r] = c /\ content[r] # NoContent
         THEN BestGrant(grant[r], p, content[r]) ELSE grant[r]]
  /\ UNCHANGED <<content, deleted, jobState, failure, attempt, approval,
                 mailbox, approvalDue, claimDue, caller, pass, calls, provider,
                 faults>>

-----------------------------------------------------------------------------
(* Time.                                                                   *)

ApprovalComesDue(r) ==
  /\ approval[r] = "pending"
  /\ r \notin approvalDue
  /\ approvalDue' = approvalDue \cup {r}
  /\ UNCHANGED <<content, deleted, jobState, failure, attempt, approval,
                 mailbox, claimDue, policy, caller, pass, calls, provider,
                 grant, faults>>

ClaimComesDue(j) ==
  /\ jobState[j] = "in_flight"
  /\ j \notin claimDue
  /\ claimDue' = claimDue \cup {j}
  /\ UNCHANGED <<content, deleted, jobState, failure, attempt, approval,
                 mailbox, approvalDue, policy, caller, pass, calls, provider,
                 grant, faults>>

-----------------------------------------------------------------------------
(* The due-work pass.  The platform runs one alarm at a time.              *)

(* The pass takes its nowMs once: what came due later waits for the next.  *)
StartPass ==
  /\ pass.phase = "idle"
  /\ pass' = [pass EXCEPT !.phase = "expire", !.dueApprovals = approvalDue,
                          !.dueClaims = claimDue]
  /\ UNCHANGED <<content, deleted, jobState, failure, attempt, approval,
                 mailbox, approvalDue, claimDue, policy, caller, calls,
                 provider, grant, faults>>

Expiring == {r \in pass.dueApprovals : approval[r] = "pending"}

ExpireDueApprovals ==
  /\ pass.phase = "expire"
  /\ RejectUndispatched(Expiring, "expired", jobState, failure,
       [r \in Requests |-> IF r \in Expiring THEN "expired" ELSE approval[r]])
  /\ pass' = [pass EXCEPT !.phase = "select", !.dueApprovals = {}]
  /\ UNCHANGED <<content, deleted, attempt, mailbox, approvalDue, claimDue,
                 policy, caller, calls, provider, grant, faults>>

(* readyJobIds: at most BatchSize ready jobs; which of them are oldest is  *)
(* left open.                                                              *)
SelectReadyJobs(queue) ==
  LET ready == {j \in Jobs : jobState[j] = "ready"} IN
  /\ pass.phase = "select"
  /\ queue \subseteq ready
  /\ Cardinality(queue) <= BatchSize
  /\ queue = ready \/ Cardinality(queue) = BatchSize
  /\ pass' = [pass EXCEPT !.phase = "next", !.queue = queue]
  /\ UNCHANGED <<content, deleted, jobState, failure, attempt, approval,
                 mailbox, approvalDue, claimDue, policy, caller, calls,
                 provider, grant, faults>>

(* dispatchJob reads the next job of the batch; a job that is no longer    *)
(* ready is passed over.                                                   *)
ReadDispatch(j) ==
  /\ pass.phase = "next"
  /\ j \in pass.queue
  /\ pass' =
       IF jobState[j] = "ready"
       THEN [pass EXCEPT !.phase = "prepare", !.queue = @ \ {j}, !.job = j,
                         !.approvalSeen = approval[j[1]] = "pending"]
       ELSE [pass EXCEPT !.queue = @ \ {j}]
  /\ UNCHANGED <<content, deleted, jobState, failure, attempt, approval,
                 mailbox, approvalDue, claimDue, policy, caller, calls,
                 provider, grant, faults>>

(* The pass is done with its job. *)
NextJob == [pass EXCEPT !.phase = "next", !.job = NoJob, !.approvalSeen = FALSE,
                        !.policy = NoPolicy, !.attempt = 0]

(* prepareDispatchMail: a notification needs a pending approval, and the   *)
(* HTML policy may refuse any mail.                                        *)
PreparePasses ==
  /\ pass.phase = "prepare"
  /\ pass.job[2] = "approval_notification" => pass.approvalSeen
  /\ pass' = [pass EXCEPT !.phase = "policy"]
  /\ UNCHANGED <<content, deleted, jobState, failure, attempt, approval,
                 mailbox, approvalDue, claimDue, policy, caller, calls,
                 provider, grant, faults>>

PrepareRejects ==
  /\ pass.phase = "prepare"
  /\ RejectUndispatched({pass.job[1]}, "policy", jobState, failure, approval)
  /\ pass' = NextJob
  /\ UNCHANGED <<content, deleted, attempt, mailbox, approvalDue, claimDue,
                 policy, caller, calls, provider, grant, faults>>

(* policyFor reads the auth database; the policy may change again before   *)
(* the claim uses it.                                                      *)
ReadPolicy ==
  /\ pass.phase = "policy"
  /\ pass' = [pass EXCEPT !.phase = "claim", !.policy = PolicyFor(pass.job[1])]
  /\ UNCHANGED <<content, deleted, jobState, failure, attempt, approval,
                 mailbox, approvalDue, claimDue, policy, caller, calls,
                 provider, grant, faults>>

(* claimRejection, on the mailbox and approval as they are now. *)
ClaimRejected(j) ==
  LET c == content[j[1]] IN
  \/ ~ CanSendFrom(c)
  \/ IsDenied(pass.policy, c)
  \/ /\ j[2] = "message"
     /\ NeedsApproval(pass.policy, c)
     /\ approval[j[1]] # "approved"

(* claimJob takes the job out of "ready", rejects it, or finds it gone.    *)
ClaimJob ==
  LET j == pass.job IN
  /\ pass.phase = "claim"
  /\ jobState[j] = "ready"
  /\ ~ ClaimRejected(j)
  /\ jobState' = [jobState EXCEPT ![j] = "in_flight"]
  /\ attempt' = [attempt EXCEPT ![j] = @ + 1]
  /\ pass' = [pass EXCEPT !.phase = "send", !.policy = NoPolicy,
                          !.approvalSeen = FALSE, !.attempt = attempt[j] + 1]
  /\ UNCHANGED <<content, deleted, failure, approval, mailbox, approvalDue,
                 claimDue, policy, caller, calls, provider, grant, faults>>

ClaimRefused ==
  LET j == pass.job IN
  /\ pass.phase = "claim"
  /\ jobState[j] = "ready"
  /\ ClaimRejected(j)
  /\ RejectUndispatched({j[1]}, "policy", jobState, failure, approval)
  /\ pass' = NextJob
  /\ UNCHANGED <<content, deleted, attempt, mailbox, approvalDue, claimDue,
                 policy, caller, calls, provider, grant, faults>>

ClaimFindsJobGone ==
  /\ pass.phase = "claim"
  /\ jobState[pass.job] # "ready"
  /\ pass' = NextJob
  /\ UNCHANGED <<content, deleted, jobState, failure, attempt, approval,
                 mailbox, approvalDue, claimDue, policy, caller, calls,
                 provider, grant, faults>>

(* The sender hands the mail to the provider and waits for its answer. *)
CallProvider ==
  /\ pass.phase = "send"
  /\ calls' = [calls EXCEPT ![pass.job] = @ + 1]
  /\ provider' = [provider EXCEPT ![pass.job] = "transit"]
  /\ pass' = [pass EXCEPT !.phase = "await"]
  /\ UNCHANGED <<content, deleted, jobState, failure, attempt, approval,
                 mailbox, approvalDue, claimDue, policy, caller, grant,
                 faults>>

(* What an answer means: accepted and rejected are the provider's word;    *)
(* anything else (a timeout, a lost answer) is unknown.                    *)
Possible(outcome, fate) ==
  \/ outcome = "accepted" /\ fate = "delivered"
  \/ outcome = "rejected" /\ fate = "refused"
  \/ outcome = "unknown"

(* completeAttempt: only the attempt that holds the job settles it, and a  *)
(* notification the provider refused gives up on its message.              *)
Holds(j) == jobState[j] = "in_flight" /\ attempt[j] = pass.attempt

GivesUpOn(j, outcome) ==
  IF Holds(j) /\ outcome = "rejected" /\ j[2] = "approval_notification"
    THEN {j[1]} ELSE {}

CompleteAttempt(outcome) ==
  LET j == pass.job
      settled == [jobState EXCEPT ![j] = IF Holds(j) THEN outcome ELSE @]
      explained == [failure EXCEPT
        ![j] = IF Holds(j) /\ outcome = "rejected" THEN "provider" ELSE @]
  IN
  /\ pass.phase = "await"
  /\ Possible(outcome, provider[j])
  /\ RejectUndispatched(GivesUpOn(j, outcome), "notification_failed",
                        settled, explained, approval)
  /\ pass' = NextJob
  /\ UNCHANGED <<content, deleted, attempt, mailbox, approvalDue, claimDue,
                 policy, caller, calls, provider, grant, faults>>

(* The batch is done. *)
FinishSends ==
  /\ pass.phase = "next"
  /\ pass.queue = {}
  /\ pass' = [pass EXCEPT !.phase = "settle"]
  /\ UNCHANGED <<content, deleted, jobState, failure, attempt, approval,
                 mailbox, approvalDue, claimDue, policy, caller, calls,
                 provider, grant, faults>>

(* settleAbandonedClaims: a claim past its expiry was interrupted, and its *)
(* mail may have gone out.                                                 *)
Abandoned(j) == jobState[j] = "in_flight" /\ j \in pass.dueClaims
AbandonedBecomes == "unknown"

SettleAbandonedClaims ==
  /\ pass.phase = "settle"
  /\ jobState' = [j \in Jobs |->
       IF Abandoned(j) THEN AbandonedBecomes ELSE jobState[j]]
  /\ pass' = IdlePass
  /\ UNCHANGED <<content, deleted, failure, attempt, approval, mailbox,
                 approvalDue, claimDue, policy, caller, calls, provider,
                 grant, faults>>

-----------------------------------------------------------------------------
(* Faults.                                                                 *)

(* A step of one job fails (the auth database, a key, the database write   *)
(* after the answer): it is logged and the pass goes on with the next job. *)
DispatchFails ==
  /\ pass.phase \in {"prepare", "policy", "claim", "await"}
  /\ faults < MaxFaults
  /\ faults' = faults + 1
  /\ pass' = NextJob
  /\ UNCHANGED <<content, deleted, jobState, failure, attempt, approval,
                 mailbox, approvalDue, claimDue, policy, caller, calls,
                 provider, grant>>

(* One of the pass's own transactions fails: it writes nothing, and the    *)
(* pass goes on with its next step.                                        *)
StepFails ==
  /\ faults < MaxFaults
  /\ faults' = faults + 1
  /\ \/ /\ pass.phase = "expire"
        /\ pass' = [pass EXCEPT !.phase = "select", !.dueApprovals = {}]
     \/ /\ pass.phase = "select"
        /\ pass' = [pass EXCEPT !.phase = "settle"]
     \/ /\ pass.phase = "settle"
        /\ pass' = IdlePass
  /\ UNCHANGED <<content, deleted, jobState, failure, attempt, approval,
                 mailbox, approvalDue, claimDue, policy, caller, calls,
                 provider, grant>>

(* The Durable Object dies: what it had not committed is gone, and the     *)
(* alarm fires again.                                                      *)
Crash ==
  /\ pass.phase # "idle"
  /\ faults < MaxFaults
  /\ faults' = faults + 1
  /\ pass' = IdlePass
  /\ UNCHANGED <<content, deleted, jobState, failure, attempt, approval,
                 mailbox, approvalDue, claimDue, policy, caller, calls,
                 provider, grant>>

-----------------------------------------------------------------------------
(* The mail provider, which goes on after the store has stopped waiting.   *)
ProviderSettles(j, fate) ==
  /\ provider[j] = "transit"
  /\ provider' = [provider EXCEPT ![j] = fate]
  /\ UNCHANGED <<content, deleted, jobState, failure, attempt, approval,
                 mailbox, approvalDue, claimDue, policy, caller, pass, calls,
                 grant, faults>>

-----------------------------------------------------------------------------
PassStep ==
  \/ StartPass
  \/ ExpireDueApprovals
  \/ \E queue \in SUBSET Jobs : SelectReadyJobs(queue)
  \/ \E j \in Jobs : ReadDispatch(j)
  \/ PreparePasses
  \/ PrepareRejects
  \/ ReadPolicy
  \/ ClaimJob
  \/ ClaimRefused
  \/ ClaimFindsJobGone
  \/ CallProvider
  \/ \E outcome \in Settled : CompleteAttempt(outcome)
  \/ FinishSends
  \/ SettleAbandonedClaims

CallStep ==
  \/ \E r \in Requests :
       \/ Authenticate(r)
       \/ SubmitWritesNothing(r)
       \/ \E c \in Contents : SubmitOutbound(r, c)
       \/ \E decision \in {"approved", "denied"} : DecideApproval(r, decision)
  \/ \E ms \in SUBSET Requests : SoftDeleteThread(ms)
  \/ \E m \in Mailboxes :
       \/ \E to \in {"active", "paused"} : PatchAddress(m, to)
       \/ RetireAddress(m)
  \/ \E c \in Clients, p \in Policies \cup {NoPolicy} : SetPolicy(c, p)

Next ==
  \/ PassStep
  \/ CallStep
  \/ \E r \in Requests : ApprovalComesDue(r)
  \/ \E j \in Jobs : ClaimComesDue(j)
  \/ \E j \in Jobs, fate \in {"delivered", "refused"} : ProviderSettles(j, fate)
  \/ DispatchFails
  \/ StepFails
  \/ Crash

Spec == Init /\ [][Next]_vars

(* The alarm is always set while work is due and a pass runs to its end    *)
(* unless the object dies; deadlines pass.  Nobody has to decide, and the  *)
(* provider need not answer.                                               *)
Fairness ==
  /\ WF_vars(PassStep)
  /\ \A r \in Requests : WF_vars(ApprovalComesDue(r))
  /\ \A j \in Jobs : WF_vars(ClaimComesDue(j))

FairSpec == Spec /\ Fairness

-----------------------------------------------------------------------------
(* Properties.                                                             *)

(* A job's mail is handed to the provider at most once, whatever crashes,  *)
(* failed steps and later passes do: the promise of claimJob's comment.    *)
AtMostOnce == \A j \in Jobs : calls[j] <= 1

(* The two tables stay in step: a message waits exactly while its approval *)
(* is pending, and an approval mail is ready to go only for a pending      *)
(* approval.  submitOutbound, decideApproval, rejectUndispatched and the   *)
(* expiry each write one side of this.                                     *)
ApprovalInStep ==
  \A r \in Requests :
    /\ approval[r] = "pending" <=> jobState[MessageJob(r)] = "waiting_approval"
    /\ jobState[NotificationJob(r)] = "ready" => approval[r] = "pending"

(* A waiting message can still be decided: its notification may yet arrive *)
(* (completeAttempt's and rejectUndispatched's rule for rejected ones).    *)
WaitingIsDecidable ==
  \A r \in Requests :
    jobState[MessageJob(r)] = "waiting_approval" =>
      /\ jobState[NotificationJob(r)] # "rejected"
      /\ provider[NotificationJob(r)] = "refused" =>
           jobState[NotificationJob(r)] \in {"in_flight", "unknown"}

(* A message shown as rejected never reached anyone and never will, and an *)
(* accepted one did: the send states the operator reads.                   *)
StateTellsTheTruth ==
  \A j \in Jobs :
    /\ jobState[j] = "rejected" => provider[j] \in {"none", "refused"}
    /\ jobState[j] = "accepted" => provider[j] = "delivered"
    /\ provider[j] # "none" => jobState[j] \in {"in_flight"} \cup Settled

(* The operator's word for a message: a policy in force since it was       *)
(* submitted let it out, or let it out with an approval that was given.    *)
Consented(r) ==
  \/ grant[r] = "unattended"
  \/ grant[r] = "with_approval" /\ approval[r] = "approved"

(* Mail leaves only on the operator's word.  The copy of the policy the    *)
(* submitting call carried does not count: claimJob asks again.            *)
NoUnapprovedMail ==
  \A r \in Requests :
    calls[MessageJob(r)] > 0 => Consented(r)

(* A deleted conversation has no mail left to send (softDeleteThread).     *)
DeletedStaysUnsent ==
  \A r \in deleted :
    /\ jobState[MessageJob(r)] \notin Undispatched
    /\ jobState[NotificationJob(r)] \notin Undispatched

(* The failure class names what really ended the message: a refusal and an *)
(* expiry match the approval, a cancellation the deletion, and a failed    *)
(* notification the provider's refusal of it.                              *)
Explained(r) ==
  LET class == failure[MessageJob(r)] IN
  /\ class = "denied" <=> approval[r] = "denied"
  /\ class = "expired" <=> approval[r] = "expired"
  /\ class = "cancelled" => r \in deleted
  /\ class = "notification_failed" =>
       /\ approval[r] = "cancelled"
       /\ provider[NotificationJob(r)] = "refused"
  /\ class = "none" <=> jobState[MessageJob(r)] # "rejected"

FailureIsExplained == \A r \in Requests : Explained(r)

(* An approval is resolved once: nothing overwrites the operator's         *)
(* decision or the expiry.                                                 *)
DecidedOnce ==
  [][\A r \in Requests :
       approval[r] \notin {"none", "pending"} => approval'[r] = approval[r]]_vars

(* Every mail, message or notification, goes through MailPromise's life:   *)
(* held, cleared, tried once, handed over once, and settled as what        *)
(* happened to it; nothing settled is ever touched again.                  *)
Promise == INSTANCE MailPromise WITH Mails <- Jobs, state <- jobState,
                                     fate <- provider
KeepsPromise == Promise!Spec

(* Every submitted message settles, whether or not anybody decides and     *)
(* however the provider answers.                                           *)
EverySubmissionSettles ==
  \A r \in Requests :
    content[r] # NoContent ~> jobState[MessageJob(r)] \in Settled

-----------------------------------------------------------------------------
(* The inductive invariants behind the safety properties.                  *)

(* One request's rows: a message and its jobs are written together, and a  *)
(* notification itself never waits.                                        *)
RowsTogether(r) ==
  /\ content[r] = NoContent <=> jobState[MessageJob(r)] = "none"
  /\ content[r] = NoContent => /\ jobState[NotificationJob(r)] = "none"
                               /\ approval[r] = "none"
  /\ jobState[NotificationJob(r)] # "waiting_approval"

InStep(r) ==
  /\ approval[r] = "pending" <=> jobState[MessageJob(r)] = "waiting_approval"
  /\ jobState[NotificationJob(r)] = "ready" => approval[r] = "pending"
  /\ approval[r] = "pending" => jobState[NotificationJob(r)] # "rejected"

(* What a job's state says of its mail. *)
HandedOver(j) ==
  /\ calls[j] = IF provider[j] = "none" THEN 0 ELSE 1
  /\ jobState[j] \in {"none"} \cup Undispatched => provider[j] = "none"
  /\ jobState[j] = "rejected" => provider[j] \in {"none", "refused"}
  /\ jobState[j] = "accepted" => provider[j] = "delivered"

(* The pass works on a stored job, and holds the claim it is sending under. *)
PassHolds ==
  /\ pass.phase \in Working => jobState[pass.job] # "none"
  /\ pass.phase \in {"send", "await"} =>
       /\ jobState[pass.job] = "in_flight"
       /\ attempt[pass.job] = pass.attempt
  /\ pass.phase = "send" => provider[pass.job] = "none"

SendInv ==
  /\ TypeOK
  /\ \A r \in Requests : RowsTogether(r) /\ InStep(r)
  /\ \A j \in Jobs : HandedOver(j)
  /\ PassHolds

(* What an approval says of its jobs. *)
Resolved(r) ==
  /\ approval[r] = "none" => jobState[NotificationJob(r)] = "none"
  /\ approval[r] = "approved" => provider[NotificationJob(r)] = "delivered"
  /\ approval[r] = "cancelled" => jobState[MessageJob(r)] = "rejected"

OutcomeInv ==
  /\ SendInv
  /\ DeletedStaysUnsent
  /\ \A r \in deleted : content[r] # NoContent
  /\ \A r \in Requests : Explained(r) /\ Resolved(r)

(* The grant history covers what a policy says of a stored message. *)
Covers(g, p, c) ==
  /\ IsAllowed(p, c) => g = "unattended"
  /\ NeedsApproval(p, c) => g # "none"

ConsentInv ==
  /\ \A r \in Requests :
       /\ content[r] # NoContent => Covers(grant[r], PolicyFor(r), content[r])
       /\ \/ calls[MessageJob(r)] > 0
          \/ jobState[MessageJob(r)] = "in_flight"
          => Consented(r)
  /\ pass.phase = "claim" =>
       Covers(grant[pass.job[1]], pass.policy, content[pass.job[1]])
=============================================================================
