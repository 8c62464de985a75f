# A model of AgentMail (umail)

TLA+ specifications of the mail service in `src/`, checked with TLC on small
instances, and theorems about them, proved with TLAPS for every value of the
constants.  The code is the reference: every definition names the lines it
models in `PROJECT.json`.

## 1. The system

One Cloudflare Worker serves the HTTP API, the MCP endpoint and the operator's
web console, receives mail over SMTP and consumes the `MailIndex` queue.  It
hosts one Durable Object, the `AccountStore`: a SQLite database whose calls are
synchronous transactions, and whose one alarm does the work that is due.  A D1
database (`AuthDb`) keeps sign-ins, OAuth grants and the policies of MCP
clients; an R2 bucket (`MailArchive`) keeps raw mail.  Cloudflare sends mail,
routes incoming mail and keeps the routing rules.  A CLI talks to the HTTP API.

Two facts shape everything below.  A store call is atomic, but everything
around it awaits: the pass of the alarm, a reception and the indexing of a
receipt read the store, call somebody else, and write the store afterwards,
while other calls run in between.  And the object can die at any await.

### Components

| component (source) | state | operations | who it talks to | what is hard | what makes it correct |
|---|---|---|---|---|---|
| Outbound jobs and approvals (`account/jobs.ts`, `mail/dispatch.ts`, `mail/email-sender.ts`) | `outbound_jobs`, `approval_requests`, the running pass | submitOutbound, decideApproval, expireDueApprovals, claimJob, completeAttempt, settleAbandonedClaims, rejectUndispatched | the provider; `AuthDb` for the client's policy | crash after the provider took the mail; late answers; policy changed meanwhile; a notification that is refused | sent at most once; nothing leaves without a policy or a decision; the two tables stay in step; the stored state is true; every message settles |
| Send policy (`principal-authorization.ts`, `authorizeOutbound`, `mcpGrant`) | `mcpPolicy` in D1 | authorize at submission and again at the claim | submission, the pass | the policy read is older than the claim | a sent message was allowed by a policy in force since its submission |
| Inbound mail (`mail/inbound.ts`, `mail/process-index.ts`, `account/commands.ts`) | `inbound_receipts`, `messages`, the archive, the queue | reception, forward, register, index, redrive | the sending server, the forward's target, R2, the queue | the sending server retries; the queue delivers twice or late; crash between archive, row, forward and queue | what was accepted is never lost, forwarded at most once per mail and target, indexed exactly when its receipt says so |
| Due work and the alarm (`account/due-work.ts`, `account/worker.ts`) | the alarm, the pass | armDueWork, runDueWork, start | every table with a due time | calls write and arm during a pass; a failing step; a crash between a call's commit and its arming | no due row without an alarm; stuck work does not spin it |
| Recipient routing (`account/recipient-routing.ts`, `mail/recipient-rules.ts`) | `mailbox_routes`, Cloudflare's rules | reconcile, create, retire, retry | Cloudflare's rule API, whose answers may be lost | a retirement while the rule is being created; edits by others; redeployments | a ready route is what Cloudflare has; no rule is lost, doubled or stolen |
| Mailbox administration (`account/administration.ts`) | `mailboxes` | createAddress, patchAddress, setAddressForwarding, retireAddress, retryAddressRouting | routing, reception, dispatch | state changes while mail is on its way | the next reception, claim or pass sees the change |
| Conversations (`account/threading.ts`, `account/queries.ts`) | `messages.thread_id`, read and deleted marks | linkThread, markThreadRead, softDeleteThread, listings | both mail directions | mail arrives in any order, threads merge, a scope sees part of a thread, lists change between two pages | messages that share an id are one thread; every list, count and single read shows the same; deletion cancels what is undispatched |
| Client access (`auth/access.ts`, `auth/options.ts`) | consents, policies, tokens in D1 | consent, setPolicy, revoke, authenticate | the OAuth provider | consent and policy are two writes; a screen, a save and a revocation interleave | no access without a policy; a policy stays with the consent it was chosen for |
| HTTP API, MCP and submission (`api/`), Web console (`web/`), CLI commands | a handler's principal and progress; a CLI command's tries | each operation over three surfaces, reply recipients, destination registration | the store, the archive, Cloudflare's destination addresses | a handler's calls interleave with others; lost answers; retries of a submission | answers stay in the caller's scope; one job for a request id; the CLI reports what is so |
| CLI credentials (`cli/src/auth.ts`, `credential-store.ts`) | one file and its lock directory | login, refresh, logout | the OAuth server | several processes; one killed or suspended with the lock | two commands do not use up each other's token; logout removes only what it revoked, and for good |
| Recipient cutover (`cli/src/recipient-cutover.ts`), receiving domains (`mail/receiving-domain.ts`) | the shared zone, its rules and catch-all | inspect, execute; adopt, create, remove a domain | Cloudflare, the HTTP API | inspection and change are separate calls; others edit the zone | mail of a live mailbox has a rule when the catch-all goes; nothing of others is taken over |
| Provisioning (`auth/provisioning.ts`), deployment | the operator's account, the static clients, the operator the Worker serves | statements that each deploy repeats | D1, Better Auth | a deploy that dies half-way; sign-ins meanwhile | a new password ends what the old one opened; a served operator is provisioned |
| HTML policy, address parsing (`mail/html-policy.ts`, `mailbox-address.ts`) | none | pure functions | - | unusual input | size limits |
| API contract, migrations, tooling | none that others do not model | rendering, parsing, declarations | - | - | - |

### How they interact

A client's submission is authorized with the policy its call authenticated
with and written by `submitOutbound` as a job that is `ready`, or as one that
waits, together with an approval and a second job for the mail that asks the
operator for it.  The call then sets the alarm.  The alarm's pass expires
approvals, sends a batch of ready jobs, settles claims of passes that died,
redrives receipts and reconciles routes, in this order, and sets the alarm
again.  Sending reads the client's policy from D1, claims the job in a
transaction that authorizes it once more, calls the provider and writes the
answer.  Incoming mail is archived, registered as a receipt, forwarded at most
once, and queued; the consumer parses it and writes the message and the
receipt's new state in one transaction.  A receipt that stays behind is queued
again by the pass.

A request of the operator or of an MCP client is admitted with a principal and
its policy, which its handler keeps to its end, and turned into one or more
calls of the store, the archive and Cloudflare.  A deploy provisions the auth
database and prepares the receiving domain side by side, then deploys the
Worker.

## 2. The modules

| module | models | extends or uses |
|---|---|---|
| `SendPolicy` | `authorizeOutbound` and the policy's fields, as operators | |
| `OutboundJobs` | the outbound tables, the calls on them, the pass's first three steps and the provider | `SendPolicy` |
| `MailPromise` | what the store promises of one mail, without jobs, passes or claims | |
| `InboundMail` | reception, receipts, the archive, the queue, its consumer and the redrive | |
| `RecipientRouting` | the routes, the pass's last step call by call, Cloudflare's rules | |
| `DueWork` | the alarm, the calls that set it, the whole pass over the due times of all five kinds of rows | |
| `Conversations` | messages, threads, read state and deletion, the lists page by page | |
| `Credentials` | the CLI's credential file and lock, the commands that use them, the OAuth server's tokens | |
| `Access` | consents, their policies, the clients page, revocation | `SendPolicy` |
| `Operations` | every operation of the API, the MCP tools and the console, call by call; the CLI's submission | `Access` |
| `Provisioning` | provisionAuth statement by statement, and what Better Auth grants beside it | |
| `Cutover` | a shared receiving zone, the receiving domain, the cutover command | |
| `Deployment` | deploys: the two composed with the Worker and the look at the catch-all | `Provisioning`, `Cutover` |
| `MC...` | the instances for TLC | the module they are named after |
| `OutboundJobsProofs`, `InboundMailProofs`, `RecipientRoutingProofs`, `DueWorkProofs`, `ConversationsProofs`, `CredentialsProofs` | proofs about the module they name | |
| `OperationsProofs`, `DeploymentProofs` | proofs about the module they name and those it composes | |

`OutboundJobs`, `InboundMail` and `RecipientRouting` each look at the tables of
one kind of row in detail and take from the alarm only that a pass comes while
something is due.  `DueWork` is the other half: it keeps of each row only its
due time and the states the alarm looks at, and shows that such a pass does
come.  The rows do not refer to one another across the tables, so that nothing
is lost by not taking the product of the four.

### OutboundJobs

State: per request the message, its two jobs (`MessageJob`, `NotificationJob`)
with state, failure class and claim, its approval; per client the policy in
force; the mailboxes; the pass with what it has read so far; and, as history,
how often each job's mail was handed over and what the provider did with it.
Each store call is one action.  `dispatchJob` is five: `ReadDispatch`,
`ReadPolicy`, `ClaimJob` (or its refusals), `CallProvider`, `CompleteAttempt`,
since others run at each await.  The provider takes, refuses or drops the mail
(`ProviderSettles`), and its answer may be lost or come after the claim was
settled.  `StepFails`, `DispatchFails` and `Crash` may happen at every point of
the pass.  Due times are events (`ApprovalComesDue`, `ClaimComesDue`).

`MailPromise` says the same of one mail in four actions.  The refinement maps
jobs and history to it, and `KeepsPromise` is checked and proved.

### InboundMail

A receipt's id is the digest of its envelope and content, so receipts are given
as a set and a redelivery meets the same row.  A `Delivery` is one run of the
email handler through its phases: archive, register, claim the forward, forward,
record the outcome, enqueue, answer; it may fail at every await, and the
sending server may then deliver again.  The queue is a set of receipts that may
be taken again and again (at least once, in any order).  A consumer prepares
the mail, stores its parts, and commits `acceptInbound` or
`failInboundReceiptPolicy`; retries, giving up and duplicates are
`IndexingFails` and another take.  What the MIME parser finds in a mail is a
constant (`Mime`: whether it parses, nests too deeply, how many attachments,
how much to store); `PrepareInbound` applies the code's limits to it.
Sanitizing may fail and shrink what is stored, so that two runs on one mail can
come to different verdicts.

### RecipientRouting

A call to Cloudflare has two steps, its effect and its answer, and either may
be missing: a write that arrives after its call timed out is an edit by
somebody else.  The row's `retry_after` is kept as scheduled, due or none; the
backoff's length is left out.  One zone stands for all; what a later deployment
configures is a variable.  `meddled`, `stale` and `asked` are history.

### DueWork

All times are relative to now; a `Tick` brings each nearer by one.  What has
been due for longer than a pass may take is not told apart.  A call that writes
due rows and its arming are two steps (`callAndArm` runs the second after the
first, and other calls, the pass or a crash come in between); calls that can
only take rows out of the alarm's reach do not arm it.  A pass computes with
the time it started at, and `armDueWork` at its end uses that start too: the
minute after a failure counts from there.  A mail that asks for a review is
the `notice` of its message.  A pass of the alarm, once dead, is repeated by
Cloudflare (the alarm is due again).

### Conversations

A message mentions Message-IDs: its own, the one it replies to, those it
references.  `LinkThread` is the statement sequence of `linkThread`: it collects
for each mentioned id one stored message, takes the oldest thread among them and
moves the others' messages there.  It runs when mail arrives, when a message is
submitted and when a sent one learns its own Message-ID.  The three lists are
one operator each, with the code's filters and order; a walk reads one page at
a time, each from the cursor the last one gave, while mail arrives, merges, is
read and deleted.  `ListsAgree` compares what the list of threads, its
counts, a thread's pages, the plain list and the single reads show, each of
which filters in a statement of its own.

### Credentials

One action for each call to the file system or the server.  `acquireLock` is
`MakeLock`, `FindStale`, `BreakLock`, `LockNotAcquired`: looking at a lock and
removing it are two calls.  A process may be killed anywhere (the lock stays),
fail (it is released) or lose an answer (the server has rotated a token that
the file does not learn of: `gone`).  Nothing bounds how long a process stays under
the lock: it makes two requests there, whose timeout covers the headers only,
and it may be suspended.  Two kinds of removal take a lock from a process at
work, and history records both: `raced`, that a lock was removed that was not
the one found stale, and `overrun`, that the one found stale was of a process
that goes on (section 5).  The properties of the tokens and of logout
speak of behaviours in which neither has happened (`Undisturbed`); that every
command ends is said of all.

### Access and Operations

`Access` has the consent screen (the provider grants the consent; the hook then
looks the consent up, looks for a policy and writes one, in three calls), a
save of the clients page (the list, the check, the write) and the revocation
(one batch).  A policy form's lists are sets of entries that may hold what is no
address; `PolicyFromForm` is the code's function.  `chosenFor` is history: the
consent a stored policy was chosen for.

`Operations` has a slot for each request being served.  `OperatorAsks` and
`ClientAsks` admit it, with the policy read for this request; then each
call of the handler is one step (`At`, `GoTo`), and its answer is a code with
the mailboxes and messages it tells about.  Any call may fail, also after its
effect (`RequestFails`).  The constants `Tools`, `CliCommands` and
`ConsolePages` are what each surface can ask for.  A reply's recipients are
derived from its parent's (`DeriveReplyRecipients`).  The CLI's submission
(`CliRuns` to `CliLosesConnection`) repeats itself when its connection drops,
while the server goes on with the first attempt.  A message is its own thread
here, and a submitted job stays as it is: `Conversations` and `OutboundJobs`
have those.  A stored job is a row with an id of its own.  The table's unique
key is left out: it would turn a second row into an error, and `OneJobPerRequestId`
shows that the look-up before the insertion leaves none to refuse.  `gone` is
history: the messages that were deleted when a request came in.

### Provisioning, Cutover and Deployment

`Provisioning` has the two lookups, the one batch and the static statements of
`provisionAuth`.  Better Auth is modelled as this code uses it: a request
authenticates with the password or with something granted before and writes
what it grants later, so that it may be in progress when the password changes;
such a grant is marked `late`.  Access tokens, which are looked up nowhere and
live five minutes, are left out.

`Cutover` has the zone (whether routing is enabled and has its DKIM record, and
the installation's own child domain), the rules and the catch-all, which others
edit at any time.  `changed` and `since` are history: what others, or new
mailboxes, changed since the code's last look.  `Deployment` runs provisioning
beside the domain's steps, then the Worker, then the look at the catch-all,
which changes nothing (`PreserveCatchAll`); what the deployment tool stores of
it is left out.  A deploy may die at every point.  The operator runs one deploy at a time: two at
once are not modelled.

## 3. The runs

| run | instance | distinct states | what it shows |
|---|---|---|---|
| `one` | one request of a client with two policies, 2 faults | 285 thousand | outbound safety, the refinement of `MailPromise`, and that every message settles |
| `policies` | two mailboxes, two recipients, six policies; or two requests and a batch of one | 851 thousand | no message leaves that no policy in force let out; one message's end does not touch the other's rows |
| `inbound` | two mails, two deliveries, two consumers, two forward targets, 2 faults | 366 thousand | forwarded once, told truthfully, kept once accepted, indexed exactly when its receipt says so, settled in the end |
| `routing` | two mailboxes, one with a rule to take over, 2 faults, 1 edit by others | 401 thousand | ready routes are true, rules can be found again, every intent settles, only the mailbox's own rules are changed |
| `routing_intent` | one mailbox | (violation) | see Findings |
| `due` | a message with its notice, a receipt, a route, a send batch of one, 2 faults | 177 thousand | no due row without an alarm; stuck work does not spin; what is due is taken up and ends |
| `conversations` | four messages that link, three messages of two mailboxes that are read | 36 thousand | threads are connected components; walks are complete; lists agree; scopes are respected |
| `credentials` | two processes, two sign-ins, 1 fault | 205 thousand | up to the first lock that is taken from its process: a refused token was lost; logout is final and removes only what was revoked; and every command ends, also after that |
| `credentials_lock` | two processes, one of them killed earlier | (violation) | see Findings |
| `clients` | one client, two screens, one save, two mailboxes, two messages, two requests, the CLI | 319 thousand | policies stay with their consents; answers stay in scope; one row for a request id; forwarding only to what is registered; the CLI tells the truth |
| `clients_retry` | the same | (violation) | see Findings |
| `deployment` | three deploys, two emails, two passwords, two mailboxes | 113 thousand | a new password ends the old one's grants; a served operator is provisioned; no mailbox loses its mail; nothing of others is taken over |

Every property of a passing run is violated by at least one plausible slip in
the code: the mutants in `PROJECT.json`, defined beside the action they change.

**Bounds.**  A run explores several small instances in one: the state
constraint of its `MC` module names the alternatives (`OneQuestion`,
`OneOrTheOther`, `LinkingOrReading`, `Region`...), and a behaviour is followed
as long as it stays within one of them.  They part what does not touch the same
state (a client's consents and the forwarding of a mailbox; a message and a
route), so nothing is lost but size.  Where a constraint cuts behaviours of a
liveness property, it does so for a choice of the environment (what arrives,
what is asked for, what others edit), after which the property is not checked
further, but for `credentials`, see below.

`MaxFaults` (`MaxDeaths`) is the number of failed steps and crashes in a
behaviour (in `InboundMail`: of failed indexing and redrive steps and of queue
duplicates; a reception may fail at each of its awaits without a bound).  One
reaches each single failure at each await, two reach a failure in the recovery
from a failure; `policies` has none, since `one` does.  One or two requests,
mails and mailboxes are enough because rows of different ones meet only in a
batch and in the pass that works on them.  `BatchSize`, the redrive's limit and
the page size are one, so that they bite; in `due` only the limit of sends does,
since it has one receipt and one route, and `DueWork`'s proofs cover every limit;
in `routing` the limit is two, since which of the due routes a pass takes is
left open there, and a pass that always takes the same one would starve the
other, which the code's oldest-first order excludes.  `MaxArms` (calls between
commit and arming) and `MaxPass` (ticks in a pass) are one: enough for a call
that arms during or after the pass, and for a pass that ends with stale times.
Four messages and two ids are enough for every merge of three threads in any
order; three messages of two mailboxes for pages whose rows share an instant.
Two processes are enough for every race for the lock, two requests for a
submission that overtakes its repetition, two consents for a policy that could
go to the wrong one, and three deploys for one that dies between two that do
not.  `MaxGrants` is two, and emails, passwords and mailboxes are symmetric in
`deployment`, which checks no liveness.

The safety properties of `credentials` hold up to the first lock that is taken
from its process (`Undisturbed`); `credentials_lock` shows one of the two ways
there, and section 5 tells of the other.  Beyond it `EveryCommandEnds` is
checked with one sign-in whose token is not rotated.

**Deadlock** is checked except for `InboundMail`, `RecipientRouting`,
`Conversations` and `Deployment`, which really may stop: when all mail has
settled, all routes have, all messages of the instance are there, or the last
deploy has failed, nothing is left to do.

**Fairness.**
- `OutboundJobs`: a pass starts while work is due and runs on to its end or
  dies, and deadlines pass.  `DueWork` shows that the alarm does this.  Nobody
  has to decide an approval, and the provider need not answer.
- `InboundMail`: the queue delivers what it holds, a run of the handler goes on,
  the clock runs, the alarm fires.  Nobody has to deliver a mail again.
- `RecipientRouting`: the pass goes on and a scheduled retry comes due.  The
  operator need not ask for anything.
- `DueWork`: Cloudflare fires a due alarm, a pass goes on or dies, a call that
  committed arms or dies, an object that died is started again by the next call
  or alarm, and the clock runs.  No call need be made.  `DueRowsAreTakenUp`
  for routes supposes that the operator stops asking at some point, since each
  request makes the route due again.
- `Credentials`: a process that runs goes on, and time passes.  A process that
  waits for a stale lock succeeds in removing it in the end (strong fairness):
  `acquireLock` tries again without a deadline while the removal fails, so a
  directory that can never be written to keeps it waiting.  A process whose
  deadline has passed gives up in the end (strong fairness): it does not while
  every lock that it meets is stale, but a lock is young for `LOCK_STALE`, 30 s,
  and who waits looks every `LOCK_RETRY`, 25 ms.

The other modules check safety only: a handler, a deploy or a walk that is left
alone ends because it is finite.

## 4. The proofs

Every safety property that a passing run checks is also a theorem.  The
theorems hold for every value of the constants that satisfies the module's
assumption (`SendAssumption`, `InboundAssumption`, `RoutingAssumption`,
`DueWorkAssumption`, `ConversationsAssumption`, `CredentialsAssumption`,
`AccessAssumption`, `OperationsAssumption`, `ProvisioningAssumption`,
`DeploymentAssumption`): any sets of requests, mailboxes, clients,
policies, receipts, messages, Message-IDs, processes and rules, any page and
batch sizes, delays and numbers of faults.  Most of an assumption says what the
constants are.  One says more: in `ConversationsAssumption` messages are
finitely many (a page counts the rows before each row).

| theorem | property | rests on |
|---|---|---|
| `TypeCorrect`, `SentAtMostOnce`, `TablesInStep`, `WaitingStaysDecidable`, `StatesTellTheTruth` | `TypeOK`, `AtMostOnce`, `ApprovalInStep`, `WaitingIsDecidable`, `StateTellsTheTruth` | `SendInv` |
| `ApprovalsDecidedOnce`, `FailuresExplained`, `DeletionIsFinal` | `DecidedOnce`, `FailureIsExplained`, `DeletedStaysUnsent` | `OutcomeInv` |
| `MailNeedsConsent` | `NoUnapprovedMail` | `ConsentInv` |
| `StoreKeepsPromise` | `KeepsPromise`, the refinement of `MailPromise` | `SendInv` |
| `InboundTypeCorrect`, `NothingAcceptedIsLost`, `MessagesMatchReceipts`, `ReceiptsNeverGoBack` | `TypeOK`, `AcceptedIsKept`, `MessageIffIndexed`, `ReceiptsMoveOn` | `KeepInv` |
| `MailForwardedOnce`, `ForwardsTellTheTruth` | `ForwardedOnce`, `ForwardTellsTheTruth` | `ForwardInv` |
| `RoutingTypeCorrect`, `ReadyRoutesAreTrue`, `RulesStayFindable`, `ForeignRulesUntouched` | `TypeOK`, `ReadyTellsTheTruth`, `RulesCanBeFound`, `OnlyOwnRulesTouched` | `RoutingInv` |
| `DueWorkTypes`, `NoRowIsForgotten`, `StuckWorkWaits` | `TypeOK`, `AlarmCoversWork`, `NoSpin` | `DueInv` |
| `ConversationsTypeCorrect`, `ThreadsJoinWhatIsShared`, `ThreadsAreFounded`, `NothingIsSplit` | `TypeOK`, `ThreadsAreComponents`, `FoundedByOldest`, `ThreadsNeverSplit` | `IInv` (`ThreadsInv`) |
| `ReadersKeepToTheirScope`, `DeletedIsNeverReady`, `NoRowIsPassedOver`, `ReadersAgree` | `ScopeIsRespected`, `DeletedIsNotReady`, `WalksAreComplete`, `ListsAgree` | `IInv` (`Rejects`, `WalkKnows`) |
| `CredentialsTypeCorrect`, `LockExcludes`, `NoTokenUsedUp`, `LogoutsAreFinal`, `OnlyRevokedRemoved` | `TypeOK`, `Exclusive`, `RefusedOnlyIfLost`, `LogoutIsFinal`, `RemovesOnlyRevoked` | `LockInv` with `TokensInv`, as long as `Undisturbed` |
| `AccessTypeCorrect`, `PoliciesAreForTheirConsents`, `ConsentsAreSaved` | `AccessTypeOK`, `PolicyIsForItsConsent`, `NoConsentLeftWithoutPolicy` | `AccessInv` |
| `AnswersKeepToTheirScope`, `RequestIdsHaveOneJob`, `ReportsAreTrue`, `ForwardingIsRegistered` | `AnswersStayInScope`, `OneJobPerRequestId`, `CliTellsTheTruth`, `ForwardsToRegistered` | `RequestInv`, `JobsInv`, `CliInv`, `ForwardInv` of `OperationsProofs` |
| `CutoverLosesNoMail`, `NothingTakenOver` | `NoMailboxLosesItsMail`, `TakesNothingOver` | `ZoneInv` |
| `OldPasswordsOpenNothing`, `OperatorIsServed` | `OldPasswordOpensNothing`, `ServedOperatorIsProvisioned` | `AuthInv` |
| `DeploymentTypeCorrect` | the types of `Provisioning`, `Cutover` and `Deployment` | `ZoneInv`, `AuthInv` |

`AtMostOnce`, `StateTellsTheTruth`, `DecidedOnce`, `ReceiptsMoveOn`,
`FoundedByOldest`, `DeletedIsNotReady`, `Exclusive` and most type invariants are
proved and in no run: the runs spend their time on what they do not follow from
(`KeepsPromise`, `ApprovalInStep`, `MessageIffIndexed`, `ThreadsAreComponents`,
`DeletedStaysUnsent`, `RefusedOnlyIfLost`).

**Why stronger invariants.**
- *At most once* is not inductive: it needs that a job whose mail was handed
  over is claimed or settled, and that the pass, while it is before the
  provider call, holds a claim nobody else could take (`SendInv`).
- *Consent* must relate what the pass has read to what was in force: a policy
  read by the pass, and the one a submission was authorized with, were in force
  at some time since the submission (`ConsentInv`).
- *Kept mail* must say, for each phase of a delivery and a consumer, what is
  already in the archive, in the table and in the queue (`KeepInv`).
- *True routes* must say at every await of the pass which of the rules it has
  seen can still be what it saw (`RoutingInv`).
- *No row is forgotten* speaks only of the moments when no pass runs and no
  call has yet to arm; it is nearly inductive, since arming reads the tables in
  the same turn.  *No spin* needs a record of what the pass has finished:
  `StillMeansDone` says that, as long as nothing else happens, each kind a pass
  has been through has nothing due or is noted as failed.
- *Threads are components* speaks of one table; a merge has to keep it when the
  query takes any one hit of each Message-ID.  `ThreadsInv` says that messages
  that share an id are together and that no part of a thread can be told from
  the rest.  In the middle of a call all messages but one satisfy it
  (`TogetherBut`): since the hits of an id are together, linking the thread of
  any one of them links them all (`LinkedThreadsLink`).  `Founded` makes the
  linked ids messages of the table, so that there is an oldest.
- *Walks are complete*: what has stayed in the list was seen or is beyond the
  cursor (`WalkKnows`).  Two pages adjoin (`PagesAdjoin`) because the first rows
  of a finite ordered set come before the others, and are all of it if one more
  would be the same (`FirstComeFirst`, `FirstAreAll`): the induction these need
  is the library's theorem that strict inclusion of finite sets is well founded.
- *One process under the lock* follows from each holding a lock of its own
  (`OwnsLock`), and *no token is used up* needs where each token is: carried by
  one process, in the file, or given up (`TokensInv`).  Both hold up to the
  first lock that is taken from its process (`Undisturbed`, see section 5); the
  theorems say so, and assume nothing of how long a process holds a lock.
- *Policies and consents* need what each screen and edit has looked up
  (`ScreenKnows`, `EditKnows`), *one job* what each submission has found
  (`JobsInv`), *true reports* what the command line client has heard
  (`CliInv`).
- *The cutover* needs, at each call of the command, which mailboxes it has seen
  with a rule (`ToolKnows`); *the operator is served* which of the statics a
  run of provisionAuth has written (`ProvisionKnows`).

A step theorem has one case for each action and cites the lemmas of the
operators it uses; the temporal step is the last.

**Only model-checked.**  The liveness properties `EverySubmissionSettles`,
`EveryReceiptSettles`, `RoutesSettle`, `EveryJobEnds`, `DueRowsAreTakenUp` and
`EveryCommandEnds`: fairness and ENABLED are out of the prover's reach.

## 5. Findings

`routing_intent` (`RetirementIsScheduled`).  A comment in `recipient-routing.ts`
(line 140) says that a retirement during a rule's creation must schedule the
rule's deletion.  When Cloudflare's answer to the creation does not confirm the
rule, the pass writes `error` without a retry over the row, also when the
mailbox has retired meanwhile: the deletion that the retirement had scheduled
is gone until the operator asks for a retry.  `RoutesSettle` holds because it
counts such an error as the operator's to resolve.

`credentials_lock` (`Serialised`).  `acquireLock` finds a lock stale with one
call and removes it with another.  Of two processes that wait behind a killed
one, the first removes the stale lock and makes its own; the second, which had
looked before, removes that one.  Both are then under the lock, against the
comment of `withLock` (`credential-store.ts:50`), and may present the same
refresh token.

`clients_retry` (`RetryReturnsTheJob`).  A submission resolves its sender and is
authorized before its request id is looked up.  When the mailbox was paused, or
the policy narrowed, after the first attempt, the repetition is refused although
the job exists, and the caller may take the message for unsent.  README.md
(line 111) calls the resubmission the safe retry after a lost response.

Twice the properties claim less than a comment or a document says; neither has a
run of its own:
- A lock is removed because it is older than `LOCK_STALE`, also while its
  process is at work (`overrun`, in `Undisturbed`): that process makes two
  requests under the lock, whose timeout covers the headers only, its calls to
  the file system have none, and it may be suspended.  The comment of
  `acquireLock` (`credential-store.ts:176`) speaks of a lock left behind by a
  killed process.  The process goes on beside the next one, and its release
  removes the other's lock.  After a removal of this kind, or of the one
  `credentials_lock` shows, two commands may use up one token, a refresh may
  write back after a logout, and a logout may remove a file that another
  process has just written: `RefusedOnlyIfLost`, `LogoutIsFinal` and
  `RemovesOnlyRevoked` are claimed only up to there.
- A new password deletes the sessions and grants that are there at the batch.  A
  sign-in, or an exchange, that was authenticated before and writes its session
  or grant afterwards keeps it (`late`, in `OldPasswordOpensNothing`).
  `docs/operations.md` (line 28) says without exception that a new password and
  a deploy invalidate sessions and grants.

Other exemptions, which contradict no statement of the code:
- A consent screen whose consent was revoked and granted again meanwhile saves
  its policy for the newer consent (`Overtaken`, in `PolicyIsForItsConsent`).
- A mailbox made, or a rule that others took away, after the cutover command
  had asked for mailboxes and rules is not looked at again when the catch-all
  is disabled (`since`, in `NoMailboxLosesItsMail`).
- What others change between the last look and the write, at the catch-all and
  at the zone's settings, is overwritten (`changed`, in `TakesNothingOver`):
  Cloudflare has no conditional write.
- The refusal to send from a mailbox outside the policy is `mailbox_forbidden`
  for a mailbox that can send and `from_address_unknown` for one that is not
  there, so that it says which addresses are mailboxes (in
  `AnswersStayInScope`).

And `saveClientRoute` reports "saved" also when `setPolicy` found the consent
gone.

## 6. Not modelled, and why

- The HTML policy and its parser: a pure function of a document tree, tested by
  example.  The models keep what callers see of it: it may fail or shrink a
  message, or refuse a submission.
- Rendering and styles of the console, wording, subjects, links and tokens of
  mails, JSON projection beyond what an answer tells about, CLI output.
- Parsing of addresses, instants and paging parameters: equal normalised values
  are equal model values.
- Registration of OAuth clients, device codes' polling, sessions' and tokens'
  formats: the OAuth provider's, used here without state of their own.
- The provider of the legacy seed rules: it keeps what is there, as the
  catch-all's does; and what the deployment tool stores of either between two
  deploys.
- That a policy is narrowed or revoked while a request is being served: the
  request goes on with the one it was admitted with, and the properties compare
  with that one.
- Cryptography: receipt ids, token hashes and Message-IDs are model values that
  are equal when their inputs are.
- Lengths of backoffs and deadlines beyond their order: events, or small
  numbers of ticks.
- Migrations: one transaction each, before the object serves a call.
- A batch in which ten jobs fail on every pass keeps younger jobs from being
  tried: the models bound the failures, and `EverySubmissionSettles` speaks of
  finitely many.

## 7. Plan

The components' models are in place, and their safety properties are proved.
What remains, in this order:

1. Abstract specifications of `Conversations` (a partition whose classes only
   join) and `InboundMail` (mail that is kept once it is accepted), and proofs
   that the modules implement them, as for `MailPromise`.
2. Lemmas about `SendPolicy`: narrowing a policy never lets more out.
3. The HTML policy as a recursive function over small trees: what is kept is
   allowed, and sanitizing twice changes nothing more.
