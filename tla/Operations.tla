----------------------------- MODULE Operations -----------------------------
(***************************************************************************)
(* One request to AgentMail: the operator's, through the REST API or the   *)
(* console, or an MCP client's, through its tools.  A handler is admitted  *)
(* with a policy, keeps it to its end, and makes its store, archive and    *)
(* Cloudflare calls one by one, between which mail arrives, mailboxes,     *)
(* policies and other requests change.  Beside them one run of the command *)
(* line client submits a message and tries again when its connection drops. *)
(*                                                                         *)
(* An answer is its code and what it tells about: mailboxes and messages.  *)
(* A message is its own thread here (Conversations has the threads), and   *)
(* what becomes of a job is in OutboundJobs.                               *)
(***************************************************************************)
EXTENDS Access

CONSTANTS
  Operator,
  Messages, MailboxOf,   \* messages, and the mailbox each belongs to
  Inbound,               \* those that were received, and so are archived
  Senders,               \* mailboxes of domains that send
  Participants,          \* who each message is from and to
  Contents,              \* submissions: [from, parent, mode, to, flaw]
  NoMessage,
  RequestIds,
  Destinations, NoDestination,
  Requests,              \* slots for requests being served
  MaxLost                \* bound: answers and connections lost by the CLI

\* What can be wrong with a submission, apart from whom it is to.
Flaws == {"too_many_recipients", "html_unsafe", "html_too_complex"}

ASSUME OperationsAssumption ==
  /\ \A content \in Contents : content.flaw \in Flaws \cup {"none"}
  /\ Operator \notin Clients
  /\ MailboxOf \in [Messages -> Mailboxes]
  /\ Inbound \subseteq Messages
  /\ Senders \subseteq Mailboxes
  /\ Participants \in [Messages -> [{"from", "replyTo", "to", "cc"}
                                      -> SUBSET (Recipients \cup Mailboxes)]]
  /\ MaxLost \in Nat

VARIABLES
  mailbox,     \* addresses: none, active, paused, retired
  mail,        \* messages: none, unread, read, deleted
  forward,     \* forward_to
  registered,  \* Cloudflare's forwarding destinations
  jobs,        \* the rows of outbound_jobs
  request,
  cli,
  lost         \* bound

storeVars == <<mailbox, mail, forward, registered, jobs>>
vars == <<accessVars, storeVars, request, cli, lost>>

ReadOps == {"listMailboxes", "listThreads", "getThread", "getMessage",
            "readMessageSource", "readAttachment"}
MailOps == (ReadOps \ {"listMailboxes", "listThreads"})
             \cup {"markThreadRead", "markThreadUnread", "softDeleteThread"}
BoxOps == {"listMessages", "createAddress", "pause", "resume", "retireAddress",
           "removeForwarding"}

Ask == {[op |-> op] : op \in {"listMailboxes", "listSendingIdentities",
                              "listThreads", "listJobs"}}
   \cup [op : MailOps, mail : Messages]
   \cup [op : BoxOps, box : Mailboxes]
   \cup [op : {"setForwarding"}, box : Mailboxes, to : Destinations]
   \cup [op : {"getJob"}, id : RequestIds]
   \cup [op : {"submitMessage"}, id : RequestIds, content : Contents]

\* registerTools: what an MCP client can ask for.
Tools == {"listMailboxes", "listSendingIdentities", "listThreads", "listMessages",
          "getThread", "getMessage", "readMessageSource", "markThreadRead",
          "markThreadUnread", "submitMessage", "getJob"}

\* What the operator asks for with the command line, and in the console.
CliCommands == {ask.op : ask \in Ask} \ {"submitMessage"}
MailboxPages == {"listMailboxes", "createAddress", "pause", "resume",
                 "retireAddress", "setForwarding", "removeForwarding"}
MailPages == {"listThreads", "getThread", "getMessage", "readAttachment",
              "markThreadRead", "markThreadUnread", "softDeleteThread"}
ComposePages == {"listSendingIdentities", "getMessage", "getJob"}
ConsolePages == MailboxPages \cup MailPages \cup ComposePages

OperatorPolicy == [canRead |-> TRUE, mailboxIds |-> Mailboxes, sendMode |-> "allow",
                   recipientAllowlist |-> Recipients, preapprovedRecipients |-> {}]

Free == [at |-> "free"]
NoAnswer == [code |-> "none", boxes |-> {}, mail |-> {}]

\* A row has its own id, new with each insert, so two rows are two jobs even
\* if they agree in all else.  The table's unique key, which would abort such an
\* insert, is left out: the look-up before the insert has to do without it.
Job == [row : Nat, by : Clients \cup {Operator}, id : RequestIds, content : Contents]

\* missed: history, the ids of submissions that were sent and not answered.
Quiet == [at |-> "idle", missed |-> {}]

-----------------------------------------------------------------------------
(* Slips the properties are there to catch; the specification uses none.   *)

AllOf(r) == Mailboxes

LooksUpEarly(r) ==
  {j \in request[r].known : j.by = request[r].by /\ j.id = request[r].ask.id}

FailureIsRefusal(answer) == IF answer.code = "ok" THEN "ok" ELSE "refused"

ForwardsUnregistered(r) == TRUE

-----------------------------------------------------------------------------
(* A request's answer.                                                     *)

Serves(r, ops) ==
  request[r].at \notin {"free", "answered"} /\ request[r].ask.op \in ops

At(r, stage, op) == Serves(r, {op}) /\ request[r].at = stage

Answer(r, code, boxes, messages) ==
  request' = [request EXCEPT ![r] =
    [@ EXCEPT !.at = "answered",
              !.answer = [code |-> code, boxes |-> boxes, mail |-> messages]]]

Refuse(r, code) == Answer(r, code, {}, {})

GoTo(r, stage) == request' = [request EXCEPT ![r].at = stage]

AnswerMail(r, messages) ==
  Answer(r, "ok", {MailboxOf[x] : x \in messages}, messages)

Keeps == UNCHANGED <<accessVars, storeVars, cli, lost>>

CanRead(r) == request[r].policy.canRead

\* mailboxScopeOf
Scope(r) == request[r].policy.mailboxIds

\* What the store's queries find within a scope.
Visible(r) ==
  {x \in Messages : mail[x] \in {"read", "unread"} /\ MailboxOf[x] \in Scope(r)}

Sendable(m) == mailbox[m] = "active" /\ m \in Senders

-----------------------------------------------------------------------------
(* Admission.  known and gone are history: the jobs and the deleted messages *)
(* of the moment the request came in.                                      *)

Admit(r, by, policy, ask) ==
  request' = [request EXCEPT ![r] =
    [at |-> "begin", by |-> by, policy |-> policy, ask |-> ask, answer |-> NoAnswer,
     to |-> {}, known |-> IF ask.op = "submitMessage" THEN jobs ELSE {},
     gone |-> {x \in Messages : mail[x] = "deleted"}]]

\* withOperator and the REST bearer: the operator's own session or token.
OperatorAsks(r, ask) ==
  /\ request[r] = Free
  /\ ask.op \in CliCommands \cup ConsolePages \* submissions: CliSends
  /\ Admit(r, Operator, OperatorPolicy, ask)
  /\ Keeps

\* A valid token is not enough: the operator's grant is read for each request.
ClientAsks(r, c, ask) ==
  /\ request[r] = Free
  /\ ask.op \in Tools
  /\ "access" \in tokens[c]
  /\ McpGrant(c).kind = "policy"
  /\ Admit(r, c, McpGrant(c).policy, ask)
  /\ Keeps

\* Without a grant, or with one that waits for its policy, no handler runs.
ClientIsTurnedAway(r, c) ==
  /\ request[r] = Free
  /\ "access" \in tokens[c]
  /\ McpGrant(c).kind # "policy"
  /\ request' = [request EXCEPT ![r] =
       [at |-> "answered", by |-> c, policy |-> NoPolicy, ask |-> [op |-> "any"],
        answer |-> [NoAnswer EXCEPT !.code =
          IF McpGrant(c).kind = "none" THEN "revoked" ELSE "no_policy"],
        known |-> {}, gone |-> {}]]
  /\ Keeps

Delivered(r) ==
  /\ request[r].at = "answered"
  /\ cli.at = "wait" => cli.on # r
  /\ request' = [request EXCEPT ![r] = Free]
  /\ Keeps

-----------------------------------------------------------------------------
(* Reading.                                                                *)

\* The tool filters the whole list; the REST route is the operator's.
ListMailboxes(r) ==
  /\ At(r, "begin", "listMailboxes")
  /\ IF ~ CanRead(r) THEN Refuse(r, "read_denied")
     ELSE Answer(r, "ok", {m \in Scope(r) : mailbox[m] # "none"}, {})
  /\ Keeps

ListSendingIdentities(r) ==
  /\ At(r, "begin", "listSendingIdentities")
  /\ Answer(r, "ok", {m \in Scope(r) : Sendable(m)}, {})
  /\ Keeps

ListThreads(r) ==
  /\ At(r, "begin", "listThreads")
  /\ IF CanRead(r) THEN AnswerMail(r, Visible(r)) ELSE Refuse(r, "read_denied")
  /\ Keeps

GetThread(r, x) ==
  IF x \in Visible(r) THEN AnswerMail(r, {x}) ELSE Refuse(r, "thread_not_found")

ReadThread(r) ==
  /\ At(r, "begin", "getThread")
  /\ IF CanRead(r) THEN GetThread(r, request[r].ask.mail) ELSE Refuse(r, "read_denied")
  /\ Keeps

\* Marks the thread, then reads it with another call.
SetThreadReadState(r) ==
  LET ask == request[r].ask IN
  /\ Serves(r, {"markThreadRead", "markThreadUnread"})
  /\ \/ /\ request[r].at = "begin"
        /\ IF ~ CanRead(r) THEN Refuse(r, "read_denied") /\ UNCHANGED mail
           ELSE IF ask.mail \in Visible(r)
           THEN /\ mail' = [mail EXCEPT ![ask.mail] =
                     IF ask.op = "markThreadRead" THEN "read" ELSE "unread"]
                /\ GoTo(r, "reread")
           ELSE Refuse(r, "thread_not_found") /\ UNCHANGED mail
     \/ /\ request[r].at = "reread"
        /\ GetThread(r, ask.mail)
        /\ UNCHANGED mail
  /\ UNCHANGED <<accessVars, mailbox, forward, registered, jobs, cli, lost>>

SoftDeleteVisibleThread(r) ==
  LET x == request[r].ask.mail IN
  /\ At(r, "begin", "softDeleteThread")
  /\ IF x \in Visible(r)
     THEN mail' = [mail EXCEPT ![x] = "deleted"] /\ Answer(r, "ok", {}, {})
     ELSE Refuse(r, "thread_not_found") /\ UNCHANGED mail
  /\ UNCHANGED <<accessVars, mailbox, forward, registered, jobs, cli, lost>>

\* The mailbox is looked up first, in the caller's scope.
ListMessages(r) ==
  LET m == request[r].ask.box IN
  /\ Serves(r, {"listMessages"})
  /\ \/ /\ request[r].at = "begin"
        /\ IF ~ CanRead(r) THEN Refuse(r, "read_denied")
           ELSE IF m \in Scope(r) /\ mailbox[m] # "none" THEN GoTo(r, "list")
           ELSE Refuse(r, "mailbox_not_found")
     \/ /\ request[r].at = "list"
        /\ AnswerMail(r, {x \in Visible(r) : MailboxOf[x] = m})
  /\ Keeps

\* The summary and the body are two calls: a deletion may fall between them.
GetMessage(r) ==
  LET x == request[r].ask.mail IN
  /\ Serves(r, {"getMessage"})
  /\ \/ /\ request[r].at = "begin"
        /\ IF CanRead(r) THEN GoTo(r, IF x \in Visible(r) THEN "body" ELSE "none")
           ELSE Refuse(r, "read_denied")
     \/ /\ request[r].at \in {"body", "none"}
        /\ IF request[r].at = "body" /\ x \in Visible(r) THEN AnswerMail(r, {x})
           ELSE Refuse(r, "message_not_found")
  /\ Keeps

\* The archive answers what the store had when it was asked, or nothing.
ReadArchive(r, x, missing) ==
  /\ request[r].at = "archive"
  /\ \/ AnswerMail(r, {x})
     \/ Refuse(r, missing)
     \/ Refuse(r, "archive_unavailable")

ReadMessageSource(r) ==
  LET x == request[r].ask.mail IN
  /\ Serves(r, {"readMessageSource"})
  /\ \/ /\ request[r].at = "begin"
        /\ IF ~ CanRead(r) THEN Refuse(r, "read_denied")
           ELSE IF x \notin Visible(r) THEN Refuse(r, "message_not_found")
           ELSE IF x \in Inbound THEN GoTo(r, "archive")
           ELSE Answer(r, "no_archived_source", {MailboxOf[x]}, {})
     \/ ReadArchive(r, x, "source_not_found")
  /\ Keeps

ReadAttachment(r) ==
  LET x == request[r].ask.mail IN
  /\ Serves(r, {"readAttachment"})
  /\ \/ /\ request[r].at = "begin"
        /\ IF ~ CanRead(r) THEN Refuse(r, "read_denied")
           ELSE IF x \in Visible(r) THEN GoTo(r, "archive")
           ELSE Refuse(r, "attachment_not_found")
     \/ ReadArchive(r, x, "attachment_not_found")
  /\ Keeps

\* jobViewer: a client sees its own jobs, the operator every one.
Viewer(r) == request[r].by

Viewable(viewer) == {j \in jobs : viewer \in {j.by, Operator}}

GetOutboundJob(r) ==
  /\ At(r, "begin", "getJob")
  /\ Refuse(r, IF \E j \in Viewable(Viewer(r)) : j.id = request[r].ask.id
               THEN "ok" ELSE "job_not_found")

ListOutboundJobs(r) == At(r, "begin", "listJobs") /\ Refuse(r, "ok")

ReadJobs(r) == (GetOutboundJob(r) \/ ListOutboundJobs(r)) /\ Keeps

-----------------------------------------------------------------------------
(* The operator's mailboxes.                                               *)

SetMailbox(m, state) == mailbox' = [mailbox EXCEPT ![m] = state]

\* createAddress, patchAddress, retireAddress: a retired mailbox stays so.
ChangeMailbox(r) ==
  LET m == request[r].ask.box
      op == request[r].ask.op
      to == CASE op = "createAddress" -> "active"
              [] op = "resume" -> "active"
              [] op = "pause" -> "paused"
              [] OTHER -> "retired"
      from == CASE op = "createAddress" -> {"none"}
                [] op = "retireAddress" -> {"active", "paused", "retired"}
                [] OTHER -> {"active", "paused"}
  IN
  /\ Serves(r, {"createAddress", "resume", "pause", "retireAddress"})
  /\ IF mailbox[m] \in from
     THEN SetMailbox(m, to) /\ Answer(r, "ok", {m}, {})
     ELSE /\ Refuse(r, IF op = "createAddress" THEN "address_exists"
                       ELSE "mailbox_not_found")
          /\ UNCHANGED mailbox
  /\ UNCHANGED <<accessVars, mail, forward, registered, jobs, cli, lost>>

\* A destination has been registered before the mailbox forwards to it.
Registered(r) == request[r].at = "set"

\* Cloudflare's list, then its creation: which refuses what another call has
\* registered in between, and may succeed without an answer.
Ensure(r, to) ==
  \/ /\ request[r].at = "list"
     /\ \/ GoTo(r, IF to \in registered THEN "set" ELSE "create")
        \/ Refuse(r, "cloudflare_unavailable")
     /\ UNCHANGED registered
  \/ /\ request[r].at = "create"
     /\ \/ to \notin registered /\ GoTo(r, "set") /\ registered' = registered \cup {to}
        \/ Refuse(r, "forwarding_rejected") /\ UNCHANGED registered
        \/ /\ Refuse(r, "cloudflare_unavailable")
           /\ registered' \in {registered, registered \cup {to}}

SetForwarding(r) ==
  LET m == request[r].ask.box
      to == request[r].ask.to
  IN
  /\ Serves(r, {"setForwarding"})
  /\ \/ /\ request[r].at = "begin"
        /\ IF mailbox[m] = "none" THEN Refuse(r, "mailbox_not_found")
           ELSE GoTo(r, "list")
        /\ UNCHANGED <<forward, registered>>
     \/ Ensure(r, to) /\ UNCHANGED forward
     \/ /\ Registered(r)
        /\ forward' = [forward EXCEPT ![m] = to]
        /\ Answer(r, "ok", {m}, {})
        /\ UNCHANGED registered
  /\ UNCHANGED <<accessVars, mailbox, mail, jobs, cli, lost>>

RemoveForwarding(r) ==
  LET m == request[r].ask.box IN
  /\ Serves(r, {"removeForwarding"})
  /\ IF mailbox[m] = "none"
     THEN Refuse(r, "mailbox_not_found") /\ UNCHANGED forward
     ELSE /\ forward' = [forward EXCEPT ![m] = NoDestination]
          /\ Answer(r, "ok", {m}, {})
  /\ UNCHANGED <<accessVars, mailbox, mail, registered, jobs, cli, lost>>

-----------------------------------------------------------------------------
(* Submitting a message.                                                   *)

\* The checks made on what was asked before the store is.
Checked(r, to) ==
  LET flaw == request[r].ask.content.flaw IN
  IF flaw # "none" THEN Refuse(r, flaw)
  ELSE request' = [request EXCEPT ![r] = [@ EXCEPT !.at = "submit", !.to = to]]

\* requireSend and resolveSendingIdentity: a mailbox that could send is not
\* taken for unknown, also when the policy does not name it.
PrepareOutbound(r) ==
  LET content == request[r].ask.content IN
  /\ At(r, "begin", "submitMessage")
  /\ IF request[r].policy.sendMode = "deny" THEN Refuse(r, "send_denied")
     ELSE IF Sendable(content.from)
     THEN IF content.from \notin Scope(r)
          THEN Answer(r, "mailbox_forbidden", {content.from}, {})
          ELSE IF content.parent = NoMessage THEN Checked(r, content.to)
          ELSE GoTo(r, "parent")
     ELSE IF content.from \in Scope(r) THEN GoTo(r, "unusable")
     ELSE Refuse(r, "from_address_unknown")
  /\ Keeps

\* What keeps an allowed mailbox from sending, looked up with another call.
UnusableSender(r) ==
  LET m == request[r].ask.content.from IN
  /\ At(r, "unusable", "submitMessage")
  /\ IF mailbox[m] \in {"paused", "retired"}
     THEN Answer(r, "from_address_inactive", {m}, {})
     ELSE IF mailbox[m] # "none" /\ m \notin Senders
     THEN Answer(r, "sender_domain_receive_only", {m}, {})
     ELSE Refuse(r, "from_address_unknown")
  /\ Keeps

ReadReplyParent(r) ==
  /\ At(r, "parent", "submitMessage")
  /\ IF ~ CanRead(r) THEN Refuse(r, "read_denied")
     ELSE IF request[r].ask.content.parent \notin Visible(r)
     THEN Refuse(r, "message_not_found")
     ELSE GoTo(r, "recipients")
  /\ Keeps

\* The account's own mailboxes are left out of a reply, unless nobody else is
\* in it; the mailbox it is sent from always is.
DeriveReplyRecipients(x, mode, own, sending) ==
  LET who == Participants[x]
      Others(seed) == IF seed \ own # {} THEN seed \ own ELSE seed \ {sending}
      seed == IF x \notin Inbound THEN who.to
              ELSE IF who.replyTo # {} THEN who.replyTo ELSE who.from
      to == IF x \notin Inbound /\ Others(seed) = {} THEN who.from \ {sending}
            ELSE Others(seed)
      cc == IF x \notin Inbound THEN who.cc
            ELSE IF mode = "reply-all" THEN who.to \cup who.cc ELSE {}
  IN [to |-> to, cc |-> (cc \ own) \ to]

\* Mailboxes are never removed: its two calls see one set that holds the sender.
ReplyRecipients(r) ==
  LET content == request[r].ask.content IN
  DeriveReplyRecipients(content.parent, content.mode,
                        {m \in Mailboxes : mailbox[m] # "none"}, content.from)

ResolveSubmitRecipients(r) ==
  LET whom == ReplyRecipients(r) IN
  /\ At(r, "recipients", "submitMessage")
  /\ IF whom.to = {} THEN Refuse(r, "no_external_recipients")
     ELSE Checked(r, whom.to \cup whom.cc)
  /\ Keeps

\* The requester's job with this request id.
Existing(r) == {j \in jobs : j.by = request[r].by /\ j.id = request[r].ask.id}

\* What the caller sent, never what is derived from it.
SubmissionFingerprint(r) == request[r].ask.content

NewJob(r) ==
  [row |-> Cardinality(jobs), by |-> request[r].by, id |-> request[r].ask.id,
   content |-> SubmissionFingerprint(r)]

\* submitOutbound: the mailbox, the policy, the request id, in that order.
SubmitOutbound(r) ==
  LET content == request[r].ask.content
      policy == request[r].policy
  IN
  /\ At(r, "submit", "submitMessage")
  /\ IF ~ Sendable(content.from) \/ content.from \notin Scope(r)
     THEN Refuse(r, "mailbox_forbidden") /\ UNCHANGED jobs
     ELSE IF Denied(policy, content.from, request[r].to)
     THEN Refuse(r, "recipient_not_allowed") /\ UNCHANGED jobs
     ELSE IF Existing(r) = {}
     THEN Answer(r, "ok", {}, {}) /\ jobs' = jobs \cup {NewJob(r)}
     ELSE /\ Refuse(r, IF \E j \in Existing(r) : j.content = SubmissionFingerprint(r)
                       THEN "ok" ELSE "request_id_reused")
          /\ UNCHANGED jobs
  /\ UNCHANGED <<accessVars, mailbox, mail, forward, registered, cli, lost>>

\* A call of the handler fails, its object dies, or its answer is lost: also
\* after what was asked has been done.
RequestFails(r) ==
  /\ request[r].at # "free" /\ request[r].answer.code # "failed"
  /\ deaths < MaxDeaths
  /\ deaths' = deaths + 1
  /\ Refuse(r, "failed")
  /\ UNCHANGED <<consent, mcpPolicy, tokens, screen, edit, granted, chosenFor,
                 storeVars, cli, lost>>

-----------------------------------------------------------------------------
(* The command line client's submission: messages compose and reply.       *)

SUBMIT_TRANSPORT_RETRIES == 2

\* resolveFromAddressId lists the sending identities first, and sends nothing
\* without one.  The id is new, or one given to repeat a submission.
CliRuns(id, content) ==
  /\ cli.at \in {"idle", "done"}
  /\ Sendable(content.from)
  /\ cli' = [at |-> "send", id |-> id, content |-> content, tries |-> 0,
             missed |-> cli.missed, known |-> jobs]
  /\ UNCHANGED <<accessVars, storeVars, request, lost>>

CliSends(r) ==
  /\ cli.at = "send" /\ request[r] = Free
  /\ Admit(r, Operator, OperatorPolicy,
           [op |-> "submitMessage", id |-> cli.id, content |-> cli.content])
  /\ cli' = [at |-> "wait", id |-> cli.id, content |-> cli.content,
             tries |-> cli.tries, missed |-> cli.missed, known |-> cli.known, on |-> r]
  /\ UNCHANGED <<accessVars, storeVars, lost>>

Ends(outcome) ==
  cli' = [at |-> "done", id |-> cli.id, content |-> cli.content, missed |-> cli.missed,
          known |-> cli.known, outcome |-> outcome]

\* What the client makes of an answer: a server that failed may have stored it.
Outcome(answer) ==
  CASE answer.code = "ok" -> "ok"
    [] answer.code = "failed" -> "unknown"
    [] OTHER -> "refused"

CliHears ==
  /\ cli.at = "wait" /\ request[cli.on].at = "answered"
  /\ Ends(Outcome(request[cli.on].answer))
  /\ request' = [request EXCEPT ![cli.on] = Free]
  /\ UNCHANGED <<accessVars, storeVars, lost>>

\* The connection cannot be made, or drops while the server goes on.
CliLosesConnection ==
  /\ cli.at \in {"send", "wait"}
  /\ lost < MaxLost
  /\ lost' = lost + 1
  /\ IF cli.tries < SUBMIT_TRANSPORT_RETRIES
     THEN cli' = [at |-> "send", id |-> cli.id, content |-> cli.content,
                  tries |-> cli.tries + 1, missed |-> cli.missed \cup {cli.id},
                  known |-> cli.known]
     ELSE cli' = [at |-> "done", id |-> cli.id, content |-> cli.content,
                  missed |-> cli.missed \cup {cli.id}, known |-> cli.known,
                  outcome |-> "unknown"]
  /\ UNCHANGED <<accessVars, storeVars, request>>

-----------------------------------------------------------------------------
\* A message is received, or written by a job (InboundMail, OutboundJobs).
Arrives(x) ==
  /\ mail[x] = "none" /\ mailbox[MailboxOf[x]] = "active"
  /\ mail' = [mail EXCEPT ![x] = "unread"]
  /\ UNCHANGED <<accessVars, mailbox, forward, registered, jobs, request, cli, lost>>

Init ==
  /\ AccessInit
  /\ mailbox \in [Mailboxes -> {"none", "active"}]
  /\ mail = [x \in Messages |-> "none"]
  /\ forward = [m \in Mailboxes |-> NoDestination]
  /\ registered = {}
  /\ jobs = {}
  /\ request = [r \in Requests |-> Free]
  /\ cli = Quiet
  /\ lost = 0

Admission(r) ==
  \/ \E ask \in Ask : OperatorAsks(r, ask)
  \/ \E c \in Clients, ask \in Ask : ClientAsks(r, c, ask)
  \/ \E c \in Clients : ClientIsTurnedAway(r, c)
  \/ Delivered(r)

Reads(r) ==
  \/ ListMailboxes(r) \/ ListSendingIdentities(r) \/ ListThreads(r)
  \/ ReadThread(r) \/ ListMessages(r) \/ GetMessage(r)
  \/ ReadMessageSource(r) \/ ReadAttachment(r) \/ ReadJobs(r)

Writes(r) ==
  \/ SetThreadReadState(r) \/ SoftDeleteVisibleThread(r)
  \/ ChangeMailbox(r) \/ SetForwarding(r) \/ RemoveForwarding(r)

Submits(r) ==
  \/ PrepareOutbound(r) \/ UnusableSender(r)
  \/ ReadReplyParent(r) \/ ResolveSubmitRecipients(r)
  \/ SubmitOutbound(r)

CliStep ==
  \/ \E id \in RequestIds, content \in Contents : CliRuns(id, content)
  \/ \E r \in Requests : CliSends(r)
  \/ CliHears
  \/ CliLosesConnection

Next ==
  \/ AccessNext /\ UNCHANGED <<storeVars, request, cli, lost>>
  \/ \E r \in Requests :
       Admission(r) \/ Reads(r) \/ Writes(r) \/ Submits(r) \/ RequestFails(r)
  \/ CliStep
  \/ \E x \in Messages : Arrives(x)

Spec == Init /\ [][Next]_vars

-----------------------------------------------------------------------------
(* Properties.                                                             *)

\* The jobs of a requester's submission.
JobsOf(by, id, content) == {j \in jobs : j.by = by /\ j.id = id /\ j.content = content}

\* An answer tells of the mailboxes its request's policy names, of messages only
\* with read access, and of none that was deleted before the request came in:
\* the lists, the operations of several calls and the errors each limit
\* themselves on their own.  The one exception is the refusal to send from a
\* mailbox the policy does not name, which says that there is such a mailbox.
AnswersStayInScope ==
  \A r \in Requests :
    LET q == request[r] IN
    q.at = "answered" /\ q.policy # NoPolicy =>
      /\ \A m \in q.answer.boxes \ q.policy.mailboxIds :
           q.answer.code = "mailbox_forbidden" /\ m = q.ask.content.from
      /\ q.answer.mail # {} => q.policy.canRead
      /\ q.answer.mail \cap q.gone = {}

\* However often a submission is repeated, also while an earlier attempt is
\* still being served, its requester has one row for the request id; and a
\* submission is accepted only with a row that is its own, not another
\* requester's or one of other content.
OneJobPerRequestId ==
  /\ \A j, k \in jobs : j.by = k.by /\ j.id = k.id => j = k
  /\ \A r \in Requests :
       LET q == request[r] IN
       q.at = "answered" /\ q.ask.op = "submitMessage" /\ q.answer.code = "ok" =>
         JobsOf(q.by, q.ask.id, q.ask.content) # {}

\* What the command line client reports is so: an accepted message has its
\* job, and one reported as refused has none from this command, unless an
\* earlier attempt with that id was not answered.
CliTellsTheTruth ==
  cli.at = "done" =>
    LET stored == JobsOf(Operator, cli.id, cli.content) IN
    /\ cli.outcome = "ok" => stored # {}
    /\ cli.outcome = "refused" /\ cli.id \notin cli.missed => stored \subseteq cli.known

\* A mailbox forwards only to destinations registered at Cloudflare, whatever
\* fails between the calls.  ("Cloudflare forwards only to a verified
\* destination, so the destination is registered first.")
ForwardsToRegistered ==
  \A m \in Mailboxes : forward[m] # NoDestination => forward[m] \in registered

\* A submission repeated with the same id and content is answered with the
\* job it created before.  (README.md: "Resubmitting the same ID with the same
\* content returns the existing job and never sends twice, so it is the safe
\* retry after a lost response.")
RetryReturnsTheJob ==
  \A r \in Requests :
    /\ request[r].at = "answered" /\ request[r].ask.op = "submitMessage"
    /\ \E j \in request[r].known :
         /\ j.by = request[r].by /\ j.id = request[r].ask.id
         /\ j.content = SubmissionFingerprint(r)
    /\ request[r].answer.code # "failed"
    => request[r].answer.code = "ok"
=============================================================================
