----------------------------- MODULE InboundMail -----------------------------
(***************************************************************************)
(* Receiving mail: the email handler that archives, registers, forwards    *)
(* and enqueues what a sender delivers, the queue consumer that indexes    *)
(* it, and the due-work pass that redrives what stayed unindexed.          *)
(*                                                                         *)
(* A receipt is named by its content: inboundMessageId hashes the raw      *)
(* bytes with the envelope, so a sender's retry and a replay are further   *)
(* deliveries of the same receipt.  A delivery is one call of the email    *)
(* handler; every await in it, and in the consumer, is a step, and may be  *)
(* the last one: the handler fails, and the sender gets a temporary        *)
(* failure, whether or not the awaited call had its effect.                *)
(*                                                                         *)
(* Deadlines are events: a ready receipt's retry_after passes at any       *)
(* moment after it was set.                                                *)
(***************************************************************************)
EXTENDS Naturals, FiniteSets

CONSTANTS
  Receipts,       \* (digest, from, to) triples
  Raws,           \* raw messages, content-addressed in the archive
  RawOf,          \* [Receipts -> Raws]
  Mailboxes,
  MailboxOf,      \* [Receipts -> Mailboxes], the envelope recipient
  TooLarge,       \* receipts above DEFAULT_MAX_RAW_BYTES
  Mime,           \* [Raws -> MimeFacts], what the parser finds
  MaxAttachments, \* MAX_ATTACHMENTS
  MaxPersisted,   \* MAX_PERSISTED_MESSAGE_BYTES
  Destinations,   \* where mailboxes can forward to
  NoDestination,
  Deliveries,     \* calls of the email handler
  Consumers,      \* concurrent calls of the queue handler
  NoReceipt,      \* a delivery not made yet, a consumer without work
  RedriveLimit,   \* REDRIVE_BATCH_SIZE
  MaxFaults       \* bound: failed indexing and redrive steps, queue duplicates

Verdict == {"ready", "policy_failed"}

\* bytes: what is stored beside the HTML.
MimeFacts == [parsed : BOOLEAN, deep : BOOLEAN, attachments : Nat, bytes : Nat, html : Nat]

ASSUME InboundAssumption ==
  /\ RawOf \in [Receipts -> Raws]
  /\ MailboxOf \in [Receipts -> Mailboxes]
  /\ TooLarge \subseteq Receipts
  /\ Mime \in [Raws -> MimeFacts]
  /\ MaxAttachments \in Nat
  /\ MaxPersisted \in Nat
  /\ NoDestination \notin Destinations
  /\ NoReceipt \notin Receipts
  /\ RedriveLimit \in Nat \ {0}
  /\ MaxFaults \in Nat

WorkStates == {"none", "ready", "indexed", "policy_failed"}
ForwardOutcomes == {"none", "unknown", "success", "failure"}
MailboxStates == {"none", "active", "paused", "retired"}

\* The email handler's awaits in order, then how it can end.
Open == {"archive", "register", "claim", "forward", "record", "enqueue", "answer"}
Ended == {"accepted", "rejected", "failed"}

VARIABLES
  \* the account store
  work,         \* inbound_receipts.work_state, "none" when there is no row
  forward,      \* forward_outcome
  destination,  \* forward_destination
  messages,     \* receipts whose message is stored
  mailbox,      \* addresses: active, paused (inactive) or retired
  forwardTo,    \* addresses.forward_to
  due,          \* receipts past their retry_after
  passedOver,   \* those of due that an earlier redrive left for the next one
  \* the archive and the index queue
  archive,      \* raw messages in the bucket
  parts,        \* receipts whose attachments are in the bucket
  queue,        \* receipts with a message in MailIndex
  \* running code
  delivery,     \* the email handler's calls
  consumer,     \* the queue handler's calls
  redrive,      \* receipts the pass has still to send to the queue
  \* what the world saw
  copies,       \* how often the receipt's mail was forwarded
  copiedTo,     \* where to
  answered,     \* receipts a sender was told are accepted
  faults

store == <<work, forward, destination, messages>>
addresses == <<mailbox, forwardTo>>
timers == <<due, passedOver>>
world == <<copies, copiedTo, answered>>
vars == <<store, addresses, timers, archive, parts, queue, delivery, consumer,
          redrive, world, faults>>

\* One call of the email handler: where it is, the receipt, the forwarding
\* target it read, and whether Cloudflare reported the forward as done.
Call == [at: {"new"} \cup Open \cup Ended, receipt: Receipts \cup {NoReceipt},
         target: Destinations \cup {NoDestination}, ok: BOOLEAN]
Job == [at: {"idle", "prepare", "parts", "accept", "fail", "ack"},
        receipt: Receipts \cup {NoReceipt}]

Init ==
  /\ work = [e \in Receipts |-> "none"]
  /\ forward = [e \in Receipts |-> "none"]
  /\ destination = [e \in Receipts |-> NoDestination]
  /\ messages = {}
  /\ mailbox = [m \in Mailboxes |-> "none"]
  /\ forwardTo = [m \in Mailboxes |-> NoDestination]
  /\ due = {} /\ passedOver = {}
  /\ archive = {} /\ parts = {} /\ queue = {}
  /\ delivery = [d \in Deliveries |-> [at |-> "new", receipt |-> NoReceipt,
                                       target |-> NoDestination, ok |-> FALSE]]
  /\ consumer = [c \in Consumers |-> [at |-> "idle", receipt |-> NoReceipt]]
  /\ redrive = {}
  /\ copies = [e \in Receipts |-> 0]
  /\ copiedTo = [e \in Receipts |-> {}]
  /\ answered = {}
  /\ faults = 0

-----------------------------------------------------------------------------
(* The operator's calls on mailboxes.                                      *)

CreateAddress(m) ==
  /\ mailbox[m] = "none"
  /\ mailbox' = [mailbox EXCEPT ![m] = "active"]
  /\ UNCHANGED <<store, forwardTo, timers, archive, parts, queue, delivery,
                 consumer, redrive, world, faults>>

PatchAddress(m) ==
  /\ mailbox[m] \in {"active", "paused"}
  /\ mailbox' = [mailbox EXCEPT ![m] = IF @ = "active" THEN "paused" ELSE "active"]
  /\ UNCHANGED <<store, forwardTo, timers, archive, parts, queue, delivery,
                 consumer, redrive, world, faults>>

RetireAddress(m) ==
  /\ mailbox[m] \in {"active", "paused"}
  /\ mailbox' = [mailbox EXCEPT ![m] = "retired"]
  /\ UNCHANGED <<store, forwardTo, timers, archive, parts, queue, delivery,
                 consumer, redrive, world, faults>>

SetAddressForwarding(m, target) ==
  /\ mailbox[m] # "none"
  /\ forwardTo[m] # target
  /\ forwardTo' = [forwardTo EXCEPT ![m] = target]
  /\ UNCHANGED <<store, mailbox, timers, archive, parts, queue, delivery,
                 consumer, redrive, world, faults>>

-----------------------------------------------------------------------------
(* receiveInbound: one delivery, step by step.                             *)

Receipt(d) == delivery[d].receipt
At(d, phase) == delivery[d].at = phase
GoesTo(d, phase) == delivery' = [delivery EXCEPT ![d].at = phase]

Receives(e) == mailbox[MailboxOf[e]] = "active"

\* An oversized message, an unknown recipient or an inactive mailbox is
\* refused for good, before anything is written.
SetReject(d, e) ==
  /\ At(d, "new")
  /\ e \in TooLarge \/ ~ Receives(e)
  /\ delivery' = [delivery EXCEPT ![d] = [@ EXCEPT !.at = "rejected", !.receipt = e]]
  /\ UNCHANGED <<store, addresses, timers, archive, parts, queue, consumer,
                 redrive, world, faults>>

\* getAddressByMailbox: the forwarding target is read here and used later.
LookUp(d, e) ==
  /\ At(d, "new")
  /\ e \notin TooLarge /\ Receives(e)
  /\ delivery' = [delivery EXCEPT ![d] =
                    [at |-> "archive", receipt |-> e,
                     target |-> forwardTo[MailboxOf[e]], ok |-> FALSE]]
  /\ UNCHANGED <<store, addresses, timers, archive, parts, queue, consumer,
                 redrive, world, faults>>

ArchiveLater(d) ==
  /\ At(d, "archive")
  /\ GoesTo(d, "register")
  /\ UNCHANGED <<store, addresses, timers, archive, parts, queue, consumer,
                 redrive, world, faults>>

ArchiveRaw(d) ==
  /\ At(d, "archive")
  /\ archive' = archive \cup {RawOf[Receipt(d)]}
  /\ GoesTo(d, "register")
  /\ UNCHANGED <<store, addresses, timers, parts, queue, consumer, redrive,
                 world, faults>>

ClaimsAlways(target) == "claim"

\* Only a mailbox that forwards has a forward to claim.
AfterRegister(target) == IF target # NoDestination THEN "claim" ELSE "enqueue"

\* ON CONFLICT(id) DO NOTHING: a receipt is registered once.
RegisterInboundReceipt(d) ==
  /\ At(d, "register")
  /\ work' = [work EXCEPT ![Receipt(d)] = IF @ = "none" THEN "ready" ELSE @]
  /\ GoesTo(d, AfterRegister(delivery[d].target))
  /\ UNCHANGED <<forward, destination, messages, addresses, timers, archive,
                 parts, queue, consumer, redrive, world, faults>>

ObservesAgain(e, kind) == forward[e] \in {"none", "unknown"}

\* The rows an observation applies to.
Observes(e, kind) == forward[e] \in {"none", "unknown"} /\ forward[e] # kind

ObserveInboundForward(e, kind, target) ==
  IF Observes(e, kind)
  THEN /\ forward' = [forward EXCEPT ![e] = kind]
       /\ destination' = [destination EXCEPT ![e] = target]
  ELSE UNCHANGED <<forward, destination>>

ClaimForward(d) ==
  /\ At(d, "claim")
  /\ ObserveInboundForward(Receipt(d), "unknown", delivery[d].target)
  /\ GoesTo(d, IF Observes(Receipt(d), "unknown") THEN "forward" ELSE "enqueue")
  /\ UNCHANGED <<work, messages, addresses, timers, archive, parts, queue,
                 consumer, redrive, world, faults>>

\* Cloudflare forwards or not; only a forward it made can be answered with
\* success, and one it made may still be answered with an error.
Forward(d, sent, ok) ==
  /\ At(d, "forward")
  /\ ok => sent
  /\ IF sent
     THEN /\ copies' = [copies EXCEPT ![Receipt(d)] = @ + 1]
          /\ copiedTo' = [copiedTo EXCEPT ![Receipt(d)] = @ \cup {delivery[d].target}]
     ELSE UNCHANGED <<copies, copiedTo>>
  /\ delivery' = [delivery EXCEPT ![d] = [@ EXCEPT !.at = "record", !.ok = ok]]
  /\ UNCHANGED <<store, addresses, timers, archive, parts, queue, consumer,
                 redrive, answered, faults>>

ObservationAssumed(ok) == "success"

Observation(ok) == IF ok THEN "success" ELSE "failure"

RecordForward(d) ==
  /\ At(d, "record")
  /\ ObserveInboundForward(Receipt(d), Observation(delivery[d].ok),
                           delivery[d].target)
  /\ GoesTo(d, "enqueue")
  /\ UNCHANGED <<work, messages, addresses, timers, archive, parts, queue,
                 consumer, redrive, world, faults>>

Enqueue(d) ==
  /\ At(d, "enqueue")
  /\ queue' = queue \cup {Receipt(d)}
  /\ GoesTo(d, "answer")
  /\ UNCHANGED <<store, addresses, timers, archive, parts, consumer, redrive,
                 world, faults>>

\* The handler returned: the sender is told the mail is accepted.
Answer(d) ==
  /\ At(d, "answer")
  /\ answered' = answered \cup {Receipt(d)}
  /\ GoesTo(d, "accepted")
  /\ UNCHANGED <<store, addresses, timers, archive, parts, queue, consumer,
                 redrive, copies, copiedTo, faults>>

\* Any failed await, or the isolate's end, is a temporary failure.
DeliveryFails(d) ==
  /\ delivery[d].at \in Open
  /\ GoesTo(d, "failed")
  /\ UNCHANGED <<store, addresses, timers, archive, parts, queue, consumer,
                 redrive, world, faults>>

-----------------------------------------------------------------------------
(* indexReceipt: one queue message, step by step.                          *)

Work(c) == consumer[c].receipt
Idle == [at |-> "idle", receipt |-> NoReceipt]
Does(c, phase) == consumer[c].at = phase
Turns(c, phase) == consumer' = [consumer EXCEPT ![c].at = phase]

\* A receipt that is no longer ready is acknowledged and forgotten.
TakeWork(c, e) ==
  /\ Does(c, "idle") /\ e \in queue
  /\ work[e] # "none"
  /\ consumer' = [consumer EXCEPT ![c] =
                    [at |-> IF work[e] = "ready" THEN "prepare" ELSE "ack",
                     receipt |-> e]]
  /\ UNCHANGED <<store, addresses, timers, archive, parts, queue, delivery,
                 redrive, world, faults>>

\* parseMime: what cannot be parsed within its budgets is refused.
ParseMime(raw) == Mime[raw].parsed /\ ~ Mime[raw].deep

\* A sanitizer failure keeps the message and drops only its HTML.
SanitizeHtml(raw, sanitized) == IF sanitized THEN Mime[raw].html ELSE 0

PersistedByteLength(raw, sanitized) == Mime[raw].bytes + SanitizeHtml(raw, sanitized)

\* One raw message gets both verdicts when only its HTML is too much.
PrepareInbound(raw, sanitized) ==
  IF /\ ParseMime(raw)
     /\ Mime[raw].attachments <= MaxAttachments
     /\ PersistedByteLength(raw, sanitized) <= MaxPersisted
  THEN "ready" ELSE "policy_failed"

Prepare(c, verdict) ==
  /\ Does(c, "prepare")
  /\ mailbox[MailboxOf[Work(c)]] # "none"
  /\ RawOf[Work(c)] \in archive
  /\ \E sanitized \in BOOLEAN : verdict = PrepareInbound(RawOf[Work(c)], sanitized)
  /\ Turns(c, IF verdict = "ready" THEN "parts" ELSE "fail")
  /\ UNCHANGED <<store, addresses, timers, archive, parts, queue, delivery,
                 redrive, world, faults>>

StorePartsLater(c) ==
  /\ Does(c, "parts")
  /\ Turns(c, "accept")
  /\ UNCHANGED <<store, addresses, timers, archive, parts, queue, delivery,
                 redrive, world, faults>>

StoreParts(c) ==
  /\ Does(c, "parts")
  /\ parts' = parts \cup {Work(c)}
  /\ Turns(c, "accept")
  /\ UNCHANGED <<store, addresses, timers, archive, queue, delivery, redrive,
                 world, faults>>

AcceptableAlways(e) == TRUE

\* acceptInbound settles a receipt that is still ready, and only that.
Acceptable(e) == work[e] = "ready"

AcceptInbound(c) ==
  /\ Does(c, "accept")
  /\ IF Acceptable(Work(c))
     THEN /\ messages' = messages \cup {Work(c)}
          /\ work' = [work EXCEPT ![Work(c)] = "indexed"]
     ELSE UNCHANGED <<messages, work>>
  /\ Turns(c, "ack")
  /\ UNCHANGED <<forward, destination, addresses, timers, archive, parts,
                 queue, delivery, redrive, world, faults>>

FailableAlways(e) == TRUE

Failable(e) == work[e] = "ready"

FailInboundReceiptPolicy(c) ==
  /\ Does(c, "fail")
  /\ work' = [work EXCEPT ![Work(c)] = IF Failable(Work(c)) THEN "policy_failed" ELSE @]
  /\ Turns(c, "ack")
  /\ UNCHANGED <<forward, destination, messages, addresses, timers, archive,
                 parts, queue, delivery, redrive, world, faults>>

Ack(c) ==
  /\ Does(c, "ack")
  /\ queue' = queue \ {Work(c)}
  /\ consumer' = [consumer EXCEPT ![c] = Idle]
  /\ UNCHANGED <<store, addresses, timers, archive, parts, delivery, redrive,
                 world, faults>>

\* A failed run: the queue retries the message, or has given up on it.  Of
\* a run that only failed to acknowledge, it is a duplicate.
IndexingFails(c, retried) ==
  /\ consumer[c].at # "idle"
  /\ faults < MaxFaults /\ faults' = faults + 1
  /\ queue' = IF retried THEN queue \cup {Work(c)} ELSE queue \ {Work(c)}
  /\ consumer' = [consumer EXCEPT ![c] = Idle]
  /\ UNCHANGED <<store, addresses, timers, archive, parts, delivery, redrive,
                 world>>

-----------------------------------------------------------------------------
(* The due-work pass's redrive step.                                       *)

\* A ready receipt's retry_after has passed: five minutes after it arrived,
\* and one to thirty minutes after each redrive.
RedriveComesDue(e) ==
  /\ work[e] = "ready" /\ e \notin due
  /\ due' = due \cup {e}
  /\ UNCHANGED <<store, addresses, passedOver, archive, parts, queue, delivery,
                 consumer, redrive, world, faults>>

DueSettled == {e \in due : work[e] = "indexed"}

Due == {e \in due : work[e] = "ready"}
LeastOf(a, b) == IF a <= b THEN a ELSE b

\* The batch is the oldest due receipts.  Those an earlier batch passed over
\* are older than those that came due since.
Batches ==
  {batch \in SUBSET Due :
     /\ Cardinality(batch) = LeastOf(RedriveLimit, Cardinality(Due))
     /\ LET older == passedOver \cap Due
        IN  batch \subseteq older \/ older \subseteq batch}

RedriveDueInboundReceipts ==
  /\ redrive = {} /\ Due # {}
  /\ \E batch \in Batches :
       /\ redrive' = batch
       /\ due' = Due \ batch
       /\ passedOver' = Due \ batch
  /\ UNCHANGED <<store, addresses, archive, parts, queue, delivery, consumer,
                 world, faults>>

SendRedrive(e) ==
  /\ e \in redrive
  /\ queue' = queue \cup {e}
  /\ redrive' = redrive \ {e}
  /\ UNCHANGED <<store, addresses, timers, archive, parts, delivery, consumer,
                 world, faults>>

\* A failed send, or the object's end: the rest waits for its next redrive.
RedriveFails ==
  /\ redrive # {}
  /\ faults < MaxFaults /\ faults' = faults + 1
  /\ redrive' = {}
  /\ UNCHANGED <<store, addresses, timers, archive, parts, queue, delivery,
                 consumer, world>>

-----------------------------------------------------------------------------
OperatorStep ==
  \E m \in Mailboxes :
    \/ CreateAddress(m) \/ PatchAddress(m) \/ RetireAddress(m)
    \/ \E target \in Destinations \cup {NoDestination} :
         SetAddressForwarding(m, target)

DeliveryStep ==
  \E d \in Deliveries :
    \/ \E e \in Receipts : SetReject(d, e) \/ LookUp(d, e)
    \/ ArchiveRaw(d) \/ RegisterInboundReceipt(d) \/ ClaimForward(d)
    \/ \E sent, ok \in BOOLEAN : Forward(d, sent, ok)
    \/ RecordForward(d) \/ Enqueue(d) \/ Answer(d) \/ DeliveryFails(d)

IndexStep(c) ==
  \/ \E verdict \in Verdict : Prepare(c, verdict)
  \/ StoreParts(c) \/ AcceptInbound(c) \/ FailInboundReceiptPolicy(c) \/ Ack(c)

ConsumerStep ==
  \E c \in Consumers :
    \/ \E e \in Receipts : TakeWork(c, e)
    \/ IndexStep(c)
    \/ \E retried \in BOOLEAN : IndexingFails(c, retried)

RedriveStep ==
  \/ \E e \in Receipts : RedriveComesDue(e) \/ SendRedrive(e)
  \/ RedriveDueInboundReceipts
  \/ RedriveFails

Next == OperatorStep \/ DeliveryStep \/ ConsumerStep \/ RedriveStep

Spec == Init /\ [][Next]_vars

\* The queue delivers what waits in it, a run that has begun goes on, the
\* clock runs and the alarm fires.  Nobody has to deliver mail again.
Fairness ==
  /\ \A e \in Receipts : WF_vars(\E c \in Consumers : TakeWork(c, e))
  /\ \A c \in Consumers : WF_vars(IndexStep(c))
  /\ \A e \in Receipts : WF_vars(RedriveComesDue(e)) /\ WF_vars(SendRedrive(e))
  /\ WF_vars(RedriveDueInboundReceipts)

LiveSpec == Spec /\ Fairness

-----------------------------------------------------------------------------
(* Properties.                                                             *)

\* Types of the tables, the queue and the running code; a call that goes to
\* forward has a destination.
TypeOK ==
  /\ work \in [Receipts -> WorkStates]
  /\ forward \in [Receipts -> ForwardOutcomes]
  /\ destination \in [Receipts -> Destinations \cup {NoDestination}]
  /\ messages \subseteq Receipts
  /\ mailbox \in [Mailboxes -> MailboxStates]
  /\ forwardTo \in [Mailboxes -> Destinations \cup {NoDestination}]
  /\ due \subseteq Receipts /\ passedOver \subseteq due
  /\ archive \subseteq Raws /\ parts \subseteq Receipts /\ queue \subseteq Receipts
  /\ delivery \in [Deliveries -> Call]
  /\ \A d \in Deliveries :
       /\ ~ At(d, "new") => Receipt(d) \in Receipts
       /\ delivery[d].at \in {"claim", "forward", "record"} =>
            delivery[d].target \in Destinations
  /\ consumer \in [Consumers -> Job]
  /\ \A c \in Consumers : ~ Does(c, "idle") => Work(c) \in Receipts
  /\ redrive \subseteq Receipts
  /\ copies \in [Receipts -> Nat]
  /\ copiedTo \in [Receipts -> SUBSET Destinations]
  /\ answered \subseteq Receipts
  /\ faults \in 0..MaxFaults

\* However often a sender delivers the same mail, and wherever a call of the
\* handler dies, the mail is forwarded at most once.  (inbound.ts: "a
\* redelivered or replayed envelope never forwards twice".)
ForwardedOnce == \A e \in Receipts : copies[e] <= 1

\* What the receipt says of the forward is what happened: without an outcome
\* nothing was forwarded, "success" means a copy went out, and a copy went to
\* the recorded destination, although the mailbox's target changes meanwhile.
ForwardTellsTheTruth ==
  \A e \in Receipts :
    /\ forward[e] = "none" => copies[e] = 0
    /\ forward[e] = "success" => copies[e] > 0
    /\ copiedTo[e] \subseteq {destination[e]}

\* Mail a sender was told is accepted is kept: its receipt is registered for
\* a mailbox that exists, and its raw message is in the archive.  No queue
\* message, redrive or run of the consumer can then meet a missing receipt,
\* address or raw message, and a stored message has its attachments.
Registered(e) ==
  /\ work[e] # "none"
  /\ RawOf[e] \in archive
  /\ mailbox[MailboxOf[e]] # "none"

AcceptedIsKept ==
  /\ \A e \in answered \cup queue \cup redrive : Registered(e)
  /\ \A c \in Consumers : ~ Does(c, "idle") => Registered(Work(c))
  /\ messages \subseteq parts

\* A receipt is indexed exactly when its message is stored, though several
\* runs of the consumer may reach different verdicts on it at once.
MessageIffIndexed == \A e \in Receipts : work[e] = "indexed" <=> e \in messages

\* A settled receipt stays settled, a registered one is never registered
\* anew, and a recorded forward is never taken back or recorded again.
ReceiptMovesOn(e) ==
  /\ work[e] \in {"indexed", "policy_failed"} => work'[e] = work[e]
  /\ work[e] = "ready" => work'[e] # "none"
  /\ forward[e] \in {"success", "failure"} =>
       forward'[e] = forward[e] /\ destination'[e] = destination[e]
  /\ forward[e] = "unknown" =>
       forward'[e] # "none" /\ destination'[e] = destination[e]

ReceiptsMoveOn == [][\A e \in Receipts : ReceiptMovesOn(e)]_vars

\* Every registered receipt is indexed or fails the content policy, although
\* nobody delivers it again, the queue gives up on messages and redrives
\* fail.  (docs/operations.md: "The store's alarm redrives unindexed mail
\* until it is indexed; only content-policy failures are final.")
EveryReceiptSettles ==
  \A e \in Receipts :
    work[e] = "ready" ~> work[e] \in {"indexed", "policy_failed"}
=============================================================================
