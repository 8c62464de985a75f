-------------------------- MODULE InboundMailProofs --------------------------
(***************************************************************************)
(* Theorems about InboundMail, for every set of receipts, raw messages,    *)
(* mailboxes, deliveries and consumers, every batch size and any number of *)
(* faults.                                                                 *)
(***************************************************************************)
EXTENDS InboundMail, TLAPS

-----------------------------------------------------------------------------
(* Type correctness.                                                       *)

(* A call that goes on keeps what it read, and no other call moves.        *)
LEMMA GoesOn ==
  ASSUME TypeOK, NEW d \in Deliveries,
         NEW phase \in Open \cup Ended, GoesTo(d, phase)
  PROVE  /\ delivery' \in [Deliveries -> Call]
         /\ delivery'[d].at = phase
         /\ delivery'[d].receipt = delivery[d].receipt
         /\ delivery'[d].target = delivery[d].target
         /\ delivery'[d].ok = delivery[d].ok
         /\ \A f \in Deliveries \ {d} : delivery'[f] = delivery[f]
<1>1. delivery \in [Deliveries -> Call]
  BY DEF TypeOK
<1>2. delivery[d] \in Call
  BY <1>1
<1> DEFINE new == [delivery[d] EXCEPT !.at = phase]
<1>3. /\ new \in Call /\ new.at = phase /\ new.receipt = delivery[d].receipt
      /\ new.target = delivery[d].target /\ new.ok = delivery[d].ok
  BY <1>2 DEF Call
<1>4. delivery' = [delivery EXCEPT ![d] = new]
  BY DEF GoesTo
<1> HIDE DEF new
<1> QED BY <1>1, <1>3, <1>4

(* The same of a run of the consumer.                                      *)
LEMMA RunGoesOn ==
  ASSUME TypeOK, NEW c \in Consumers,
         NEW phase \in {"idle", "prepare", "parts", "accept", "fail", "ack"},
         Turns(c, phase)
  PROVE  /\ consumer' \in [Consumers -> Job]
         /\ consumer'[c].at = phase
         /\ consumer'[c].receipt = consumer[c].receipt
         /\ \A b \in Consumers \ {c} : consumer'[b] = consumer[b]
<1>1. consumer \in [Consumers -> Job]
  BY DEF TypeOK
<1>2. consumer[c] \in Job
  BY <1>1
<1> DEFINE new == [consumer[c] EXCEPT !.at = phase]
<1>3. new \in Job /\ new.at = phase /\ new.receipt = consumer[c].receipt
  BY <1>2 DEF Job
<1>4. consumer' = [consumer EXCEPT ![c] = new]
  BY DEF Turns
<1> HIDE DEF new
<1> QED BY <1>1, <1>3, <1>4

(* The tables start well typed.                                            *)
LEMMA TypeInit == Init => TypeOK
<1> SUFFICES ASSUME Init PROVE TypeOK
  OBVIOUS
<1>1. /\ delivery \in [Deliveries -> Call]
      /\ \A d \in Deliveries : delivery[d].at = "new"
  BY DEF Init, Call
<1>2. /\ consumer \in [Consumers -> Job]
      /\ \A c \in Consumers : consumer[c].at = "idle"
  BY DEF Init, Job
<1>3. /\ work \in [Receipts -> WorkStates]
      /\ forward \in [Receipts -> ForwardOutcomes]
      /\ destination \in [Receipts -> Destinations \cup {NoDestination}]
      /\ mailbox \in [Mailboxes -> MailboxStates]
      /\ forwardTo \in [Mailboxes -> Destinations \cup {NoDestination}]
      /\ copies \in [Receipts -> Nat]
      /\ copiedTo \in [Receipts -> SUBSET Destinations]
  BY DEF Init, WorkStates, ForwardOutcomes, MailboxStates
<1>4. faults \in 0..MaxFaults
  BY InboundAssumption DEF Init
<1> QED BY <1>1, <1>2, <1>3, <1>4 DEF Init, TypeOK, At, Does

(* An observation keeps the receipt's forward columns well typed.          *)
LEMMA ObservationType ==
  ASSUME TypeOK, NEW e \in Receipts, NEW kind \in ForwardOutcomes,
         NEW target \in Destinations, ObserveInboundForward(e, kind, target)
  PROVE  /\ forward' \in [Receipts -> ForwardOutcomes]
         /\ destination' \in [Receipts -> Destinations \cup {NoDestination}]
BY DEF ObserveInboundForward, TypeOK

(* Calls of the handler keep everything well typed.                        *)
LEMMA TypeDelivery ==
  ASSUME TypeOK, NEW d \in Deliveries,
         \/ \E e \in Receipts : SetReject(d, e) \/ LookUp(d, e)
         \/ ArchiveRaw(d) \/ RegisterInboundReceipt(d) \/ ClaimForward(d)
         \/ \E sent, ok \in BOOLEAN : Forward(d, sent, ok)
         \/ RecordForward(d) \/ Enqueue(d) \/ Answer(d) \/ DeliveryFails(d)
  PROVE  TypeOK'
<1> DEFINE Late == {"claim", "forward", "record"}
<1>0. delivery \in [Deliveries -> Call] /\ delivery[d] \in Call
  BY DEF TypeOK
<1> DEFINE Deliver ==
      /\ delivery' \in [Deliveries -> Call]
      /\ \A f \in Deliveries :
           /\ delivery'[f].at # "new" => delivery'[f].receipt \in Receipts
           /\ delivery'[f].at \in Late => delivery'[f].target \in Destinations
<1>1. ASSUME NEW phase \in Open \cup Ended, GoesTo(d, phase),
             delivery[d].at \in Open,
             phase \in Late => delivery[d].target \in Destinations
      PROVE  Deliver
  <2>1. delivery[d].receipt \in Receipts
    BY <1>1 DEF TypeOK, At, Receipt, Open
  <2>2. \A f \in Deliveries :
          /\ delivery[f].at # "new" => delivery[f].receipt \in Receipts
          /\ delivery[f].at \in Late => delivery[f].target \in Destinations
    BY DEF TypeOK, At, Receipt
  <2> QED BY <1>1, <2>1, <2>2, GoesOn
<1>2. ASSUME NEW e \in Receipts, SetReject(d, e) \/ LookUp(d, e) PROVE TypeOK'
  <2>1. forwardTo[MailboxOf[e]] \in Destinations \cup {NoDestination}
    BY InboundAssumption DEF TypeOK
  <2> DEFINE new == IF LookUp(d, e)
                    THEN [at |-> "archive", receipt |-> e,
                          target |-> forwardTo[MailboxOf[e]], ok |-> FALSE]
                    ELSE [delivery[d] EXCEPT !.at = "rejected", !.receipt = e]
  <2>2. new \in Call /\ new.at \in {"archive", "rejected"} /\ new.receipt = e
    BY <1>0, <2>1 DEF Call, Open, Ended
  <2>3. delivery' = [delivery EXCEPT ![d] = new]
    BY <1>2 DEF LookUp, SetReject
  <2> HIDE DEF new
  <2>4. Deliver
    BY <1>0, <2>2, <2>3 DEF TypeOK, At, Receipt
  <2> QED BY <1>2, <2>4
          DEF SetReject, LookUp, TypeOK, At, Receipt, Does, Work, store,
              addresses, timers, world
<1>3. CASE ArchiveRaw(d)
  <2>1. Receipt(d) \in Receipts
    BY <1>3 DEF ArchiveRaw, TypeOK, At, Receipt
  <2>2. Deliver
    BY <1>1, <1>3 DEF ArchiveRaw, At, Open
  <2>3. archive' \subseteq Raws
    BY <1>3, <2>1, InboundAssumption DEF ArchiveRaw, TypeOK
  <2> QED BY <1>3, <2>2, <2>3
          DEF ArchiveRaw, TypeOK, At, Receipt, Does, Work, store, addresses,
              timers, world
<1>4. CASE RegisterInboundReceipt(d)
  <2>1. AfterRegister(delivery[d].target) \in Open
    BY DEF AfterRegister, Open
  <2>2. AfterRegister(delivery[d].target) \in Late =>
          delivery[d].target \in Destinations
    BY <1>0 DEF AfterRegister, Call
  <2>3. Deliver
    BY <1>1, <1>4, <2>1, <2>2 DEF RegisterInboundReceipt, At, Open
  <2>4. work' \in [Receipts -> WorkStates]
    BY <1>4 DEF RegisterInboundReceipt, TypeOK, WorkStates
  <2> QED BY <1>4, <2>3, <2>4
          DEF RegisterInboundReceipt, TypeOK, At, Receipt, Does, Work,
              addresses, timers, world
<1>5. CASE ClaimForward(d)
  <2>1. delivery[d].target \in Destinations /\ Receipt(d) \in Receipts
    BY <1>5 DEF ClaimForward, TypeOK, At, Receipt
  <2>2. Deliver
    BY <1>1, <1>5, <2>1 DEF ClaimForward, At, Open
  <2>3. /\ forward' \in [Receipts -> ForwardOutcomes]
        /\ destination' \in [Receipts -> Destinations \cup {NoDestination}]
    BY <1>5, <2>1, ObservationType DEF ClaimForward, ForwardOutcomes
  <2> QED BY <1>5, <2>2, <2>3
          DEF ClaimForward, TypeOK, At, Receipt, Does, Work, addresses, timers,
              world
<1>6. ASSUME NEW sent \in BOOLEAN, NEW ok \in BOOLEAN, Forward(d, sent, ok)
      PROVE  TypeOK'
  <2>1. delivery[d].target \in Destinations /\ Receipt(d) \in Receipts
    BY <1>6 DEF Forward, TypeOK, At, Receipt
  <2> DEFINE new == [delivery[d] EXCEPT !.at = "record", !.ok = ok]
  <2>2. /\ new \in Call /\ new.at = "record" /\ new.receipt = delivery[d].receipt
        /\ new.target = delivery[d].target
    BY <1>0 DEF Call, Open
  <2>3. delivery' = [delivery EXCEPT ![d] = new]
    BY <1>6 DEF Forward
  <2> HIDE DEF new
  <2>4. Deliver
    BY <1>0, <2>1, <2>2, <2>3 DEF TypeOK, At, Receipt
  <2> DEFINE e == Receipt(d)
             to == copiedTo[e] \cup {delivery[d].target}
  <2>5. copies \in [Receipts -> Nat] /\ copiedTo \in [Receipts -> SUBSET Destinations]
    BY DEF TypeOK
  <2>6. to \in SUBSET Destinations /\ copies[e] + 1 \in Nat
    BY <2>1, <2>5
  <2>7. \/ UNCHANGED <<copies, copiedTo>>
        \/ /\ copies' = [copies EXCEPT ![e] = copies[e] + 1]
           /\ copiedTo' = [copiedTo EXCEPT ![e] = to]
    BY <1>6 DEF Forward
  <2> HIDE DEF to
  <2>8. copies' \in [Receipts -> Nat] /\ copiedTo' \in [Receipts -> SUBSET Destinations]
    BY <2>5, <2>6, <2>7
  <2> QED BY <1>6, <2>4, <2>8
          DEF Forward, TypeOK, At, Receipt, Does, Work, store, addresses, timers
<1>7. CASE RecordForward(d)
  <2>1. delivery[d].target \in Destinations /\ Receipt(d) \in Receipts
    BY <1>7 DEF RecordForward, TypeOK, At, Receipt
  <2>2. Deliver
    BY <1>1, <1>7 DEF RecordForward, At, Open
  <2>3. Observation(delivery[d].ok) \in ForwardOutcomes
    BY DEF Observation, ForwardOutcomes
  <2>4. /\ forward' \in [Receipts -> ForwardOutcomes]
        /\ destination' \in [Receipts -> Destinations \cup {NoDestination}]
    BY <1>7, <2>1, <2>3, ObservationType DEF RecordForward
  <2> QED BY <1>7, <2>2, <2>4
          DEF RecordForward, TypeOK, At, Receipt, Does, Work, addresses, timers,
              world
<1>8. CASE Enqueue(d) \/ Answer(d) \/ DeliveryFails(d)
  <2>1. Receipt(d) \in Receipts
    BY <1>8 DEF Enqueue, Answer, DeliveryFails, TypeOK, At, Receipt, Open
  <2>2. Deliver
    BY <1>1, <1>8 DEF Enqueue, Answer, DeliveryFails, At, Open, Ended
  <2> QED BY <1>8, <2>1, <2>2
          DEF Enqueue, Answer, DeliveryFails, TypeOK, At, Receipt, Does, Work,
              store, addresses, timers, world
<1> QED BY <1>2, <1>3, <1>4, <1>5, <1>6, <1>7, <1>8

(* Runs of the consumer keep everything well typed.                        *)
LEMMA TypeConsumer ==
  ASSUME TypeOK, ConsumerStep
  PROVE  TypeOK'
<1> DEFINE Run == /\ consumer' \in [Consumers -> Job]
                  /\ \A b \in Consumers : consumer'[b].at # "idle" =>
                       consumer'[b].receipt \in Receipts
<1>1. PICK c \in Consumers :
        \/ \E e \in Receipts : TakeWork(c, e)
        \/ IndexStep(c)
        \/ \E retried \in BOOLEAN : IndexingFails(c, retried)
  BY DEF ConsumerStep
<1>2. /\ consumer \in [Consumers -> Job] /\ consumer[c] \in Job
      /\ \A b \in Consumers : consumer[b].at # "idle" =>
           consumer[b].receipt \in Receipts
  BY DEF TypeOK, Does, Work
<1>3. ASSUME NEW phase \in {"idle", "prepare", "parts", "accept", "fail", "ack"},
             Turns(c, phase), consumer[c].at # "idle"
      PROVE  Run
  BY <1>2, <1>3, RunGoesOn
<1>4. ASSUME consumer' = [consumer EXCEPT ![c] = Idle]
      PROVE  Run
  <2>1. Idle \in Job /\ Idle.at = "idle"
    BY DEF Idle, Job
  <2> QED BY <1>2, <1>4, <2>1
<1>5. ASSUME NEW e \in Receipts, TakeWork(c, e) PROVE TypeOK'
  <2> DEFINE new == [at |-> IF work[e] = "ready" THEN "prepare" ELSE "ack",
                     receipt |-> e]
  <2>1. new \in Job /\ new.receipt = e
    BY DEF Job
  <2>2. consumer' = [consumer EXCEPT ![c] = new]
    BY <1>5 DEF TakeWork
  <2> HIDE DEF new
  <2>3. Run
    BY <1>2, <2>1, <2>2
  <2> QED BY <1>5, <2>3
          DEF TakeWork, TypeOK, At, Receipt, Does, Work, store, addresses,
              timers, world
<1>6. ASSUME NEW verdict \in Verdict, Prepare(c, verdict) PROVE TypeOK'
  <2>1. Run
    BY <1>3, <1>6 DEF Prepare, Does
  <2> QED BY <1>6, <2>1
          DEF Prepare, TypeOK, At, Receipt, Does, Work, store, addresses,
              timers, world
<1>7. CASE StoreParts(c)
  <2>1. Run
    BY <1>3, <1>7 DEF StoreParts, Does
  <2>2. Work(c) \in Receipts
    BY <1>7 DEF StoreParts, TypeOK, Does
  <2> QED BY <1>7, <2>1, <2>2
          DEF StoreParts, TypeOK, At, Receipt, Does, Work, store, addresses,
              timers, world
<1>8. CASE AcceptInbound(c)
  <2>1. Run
    BY <1>3, <1>8 DEF AcceptInbound, Does
  <2>2. Work(c) \in Receipts
    BY <1>8 DEF AcceptInbound, TypeOK, Does
  <2>3. work' \in [Receipts -> WorkStates] /\ messages' \subseteq Receipts
    BY <1>8, <2>2 DEF AcceptInbound, TypeOK, WorkStates
  <2> QED BY <1>8, <2>1, <2>3
          DEF AcceptInbound, TypeOK, At, Receipt, Does, Work, addresses, timers,
              world
<1>9. CASE FailInboundReceiptPolicy(c)
  <2>1. Run
    BY <1>3, <1>9 DEF FailInboundReceiptPolicy, Does
  <2>2. work' \in [Receipts -> WorkStates]
    BY <1>9 DEF FailInboundReceiptPolicy, TypeOK, WorkStates
  <2> QED BY <1>9, <2>1, <2>2
          DEF FailInboundReceiptPolicy, TypeOK, At, Receipt, Does, Work,
              addresses, timers, world
<1>10. CASE Ack(c)
  <2>1. Run
    BY <1>4, <1>10 DEF Ack
  <2> QED BY <1>10, <2>1
          DEF Ack, TypeOK, At, Receipt, Does, Work, store, addresses, timers,
              world
<1>11. ASSUME NEW retried \in BOOLEAN, IndexingFails(c, retried) PROVE TypeOK'
  <2>1. Run
    BY <1>4, <1>11 DEF IndexingFails
  <2>2. Work(c) \in Receipts
    BY <1>11 DEF IndexingFails, TypeOK, Does
  <2>3. faults' \in 0..MaxFaults
    BY <1>11, InboundAssumption DEF IndexingFails, TypeOK
  <2> QED BY <1>11, <2>1, <2>2, <2>3
          DEF IndexingFails, TypeOK, At, Receipt, Does, Work, store, addresses,
              timers, world
<1> QED BY <1>1, <1>5, <1>6, <1>7, <1>8, <1>9, <1>10, <1>11 DEF IndexStep

(* The operator's calls and the redrive keep everything well typed.        *)
LEMMA TypeRest ==
  ASSUME TypeOK, OperatorStep \/ RedriveStep
  PROVE  TypeOK'
<1>1. ASSUME NEW m \in Mailboxes, CreateAddress(m) \/ PatchAddress(m) \/ RetireAddress(m)
      PROVE  TypeOK'
  <2>1. mailbox' \in [Mailboxes -> MailboxStates]
    BY <1>1 DEF CreateAddress, PatchAddress, RetireAddress, TypeOK, MailboxStates
  <2> QED BY <1>1, <2>1
          DEF CreateAddress, PatchAddress, RetireAddress, TypeOK, At, Receipt,
              Does, Work, store, timers, world
<1>2. ASSUME NEW m \in Mailboxes, NEW target \in Destinations \cup {NoDestination},
             SetAddressForwarding(m, target)
      PROVE  TypeOK'
  <2>1. forwardTo' \in [Mailboxes -> Destinations \cup {NoDestination}]
    BY <1>2 DEF SetAddressForwarding, TypeOK
  <2> QED BY <1>2, <2>1
          DEF SetAddressForwarding, TypeOK, At, Receipt, Does, Work, store,
              timers, world
<1>3. ASSUME NEW e \in Receipts, RedriveComesDue(e) \/ SendRedrive(e) PROVE TypeOK'
  BY <1>3 DEF RedriveComesDue, SendRedrive, TypeOK, At, Receipt, Does, Work,
              store, addresses, timers, world
<1>4. CASE RedriveDueInboundReceipts
  <2>1. PICK batch \in Batches : redrive' = batch /\ due' = Due \ batch
                                 /\ passedOver' = Due \ batch
    BY <1>4 DEF RedriveDueInboundReceipts
  <2>2. batch \subseteq Due /\ Due \subseteq due
    BY DEF Batches, Due
  <2> QED BY <1>4, <2>1, <2>2
          DEF RedriveDueInboundReceipts, TypeOK, At, Receipt, Does, Work, store,
              addresses, world
<1>5. CASE RedriveFails
  <2>1. faults' \in 0..MaxFaults
    BY <1>5, InboundAssumption DEF RedriveFails, TypeOK
  <2> QED BY <1>5, <2>1 DEF RedriveFails, TypeOK, At, Receipt, Does, Work,
                           store, addresses, timers, world
<1> QED BY <1>1, <1>2, <1>3, <1>4, <1>5 DEF OperatorStep, RedriveStep

LEMMA TypeStep == TypeOK /\ [Next]_vars => TypeOK'
<1> SUFFICES ASSUME TypeOK, [Next]_vars PROVE TypeOK'
  OBVIOUS
<1>1. CASE UNCHANGED vars
  BY <1>1 DEF vars, store, addresses, timers, world, TypeOK, At, Receipt, Does,
              Work
<1>2. CASE DeliveryStep
  BY <1>2, TypeDelivery DEF DeliveryStep
<1> QED BY <1>1, <1>2, TypeConsumer, TypeRest DEF Next

(* TypeOK holds in every reachable state.                                  *)
THEOREM InboundTypeCorrect == Spec => []TypeOK
BY TypeInit, TypeStep, PTL DEF Spec

-----------------------------------------------------------------------------
(* Nothing accepted is lost.                                               *)

(* What one call of the handler may rely on: its mailbox exists, and what  *)
(* it has archived and registered is there.                                *)
CallHolds(d) ==
  /\ delivery[d].at \in Open => mailbox[MailboxOf[Receipt(d)]] # "none"
  /\ delivery[d].at \in Open \ {"archive"} => RawOf[Receipt(d)] \in archive
  /\ delivery[d].at \in Open \ {"archive", "register"} => work[Receipt(d)] # "none"

(* What one run of the consumer may rely on.                               *)
RunHolds(c) ==
  /\ consumer[c].at # "idle" => work[Work(c)] # "none"
  /\ consumer[c].at = "accept" => Work(c) \in parts

(* The inductive invariant: whatever refers to a receipt refers to a       *)
(* registered one, and what is registered is archived for a mailbox.       *)
KeepInv ==
  /\ TypeOK
  /\ \A e \in Receipts : work[e] # "none" =>
       RawOf[e] \in archive /\ mailbox[MailboxOf[e]] # "none"
  /\ \A d \in Deliveries : CallHolds(d)
  /\ \A c \in Consumers : RunHolds(c)
  /\ \A e \in queue \cup redrive \cup answered : work[e] # "none"
  /\ MessageIffIndexed
  /\ messages \subseteq parts

(* No step unregisters a receipt, removes a mailbox or empties the archive.*)
Grows ==
  /\ archive \subseteq archive' /\ parts \subseteq parts'
  /\ \A e \in Receipts : work[e] # "none" => work'[e] # "none"
  /\ \A m \in Mailboxes : mailbox[m] # "none" => mailbox'[m] # "none"

LEMMA StoreGrows == TypeOK /\ [Next]_vars => Grows
<1> SUFFICES ASSUME TypeOK, [Next]_vars PROVE Grows
  OBVIOUS
<1> USE DEF Grows, store, addresses, timers, world
<1>1. CASE UNCHANGED vars
  BY <1>1 DEF vars
<1>2. CASE OperatorStep
  BY <1>2 DEF OperatorStep, CreateAddress, PatchAddress, RetireAddress,
              SetAddressForwarding, TypeOK, MailboxStates
<1>3. CASE RedriveStep
  BY <1>3 DEF RedriveStep, RedriveComesDue, RedriveDueInboundReceipts,
              SendRedrive, RedriveFails
<1>4. CASE DeliveryStep
  <2>1. PICK d \in Deliveries :
          \/ \E e \in Receipts : SetReject(d, e) \/ LookUp(d, e)
          \/ ArchiveRaw(d) \/ RegisterInboundReceipt(d) \/ ClaimForward(d)
          \/ \E sent, ok \in BOOLEAN : Forward(d, sent, ok)
          \/ RecordForward(d) \/ Enqueue(d) \/ Answer(d) \/ DeliveryFails(d)
    BY <1>4 DEF DeliveryStep
  <2>2. CASE RegisterInboundReceipt(d)
    BY <2>2 DEF RegisterInboundReceipt, TypeOK
  <2>3. CASE ~ RegisterInboundReceipt(d)
    BY <2>1, <2>3 DEF SetReject, LookUp, ArchiveRaw, ClaimForward, Forward,
                      RecordForward, Enqueue, Answer, DeliveryFails
  <2> QED BY <2>2, <2>3
<1>5. CASE ConsumerStep
  <2>1. PICK c \in Consumers :
          \/ \E e \in Receipts : TakeWork(c, e)
          \/ IndexStep(c)
          \/ \E retried \in BOOLEAN : IndexingFails(c, retried)
    BY <1>5 DEF ConsumerStep
  <2>2. CASE AcceptInbound(c) \/ FailInboundReceiptPolicy(c)
    BY <2>2 DEF AcceptInbound, FailInboundReceiptPolicy, TypeOK
  <2>3. CASE ~ (AcceptInbound(c) \/ FailInboundReceiptPolicy(c))
    BY <2>1, <2>3 DEF IndexStep, TakeWork, Prepare, StoreParts, Ack, IndexingFails
  <2> QED BY <2>2, <2>3
<1> QED BY <1>1, <1>2, <1>3, <1>4, <1>5 DEF Next

(* A call or a run that does not move keeps what it relies on.             *)
LEMMA OthersHold ==
  ASSUME KeepInv, [Next]_vars
  PROVE  /\ \A d \in Deliveries : delivery'[d] = delivery[d] => CallHolds(d)'
         /\ \A c \in Consumers : consumer'[c] = consumer[c] => RunHolds(c)'
<1>1. Grows
  BY StoreGrows DEF KeepInv
<1>2. ASSUME NEW d \in Deliveries, delivery'[d] = delivery[d] PROVE CallHolds(d)'
  <2>1. CASE delivery[d].at \in Open
    <3>1. Receipt(d) \in Receipts /\ MailboxOf[Receipt(d)] \in Mailboxes
      BY <2>1, InboundAssumption DEF KeepInv, TypeOK, At, Receipt, Open
    <3> QED BY <1>1, <1>2, <3>1 DEF KeepInv, CallHolds, Grows, Receipt
  <2>2. CASE delivery[d].at \notin Open
    BY <1>2, <2>2 DEF CallHolds, Receipt
  <2> QED BY <2>1, <2>2
<1>3. ASSUME NEW c \in Consumers, consumer'[c] = consumer[c] PROVE RunHolds(c)'
  <2>1. consumer[c].at # "idle" => Work(c) \in Receipts
    BY DEF KeepInv, TypeOK, Does
  <2> QED BY <1>1, <1>3, <2>1 DEF KeepInv, RunHolds, Grows, Work
<1> QED BY <1>2, <1>3

LEMMA KeepInit == Init => KeepInv
<1> SUFFICES ASSUME Init PROVE KeepInv
  OBVIOUS
<1>1. /\ \A d \in Deliveries : delivery[d].at = "new"
      /\ \A c \in Consumers : consumer[c].at = "idle"
      /\ \A e \in Receipts : work[e] = "none"
  BY DEF Init
<1> QED BY <1>1, TypeInit
        DEF Init, KeepInv, CallHolds, RunHolds, MessageIffIndexed, Open

(* Every step keeps what refers to a receipt pointing at a registered one. *)
LEMMA KeepStep == KeepInv /\ [Next]_vars => KeepInv'
<1> SUFFICES ASSUME KeepInv, [Next]_vars PROVE KeepInv'
  OBVIOUS
<1>1. TypeOK /\ TypeOK' /\ Grows
  BY TypeStep, StoreGrows DEF KeepInv
<1> USE DEF store, addresses, timers, world
<1> DEFINE Tables ==
      /\ \A e \in Receipts : work'[e] # "none" =>
           RawOf[e] \in archive' /\ mailbox'[MailboxOf[e]] # "none"
      /\ \A e \in queue' \cup redrive' \cup answered' : work'[e] # "none"
      /\ \A e \in Receipts : work'[e] = "indexed" <=> e \in messages'
      /\ messages' \subseteq parts'
<1>2. ASSUME UNCHANGED <<work, messages>>,
             queue' \cup redrive' \cup answered'
               \subseteq queue \cup redrive \cup answered
      PROVE  Tables
  <2>1. \A e \in Receipts : MailboxOf[e] \in Mailboxes
    BY InboundAssumption
  <2>2. \A e \in Receipts : work[e] # "none" =>
          RawOf[e] \in archive' /\ mailbox'[MailboxOf[e]] # "none"
    BY <1>1, <2>1 DEF KeepInv, Grows
  <2> QED BY <1>1, <1>2, <2>2 DEF KeepInv, Grows, MessageIffIndexed
<1>3. ASSUME Tables,
             \A d \in Deliveries : delivery'[d] = delivery[d] \/ CallHolds(d)',
             \A c \in Consumers : consumer'[c] = consumer[c] \/ RunHolds(c)'
      PROVE  KeepInv'
  BY <1>1, <1>3, OthersHold DEF KeepInv, MessageIffIndexed
<1> HIDE DEF Tables
<1>4. CASE UNCHANGED vars
  BY <1>2, <1>3, <1>4 DEF vars
<1>5. CASE OperatorStep
  <2>1. UNCHANGED <<work, messages, queue, redrive, answered, delivery, consumer>>
    BY <1>5 DEF OperatorStep, CreateAddress, PatchAddress, RetireAddress,
                SetAddressForwarding
  <2> QED BY <1>2, <1>3, <2>1
<1>6. CASE RedriveStep
  <2>1. UNCHANGED <<work, messages, answered, delivery, consumer>>
    BY <1>6 DEF RedriveStep, RedriveComesDue, RedriveDueInboundReceipts,
                SendRedrive, RedriveFails
  <2>2. CASE RedriveDueInboundReceipts
    <3>1. PICK batch \in Batches : redrive' = batch
      BY <2>2 DEF RedriveDueInboundReceipts
    <3>2. \A e \in redrive' : e \in Receipts /\ work[e] # "none"
      BY <1>1, <3>1 DEF Batches, Due, TypeOK
    <3>3. queue' = queue /\ archive' = archive /\ mailbox' = mailbox /\ parts' = parts
      BY <2>2 DEF RedriveDueInboundReceipts
    <3>4. Tables
      BY <2>1, <3>2, <3>3 DEF Tables, KeepInv, MessageIffIndexed
    <3> QED BY <1>3, <2>1, <3>4
  <2>3. CASE ~ RedriveDueInboundReceipts
    <3>1. queue' \cup redrive' \subseteq queue \cup redrive
      BY <1>6, <2>3 DEF RedriveStep, RedriveComesDue, SendRedrive, RedriveFails
    <3> QED BY <1>2, <1>3, <2>1, <3>1
  <2> QED BY <2>2, <2>3
<1>7. CASE DeliveryStep
  <2>1. PICK d \in Deliveries :
          \/ \E e \in Receipts : SetReject(d, e) \/ LookUp(d, e)
          \/ ArchiveRaw(d) \/ RegisterInboundReceipt(d) \/ ClaimForward(d)
          \/ \E sent, ok \in BOOLEAN : Forward(d, sent, ok)
          \/ RecordForward(d) \/ Enqueue(d) \/ Answer(d) \/ DeliveryFails(d)
    BY <1>7 DEF DeliveryStep
  <2>2. UNCHANGED <<consumer, redrive, messages, parts, mailbox>>
    BY <2>1 DEF SetReject, LookUp, ArchiveRaw, RegisterInboundReceipt,
                ClaimForward, Forward, RecordForward, Enqueue, Answer, DeliveryFails
  <2>3. CASE \E e \in Receipts : SetReject(d, e) \/ LookUp(d, e)
    <3>1. PICK e \in Receipts : SetReject(d, e) \/ LookUp(d, e)
      BY <2>3
    <3>2. delivery \in [Deliveries -> Call]
      BY <1>1 DEF TypeOK
    <3>3. \A f \in Deliveries \ {d} : delivery'[f] = delivery[f]
      BY <3>1, <3>2 DEF SetReject, LookUp
    <3>4. \/ delivery'[d].at = "rejected"
          \/ /\ delivery'[d].at = "archive" /\ delivery'[d].receipt = e
             /\ mailbox'[MailboxOf[e]] = "active"
      <4>1. CASE LookUp(d, e)
        <5>1. /\ delivery'[d].at = "archive" /\ delivery'[d].receipt = e
              /\ mailbox[MailboxOf[e]] = "active"
          BY <3>2, <4>1 DEF LookUp, Receives
        <5> QED BY <2>2, <5>1
      <4>2. CASE SetReject(d, e)
        <5>1. delivery' = [delivery EXCEPT ![d] =
                             [delivery[d] EXCEPT !.at = "rejected", !.receipt = e]]
          BY <4>2 DEF SetReject
        <5>2. delivery[d] \in Call
          BY <3>2
        <5>3. [delivery[d] EXCEPT !.at = "rejected", !.receipt = e].at = "rejected"
          BY <5>2 DEF Call
        <5> QED BY <3>2, <5>1, <5>3
      <4> QED BY <3>1, <4>1, <4>2
    <3>5. CallHolds(d)'
      BY <3>4 DEF CallHolds, Receipt, Open
    <3>6. UNCHANGED <<work, queue, answered>>
      BY <3>1 DEF SetReject, LookUp
    <3> QED BY <1>2, <1>3, <2>2, <3>3, <3>5, <3>6
  <2>4. CASE ArchiveRaw(d)
    <3>1. GoesTo(d, "register") /\ delivery[d].at = "archive"
      BY <2>4 DEF ArchiveRaw, At
    <3>2. /\ delivery'[d].at = "register" /\ Receipt(d)' = Receipt(d)
          /\ \A f \in Deliveries \ {d} : delivery'[f] = delivery[f]
      BY <1>1, <3>1, GoesOn DEF Open, Receipt
    <3>3. CallHolds(d)
      BY DEF KeepInv
    <3>4. CallHolds(d)'
      BY <2>2, <2>4, <3>1, <3>2, <3>3 DEF ArchiveRaw, CallHolds, Open
    <3>5. UNCHANGED <<work, queue, answered>>
      BY <2>4 DEF ArchiveRaw
    <3> QED BY <1>2, <1>3, <2>2, <3>2, <3>4, <3>5
  <2>5. CASE RegisterInboundReceipt(d)
    <3> DEFINE e == Receipt(d)
    <3>1. /\ GoesTo(d, AfterRegister(delivery[d].target))
          /\ delivery[d].at = "register"
          /\ AfterRegister(delivery[d].target) \in {"claim", "enqueue"}
      BY <2>5 DEF RegisterInboundReceipt, At, AfterRegister
    <3>2. /\ delivery'[d].at \in {"claim", "enqueue"} /\ Receipt(d)' = e
          /\ \A f \in Deliveries \ {d} : delivery'[f] = delivery[f]
      BY <1>1, <3>1, GoesOn DEF Open, Receipt
    <3>3. CallHolds(d) /\ e \in Receipts
      BY <1>1, <3>1 DEF KeepInv, TypeOK, At
    <3>4. /\ work \in [Receipts -> WorkStates]
          /\ work' = [work EXCEPT ![e] = IF @ = "none" THEN "ready" ELSE @]
          /\ UNCHANGED <<queue, answered, archive>>
      BY <1>1, <2>5 DEF RegisterInboundReceipt, TypeOK
    <3>5. /\ \A x \in Receipts \ {e} : work'[x] = work[x]
          /\ work'[e] = IF work[e] = "none" THEN "ready" ELSE work[e]
      BY <3>3, <3>4
    <3>6. RawOf[e] \in archive' /\ mailbox'[MailboxOf[e]] # "none" /\ work'[e] # "none"
      BY <2>2, <3>1, <3>3, <3>4, <3>5 DEF CallHolds, Open
    <3> HIDE DEF e
    <3>7. CallHolds(d)'
      BY <3>2, <3>6 DEF CallHolds
    <3>8. Tables
      BY <1>1, <2>2, <3>4, <3>5, <3>6 DEF Tables, KeepInv, MessageIffIndexed, TypeOK
    <3> QED BY <1>3, <2>2, <3>2, <3>7, <3>8
  <2>6. ASSUME NEW phase \in Open \cup Ended,
               delivery[d].at \in Open \ {"archive", "register"},
               /\ delivery'[d].at = phase /\ Receipt(d)' = Receipt(d)
               /\ \A f \in Deliveries \ {d} : delivery'[f] = delivery[f],
               UNCHANGED <<work, archive>>,
               queue' \cup answered' \subseteq queue \cup answered \cup {Receipt(d)}
        PROVE  KeepInv'
    <3>1. CallHolds(d) /\ Receipt(d) \in Receipts
      BY <1>1, <2>6 DEF KeepInv, TypeOK, At, Open
    <3>2. CallHolds(d)'
      BY <2>2, <2>6, <3>1 DEF CallHolds, Open
    <3>3. Tables
      BY <2>2, <2>6, <3>1 DEF Tables, KeepInv, MessageIffIndexed, CallHolds
    <3> QED BY <1>3, <2>2, <2>6, <3>2, <3>3
  <2>7. CASE ClaimForward(d) \/ RecordForward(d) \/ Enqueue(d) \/ Answer(d)
    <3>1. PICK phase \in Open \cup Ended : GoesTo(d, phase)
      BY <2>7 DEF ClaimForward, RecordForward, Enqueue, Answer, Open, Ended
    <3>2. /\ delivery'[d].at = phase /\ Receipt(d)' = Receipt(d)
          /\ \A f \in Deliveries \ {d} : delivery'[f] = delivery[f]
      BY <1>1, <3>1, GoesOn DEF Receipt
    <3>3. /\ delivery[d].at \in Open \ {"archive", "register"}
          /\ UNCHANGED <<work, archive>>
          /\ queue' \cup answered' \subseteq queue \cup answered \cup {Receipt(d)}
      BY <2>7 DEF ClaimForward, RecordForward, Enqueue, Answer, At, Open
    <3> QED BY <2>6, <3>2, <3>3
  <2>8. ASSUME NEW sent \in BOOLEAN, NEW ok \in BOOLEAN, Forward(d, sent, ok)
        PROVE  KeepInv'
    <3>1. delivery \in [Deliveries -> Call] /\ delivery[d] \in Call
      BY <1>1 DEF TypeOK
    <3>2. delivery' = [delivery EXCEPT ![d] = [delivery[d] EXCEPT !.at = "record", !.ok = ok]]
      BY <2>8 DEF Forward
    <3>3. /\ delivery'[d].at = "record" /\ Receipt(d)' = Receipt(d)
          /\ \A f \in Deliveries \ {d} : delivery'[f] = delivery[f]
      BY <3>1, <3>2 DEF Receipt, Call
    <3>4. /\ delivery[d].at \in Open \ {"archive", "register"}
          /\ UNCHANGED <<work, archive>>
          /\ queue' \cup answered' \subseteq queue \cup answered \cup {Receipt(d)}
          /\ "record" \in Open \cup Ended
      BY <2>8 DEF Forward, At, Open
    <3> QED BY <2>6, <3>3, <3>4
  <2>9. CASE DeliveryFails(d)
    <3>1. GoesTo(d, "failed") /\ "failed" \in Open \cup Ended
      BY <2>9 DEF DeliveryFails, Ended
    <3>2. /\ delivery'[d].at = "failed"
          /\ \A f \in Deliveries \ {d} : delivery'[f] = delivery[f]
      BY <1>1, <3>1, GoesOn
    <3>3. CallHolds(d)'
      BY <3>2 DEF CallHolds, Open
    <3>4. UNCHANGED <<work, queue, answered>>
      BY <2>9 DEF DeliveryFails
    <3> QED BY <1>2, <1>3, <2>2, <3>2, <3>3, <3>4
  <2> QED BY <2>1, <2>3, <2>4, <2>5, <2>7, <2>8, <2>9
<1>8. CASE ConsumerStep
  <2>1. PICK c \in Consumers :
          \/ \E e \in Receipts : TakeWork(c, e)
          \/ IndexStep(c)
          \/ \E retried \in BOOLEAN : IndexingFails(c, retried)
    BY <1>8 DEF ConsumerStep
  <2>2. UNCHANGED <<delivery, redrive, archive, mailbox, answered>>
    BY <2>1 DEF TakeWork, IndexStep, Prepare, StoreParts, AcceptInbound,
                FailInboundReceiptPolicy, Ack, IndexingFails
  <2>3. consumer \in [Consumers -> Job] /\ RunHolds(c)
    BY <1>1 DEF TypeOK, KeepInv
  <2>4. consumer[c].at # "idle" => Work(c) \in Receipts
    BY <1>1 DEF TypeOK, Does
  <2>5. ASSUME NEW e \in Receipts, TakeWork(c, e) PROVE KeepInv'
    <3>1. /\ \A b \in Consumers \ {c} : consumer'[b] = consumer[b]
          /\ consumer'[c].at \in {"prepare", "ack"} /\ Work(c)' = e
      BY <2>3, <2>5 DEF TakeWork, Work
    <3>2. UNCHANGED <<work, messages, queue>> /\ work[e] # "none"
      BY <2>5 DEF TakeWork
    <3>3. RunHolds(c)'
      BY <3>1, <3>2 DEF RunHolds
    <3> QED BY <1>2, <1>3, <2>2, <3>1, <3>2, <3>3
  <2>6. ASSUME NEW phase \in {"prepare", "parts", "accept", "fail", "ack"},
               consumer[c].at # "idle", Turns(c, phase),
               phase = "accept" => Work(c) \in parts',
               queue' = queue, Tables
        PROVE  KeepInv'
    <3>1. /\ consumer'[c].at = phase /\ Work(c)' = Work(c)
          /\ \A b \in Consumers \ {c} : consumer'[b] = consumer[b]
      BY <1>1, <2>6, RunGoesOn DEF Work
    <3>2. work'[Work(c)] # "none"
      BY <1>1, <2>3, <2>4, <2>6 DEF RunHolds, Grows
    <3>3. RunHolds(c)'
      BY <2>6, <3>1, <3>2 DEF RunHolds
    <3> QED BY <1>3, <2>2, <2>6, <3>1, <3>3
  <2>7. CASE \E verdict \in Verdict : Prepare(c, verdict)
    <3>1. PICK verdict \in Verdict : Prepare(c, verdict)
      BY <2>7
    <3>2. PICK phase \in {"parts", "fail"} : Turns(c, phase)
      BY <3>1 DEF Prepare
    <3>3. consumer[c].at # "idle" /\ UNCHANGED <<work, messages, queue>>
      BY <3>1 DEF Prepare, Does
    <3>4. Tables
      BY <1>2, <2>2, <3>3
    <3> QED BY <2>6, <3>2, <3>3, <3>4
  <2>8. CASE StoreParts(c)
    <3>1. /\ Turns(c, "accept") /\ consumer[c].at # "idle"
          /\ Work(c) \in parts' /\ UNCHANGED <<work, messages, queue>>
      BY <2>8 DEF StoreParts, Does
    <3>2. Tables
      BY <1>2, <2>2, <3>1
    <3> QED BY <2>6, <3>1, <3>2
  <2>9. CASE AcceptInbound(c)
    <3> DEFINE e == Work(c)
    <3>1. /\ Turns(c, "ack") /\ consumer[c].at = "accept"
          /\ UNCHANGED <<queue, parts>>
      BY <2>9 DEF AcceptInbound, Does
    <3>2. e \in Receipts /\ e \in parts /\ work[e] # "none"
      BY <2>3, <2>4, <3>1 DEF RunHolds
    <3>3. \/ UNCHANGED <<work, messages>>
          \/ /\ messages' = messages \cup {e}
             /\ work' = [work EXCEPT ![e] = "indexed"]
      BY <2>9 DEF AcceptInbound
    <3> HIDE DEF e
    <3>4. Tables
      <4>1. CASE UNCHANGED <<work, messages>>
        BY <1>2, <2>2, <3>1, <4>1
      <4>2. CASE messages' = messages \cup {e} /\ work' = [work EXCEPT ![e] = "indexed"]
        <5>1. work \in [Receipts -> WorkStates]
          BY <1>1 DEF TypeOK
        <5>2. /\ work'[e] = "indexed"
              /\ \A x \in Receipts \ {e} : work'[x] = work[x]
          BY <3>2, <4>2, <5>1
        <5>3. \A x \in queue \cup redrive \cup answered : x \in Receipts
          BY <1>1 DEF TypeOK
        <5> QED BY <2>2, <3>1, <3>2, <4>2, <5>2, <5>3
                DEF Tables, KeepInv, MessageIffIndexed
      <4> QED BY <3>3, <4>1, <4>2
    <3> QED BY <2>6, <3>1, <3>4
  <2>10. CASE FailInboundReceiptPolicy(c)
    <3> DEFINE e == Work(c)
    <3>1. /\ Turns(c, "ack") /\ consumer[c].at # "idle"
          /\ UNCHANGED <<queue, parts, messages>>
          /\ work' = [work EXCEPT ![e] = IF work[e] = "ready" THEN "policy_failed" ELSE work[e]]
      BY <2>10 DEF FailInboundReceiptPolicy, Failable, Does
    <3>2. e \in Receipts
      BY <2>4, <3>1
    <3>3. work \in [Receipts -> WorkStates]
      BY <1>1 DEF TypeOK
    <3> HIDE DEF e
    <3>4. /\ work'[e] = IF work[e] = "ready" THEN "policy_failed" ELSE work[e]
          /\ \A x \in Receipts \ {e} : work'[x] = work[x]
      BY <3>1, <3>2, <3>3
    <3>5. \A x \in queue \cup redrive \cup answered : x \in Receipts
      BY <1>1 DEF TypeOK
    <3>6. Tables
      BY <2>2, <3>1, <3>4, <3>5 DEF Tables, KeepInv, MessageIffIndexed
    <3> QED BY <2>6, <3>1, <3>6
  <2>11. CASE Ack(c) \/ \E retried \in BOOLEAN : IndexingFails(c, retried)
    <3>1. consumer[c].at # "idle" /\ consumer' = [consumer EXCEPT ![c] = Idle]
      BY <2>11 DEF Ack, IndexingFails, Does
    <3>2. /\ consumer'[c].at = "idle"
          /\ \A b \in Consumers \ {c} : consumer'[b] = consumer[b]
      BY <2>3, <3>1 DEF Idle
    <3>3. RunHolds(c)'
      BY <3>2 DEF RunHolds
    <3>4. UNCHANGED <<work, messages, parts>> /\ queue' \subseteq queue \cup {Work(c)}
      BY <2>11 DEF Ack, IndexingFails
    <3>5. work[Work(c)] # "none"
      BY <2>3, <3>1 DEF RunHolds
    <3>6. Tables
      BY <2>2, <3>4, <3>5 DEF Tables, KeepInv, MessageIffIndexed
    <3> QED BY <1>3, <2>2, <3>2, <3>3, <3>6
  <2> QED BY <2>1, <2>5, <2>7, <2>8, <2>9, <2>10, <2>11 DEF IndexStep
<1> QED BY <1>4, <1>5, <1>6, <1>7, <1>8 DEF Next

(* KeepInv holds in every reachable state.                                 *)
THEOREM KeepInvariant == Spec => []KeepInv
BY KeepInit, KeepStep, PTL DEF Spec

(* Mail a sender was told is accepted is registered and archived, and no   *)
(* run of the consumer meets a missing receipt, address or raw message.    *)
THEOREM NothingAcceptedIsLost == Spec => []AcceptedIsKept
<1>1. KeepInv => AcceptedIsKept
  <2> SUFFICES ASSUME KeepInv PROVE AcceptedIsKept
    OBVIOUS
  <2>1. \A e \in answered \cup queue \cup redrive : e \in Receipts /\ Registered(e)
    BY DEF KeepInv, TypeOK, Registered
  <2>2. \A c \in Consumers : consumer[c].at # "idle" => Registered(Work(c))
    BY DEF KeepInv, TypeOK, RunHolds, Registered, Does
  <2> QED BY <2>1, <2>2 DEF AcceptedIsKept, KeepInv, Does
<1> QED BY <1>1, KeepInvariant, PTL

(* A receipt is indexed exactly when its message is stored.                *)
THEOREM MessagesMatchReceipts == Spec => []MessageIffIndexed
<1>1. KeepInv => MessageIffIndexed
  BY DEF KeepInv
<1> QED BY <1>1, KeepInvariant, PTL

-----------------------------------------------------------------------------
(* Forwarded once.                                                         *)

(* A call that holds the claim of its receipt's forward.                   *)
Claims(d) == delivery[d].at \in {"forward", "record"}

(* What the holder of a claim relies on: nobody else has touched it.       *)
ClaimHolds(d) ==
  Claims(d) =>
    /\ forward[Receipt(d)] = "unknown"
    /\ destination[Receipt(d)] = delivery[d].target
    /\ delivery[d].at = "forward" => copies[Receipt(d)] = 0
    /\ delivery[d].ok /\ delivery[d].at = "record" => copies[Receipt(d)] = 1

(* What a receipt's forward columns say of its copies.                     *)
CopiesHold(e) ==
  /\ copies[e] \in {0, 1}
  /\ forward[e] = "none" => copies[e] = 0
  /\ forward[e] = "success" => copies[e] = 1
  /\ copies[e] = 0 => copiedTo[e] = {}
  /\ copiedTo[e] \subseteq {destination[e]}

(* The inductive invariant: the claim of a receipt's forward has one       *)
(* holder, and until it forwards there is no copy.                         *)
ForwardInv ==
  /\ TypeOK
  /\ \A e \in Receipts : CopiesHold(e)
  /\ \A d \in Deliveries : ClaimHolds(d)
  /\ \A d, f \in Deliveries :
       Claims(d) /\ Claims(f) /\ Receipt(d) = Receipt(f) => d = f

LEMMA ForwardInit == Init => ForwardInv
<1> SUFFICES ASSUME Init PROVE ForwardInv
  OBVIOUS
<1>1. \A d \in Deliveries : delivery[d].at = "new"
  BY DEF Init
<1>2. \A e \in Receipts : CopiesHold(e)
  BY DEF Init, CopiesHold
<1> QED BY <1>1, <1>2, TypeInit DEF ForwardInv, ClaimHolds, Claims

(* Steps that forward nothing keep it, whoever gives up a claim.           *)
LEMMA ForwardUntouched ==
  ASSUME ForwardInv, TypeOK', UNCHANGED <<forward, destination, copies, copiedTo>>,
         NEW d \in Deliveries,
         \A f \in Deliveries \ {d} : delivery'[f] = delivery[f],
         delivery'[d] = delivery[d] \/ delivery'[d].at \notin {"forward", "record"}
  PROVE  ForwardInv'
<1>1. \A e \in Receipts : CopiesHold(e)'
  BY DEF ForwardInv, CopiesHold
<1>2. \A f \in Deliveries : Claims(f)' => Claims(f) /\ delivery'[f] = delivery[f]
  BY DEF Claims
<1>3. \A f \in Deliveries : ClaimHolds(f)'
  <2> SUFFICES ASSUME NEW f \in Deliveries, Claims(f)' PROVE ClaimHolds(f)'
    BY DEF ClaimHolds
  <2>1. ClaimHolds(f) /\ Claims(f) /\ delivery'[f] = delivery[f]
    BY <1>2 DEF ForwardInv
  <2> QED BY <2>1 DEF ClaimHolds, Receipt
<1>4. \A f \in Deliveries : Claims(f)' => Receipt(f)' = Receipt(f)
  BY <1>2 DEF Receipt
<1> QED BY <1>1, <1>2, <1>3, <1>4 DEF ForwardInv

LEMMA ForwardStep == ForwardInv /\ [Next]_vars => ForwardInv'
<1> SUFFICES ASSUME ForwardInv, [Next]_vars PROVE ForwardInv'
  OBVIOUS
<1>1. TypeOK /\ TypeOK'
  BY TypeStep DEF ForwardInv
<1> USE DEF store, addresses, timers, world
<1>2. ASSUME UNCHANGED <<forward, destination, copies, copiedTo, delivery>>
      PROVE  ForwardInv'
  BY <1>1, <1>2 DEF ForwardInv, CopiesHold, ClaimHolds, Claims, Receipt
<1>3. CASE UNCHANGED vars
  BY <1>2, <1>3 DEF vars
<1>4. CASE OperatorStep
  BY <1>2, <1>4 DEF OperatorStep, CreateAddress, PatchAddress, RetireAddress,
                    SetAddressForwarding
<1>5. CASE RedriveStep
  BY <1>2, <1>5 DEF RedriveStep, RedriveComesDue, RedriveDueInboundReceipts,
                    SendRedrive, RedriveFails
<1>6. CASE ConsumerStep
  BY <1>2, <1>6 DEF ConsumerStep, TakeWork, IndexStep, Prepare, StoreParts,
                    AcceptInbound, FailInboundReceiptPolicy, Ack, IndexingFails
<1>7. CASE DeliveryStep
  <2>1. PICK d \in Deliveries :
          \/ \E e \in Receipts : SetReject(d, e) \/ LookUp(d, e)
          \/ ArchiveRaw(d) \/ RegisterInboundReceipt(d) \/ ClaimForward(d)
          \/ \E sent, ok \in BOOLEAN : Forward(d, sent, ok)
          \/ RecordForward(d) \/ Enqueue(d) \/ Answer(d) \/ DeliveryFails(d)
    BY <1>7 DEF DeliveryStep
  <2>2. /\ delivery \in [Deliveries -> Call] /\ delivery[d] \in Call
        /\ forward \in [Receipts -> ForwardOutcomes]
        /\ destination \in [Receipts -> Destinations \cup {NoDestination}]
        /\ copies \in [Receipts -> Nat]
        /\ copiedTo \in [Receipts -> SUBSET Destinations]
    BY <1>1 DEF TypeOK
  <2>3. /\ ClaimHolds(d)
        /\ delivery[d].at # "new" => Receipt(d) \in Receipts /\ CopiesHold(Receipt(d))
    BY <1>1 DEF ForwardInv, TypeOK, At
  <2>4. CASE \E e \in Receipts : SetReject(d, e) \/ LookUp(d, e)
    <3>1. PICK e \in Receipts : SetReject(d, e) \/ LookUp(d, e)
      BY <2>4
    <3> DEFINE new == IF LookUp(d, e)
                      THEN [at |-> "archive", receipt |-> e,
                            target |-> forwardTo[MailboxOf[e]], ok |-> FALSE]
                      ELSE [delivery[d] EXCEPT !.at = "rejected", !.receipt = e]
    <3>2. new.at \in {"archive", "rejected"}
      BY <2>2 DEF Call
    <3>3. delivery' = [delivery EXCEPT ![d] = new]
      BY <3>1 DEF LookUp, SetReject
    <3>4. UNCHANGED <<forward, destination, copies, copiedTo>>
      BY <3>1 DEF LookUp, SetReject
    <3> HIDE DEF new
    <3>5. /\ \A f \in Deliveries \ {d} : delivery'[f] = delivery[f]
          /\ delivery'[d].at \notin {"forward", "record"}
      BY <2>2, <3>2, <3>3
    <3> QED BY <1>1, <3>4, <3>5, ForwardUntouched
  <2>5. CASE \/ ArchiveRaw(d) \/ RegisterInboundReceipt(d) \/ Enqueue(d)
             \/ Answer(d) \/ DeliveryFails(d)
    <3>1. PICK phase \in {"register", "claim", "enqueue", "answer", "accepted", "failed"} :
            GoesTo(d, phase)
      BY <2>5 DEF ArchiveRaw, RegisterInboundReceipt, AfterRegister, Enqueue,
                  Answer, DeliveryFails
    <3>2. /\ delivery'[d].at = phase
          /\ \A f \in Deliveries \ {d} : delivery'[f] = delivery[f]
      BY <1>1, <3>1, GoesOn DEF Open, Ended
    <3>3. UNCHANGED <<forward, destination, copies, copiedTo>>
      BY <2>5 DEF ArchiveRaw, RegisterInboundReceipt, Enqueue, Answer, DeliveryFails
    <3> QED BY <1>1, <3>2, <3>3, ForwardUntouched
  <2>6. CASE ClaimForward(d) /\ ~ Observes(Receipt(d), "unknown")
    <3>1. GoesTo(d, "enqueue") /\ UNCHANGED <<forward, destination, copies, copiedTo>>
      BY <2>6 DEF ClaimForward, ObserveInboundForward
    <3>2. /\ delivery'[d].at = "enqueue"
          /\ \A f \in Deliveries \ {d} : delivery'[f] = delivery[f]
      BY <1>1, <3>1, GoesOn DEF Open
    <3> QED BY <1>1, <3>1, <3>2, ForwardUntouched
  <2>7. CASE ClaimForward(d) /\ Observes(Receipt(d), "unknown")
    <3> DEFINE e == Receipt(d)
    <3>1. /\ delivery[d].at = "claim" /\ GoesTo(d, "forward")
          /\ forward[e] = "none"
          /\ forward' = [forward EXCEPT ![e] = "unknown"]
          /\ destination' = [destination EXCEPT ![e] = delivery[d].target]
          /\ UNCHANGED <<copies, copiedTo>>
      BY <2>7 DEF ClaimForward, At, ObserveInboundForward, Observes
    <3>2. /\ delivery'[d].at = "forward" /\ Receipt(d)' = e
          /\ delivery'[d].target = delivery[d].target
          /\ \A f \in Deliveries \ {d} : delivery'[f] = delivery[f]
      BY <1>1, <3>1, GoesOn DEF Open, Receipt
    <3>3. e \in Receipts /\ copies[e] = 0 /\ copiedTo[e] = {}
      BY <2>3, <3>1 DEF CopiesHold
    <3> HIDE DEF e
    <3>4. /\ forward'[e] = "unknown" /\ destination'[e] = delivery[d].target
          /\ \A x \in Receipts \ {e} : forward'[x] = forward[x] /\ destination'[x] = destination[x]
      BY <2>2, <3>1, <3>3
    <3>5. \A f \in Deliveries \ {d} : Claims(f)' => Claims(f) /\ Receipt(f)' # e
      BY <3>1, <3>2 DEF ForwardInv, ClaimHolds, Claims, Receipt
    <3>6. \A x \in Receipts : CopiesHold(x)'
      BY <3>1, <3>3, <3>4 DEF ForwardInv, CopiesHold
    <3>7. ClaimHolds(d)'
      BY <3>1, <3>2, <3>3, <3>4 DEF ClaimHolds, Claims
    <3>8. ASSUME NEW f \in Deliveries \ {d}, Claims(f)' PROVE ClaimHolds(f)'
      <4>1. ClaimHolds(f) /\ Claims(f) /\ Receipt(f) \in Receipts /\ Receipt(f) # e
        BY <1>1, <3>2, <3>5, <3>8 DEF ForwardInv, TypeOK, At, Claims, Receipt
      <4> QED BY <3>1, <3>2, <3>4, <4>1 DEF ClaimHolds, Receipt
    <3>9. \A f \in Deliveries : ClaimHolds(f)'
      BY <3>7, <3>8 DEF ClaimHolds
    <3>10. \A f \in Deliveries \ {d} : Claims(f)' => Receipt(f)' = Receipt(f)
      BY <3>2 DEF Receipt
    <3> QED BY <1>1, <3>2, <3>5, <3>6, <3>9, <3>10 DEF ForwardInv
  <2>8. ASSUME NEW sent \in BOOLEAN, NEW ok \in BOOLEAN, Forward(d, sent, ok)
        PROVE  ForwardInv'
    <3> DEFINE e == Receipt(d)
               to == copiedTo[e] \cup {delivery[d].target}
               new == [delivery[d] EXCEPT !.at = "record", !.ok = ok]
    <3>1. /\ delivery[d].at = "forward" /\ (ok => sent)
          /\ delivery' = [delivery EXCEPT ![d] = new]
          /\ UNCHANGED <<forward, destination>>
          /\ \/ ~ sent /\ UNCHANGED <<copies, copiedTo>>
             \/ /\ copies' = [copies EXCEPT ![e] = copies[e] + 1]
                /\ copiedTo' = [copiedTo EXCEPT ![e] = to]
      BY <2>8 DEF Forward, At
    <3>2. /\ new.at = "record" /\ new.ok = ok /\ new.receipt = delivery[d].receipt
          /\ new.target = delivery[d].target
      BY <2>2 DEF Call
    <3>3. /\ e \in Receipts /\ copies[e] = 0 /\ copiedTo[e] = {}
          /\ forward[e] = "unknown" /\ destination[e] = delivery[d].target
      BY <2>3, <3>1 DEF ClaimHolds, Claims, CopiesHold
    <3>4. to = {delivery[d].target}
      BY <3>3
    <3> HIDE DEF e, to, new
    <3>5. /\ delivery'[d] = new
          /\ \A f \in Deliveries \ {d} : delivery'[f] = delivery[f]
      BY <2>2, <3>1
    <3>6. Receipt(d)' = e
      BY <3>2, <3>5 DEF Receipt, e
    <3>7. /\ \A x \in Receipts \ {e} : copies'[x] = copies[x] /\ copiedTo'[x] = copiedTo[x]
          /\ \/ ~ sent /\ copies'[e] = 0 /\ copiedTo'[e] = {}
             \/ copies'[e] = 1 /\ copiedTo'[e] = {delivery[d].target}
      BY <2>2, <3>1, <3>3, <3>4
    <3>8. ASSUME NEW x \in Receipts PROVE CopiesHold(x)'
      <4>1. CASE x = e
        BY <3>1, <3>3, <3>7, <4>1 DEF CopiesHold
      <4>2. CASE x # e
        BY <3>1, <3>7, <4>2 DEF ForwardInv, CopiesHold
      <4> QED BY <4>1, <4>2
    <3>9. ClaimHolds(d)'
      BY <3>1, <3>2, <3>3, <3>5, <3>6, <3>7 DEF ClaimHolds
    <3>10. ASSUME NEW f \in Deliveries \ {d}, Claims(f)'
           PROVE  ClaimHolds(f)' /\ Claims(f) /\ Receipt(f)' = Receipt(f) /\ Receipt(f) # e
      <4>1. Claims(f) /\ Receipt(f)' = Receipt(f) /\ ClaimHolds(f)
        BY <3>5, <3>10 DEF Claims, Receipt, ForwardInv
      <4>2. Claims(d)
        BY <3>1 DEF Claims
      <4>3. Receipt(f) \in Receipts /\ Receipt(f) # e
        BY <1>1, <4>1, <4>2 DEF ForwardInv, TypeOK, At, Claims, e
      <4> QED BY <3>1, <3>5, <3>7, <4>1, <4>3 DEF ClaimHolds, Receipt
    <3>11. \A f \in Deliveries : ClaimHolds(f)'
      BY <3>9, <3>10 DEF ClaimHolds
    <3>12. \A f \in Deliveries \ {d} : Claims(f)' =>
             Claims(f) /\ Receipt(f)' = Receipt(f) /\ Receipt(f)' # e
      BY <3>10
    <3> QED BY <1>1, <3>6, <3>8, <3>11, <3>12 DEF ForwardInv
  <2>9. CASE RecordForward(d)
    <3> DEFINE e == Receipt(d)
               kind == Observation(delivery[d].ok)
    <3>1. /\ delivery[d].at = "record" /\ GoesTo(d, "enqueue")
          /\ ObserveInboundForward(e, kind, delivery[d].target)
          /\ UNCHANGED <<copies, copiedTo>>
      BY <2>9 DEF RecordForward, At
    <3>2. /\ delivery'[d].at = "enqueue"
          /\ \A f \in Deliveries \ {d} : delivery'[f] = delivery[f]
      BY <1>1, <3>1, GoesOn DEF Open
    <3>3. /\ e \in Receipts /\ forward[e] = "unknown" /\ destination[e] = delivery[d].target
          /\ delivery[d].ok => copies[e] = 1
      BY <2>3, <3>1 DEF ClaimHolds, Claims
    <3>4. kind \in {"success", "failure"} /\ (kind = "success" => delivery[d].ok)
      BY DEF Observation
    <3> HIDE DEF e, kind
    <3>5. /\ forward' = [forward EXCEPT ![e] = kind]
          /\ destination' = [destination EXCEPT ![e] = delivery[d].target]
      BY <3>1, <3>3, <3>4 DEF ObserveInboundForward, Observes
    <3>6. /\ forward'[e] = kind /\ destination' = destination
          /\ \A x \in Receipts \ {e} : forward'[x] = forward[x]
      BY <2>2, <3>3, <3>5
    <3>7. \A x \in Receipts : CopiesHold(x)'
      BY <3>1, <3>3, <3>4, <3>6 DEF ForwardInv, CopiesHold
    <3>8. ASSUME NEW f \in Deliveries, Claims(f)'
          PROVE  /\ f # d /\ Claims(f) /\ delivery'[f] = delivery[f]
                 /\ Receipt(f) \in Receipts /\ Receipt(f) # e
      <4>1. f # d /\ delivery'[f] = delivery[f] /\ Claims(f)
        BY <3>2, <3>8 DEF Claims
      <4>2. Claims(d)
        BY <3>1 DEF Claims
      <4> QED BY <1>1, <4>1, <4>2 DEF ForwardInv, TypeOK, At, Claims, e
    <3>9. \A f \in Deliveries : ClaimHolds(f)'
      <4> SUFFICES ASSUME NEW f \in Deliveries, Claims(f)' PROVE ClaimHolds(f)'
        BY DEF ClaimHolds
      <4>1. ClaimHolds(f)
        BY DEF ForwardInv
      <4> QED BY <3>1, <3>6, <3>8, <4>1 DEF ClaimHolds, Receipt
    <3>10. \A f \in Deliveries : Claims(f)' => Claims(f) /\ Receipt(f)' = Receipt(f)
      BY <3>8 DEF Receipt
    <3> QED BY <1>1, <3>7, <3>9, <3>10 DEF ForwardInv
  <2> QED BY <2>1, <2>4, <2>5, <2>6, <2>7, <2>8, <2>9
<1> QED BY <1>3, <1>4, <1>5, <1>6, <1>7 DEF Next

(* ForwardInv holds in every reachable state.                              *)
THEOREM ForwardInvariant == Spec => []ForwardInv
BY ForwardInit, ForwardStep, PTL DEF Spec

(* A receipt's mail is forwarded at most once, however often it is         *)
(* delivered and wherever a call dies.                                     *)
THEOREM MailForwardedOnce == Spec => []ForwardedOnce
<1>1. ForwardInv => ForwardedOnce
  BY DEF ForwardInv, CopiesHold, ForwardedOnce
<1> QED BY <1>1, ForwardInvariant, PTL

(* The recorded outcome and destination of a forward are what happened.    *)
THEOREM ForwardsTellTheTruth == Spec => []ForwardTellsTheTruth
<1>1. ForwardInv => ForwardTellsTheTruth
  BY DEF ForwardInv, CopiesHold, ForwardTellsTheTruth
<1> QED BY <1>1, ForwardInvariant, PTL

-----------------------------------------------------------------------------
(* What a receipt has become.                                              *)

(* A settled receipt stays settled, a registered one is never registered   *)
(* anew, and a recorded forward is never taken back: each UPDATE's WHERE   *)
(* clause finds the row as another call may have left it.                  *)
THEOREM ReceiptsNeverGoBack == Spec => ReceiptsMoveOn
<1>1. ASSUME TypeOK, ForwardInv, [Next]_vars, NEW e \in Receipts
      PROVE  ReceiptMovesOn(e)
  <2> USE DEF store, addresses, timers, world
  <2>1. /\ work \in [Receipts -> WorkStates]
        /\ forward \in [Receipts -> ForwardOutcomes]
        /\ destination \in [Receipts -> Destinations \cup {NoDestination}]
    BY <1>1 DEF TypeOK
  <2>2. ASSUME UNCHANGED <<work, forward, destination>> PROVE ReceiptMovesOn(e)
    BY <2>2 DEF ReceiptMovesOn
  <2>3. CASE UNCHANGED vars
    BY <2>2, <2>3 DEF vars
  <2>4. CASE OperatorStep \/ RedriveStep
    BY <2>2, <2>4 DEF OperatorStep, CreateAddress, PatchAddress, RetireAddress,
                      SetAddressForwarding, RedriveStep, RedriveComesDue,
                      RedriveDueInboundReceipts, SendRedrive, RedriveFails
  <2>5. CASE ConsumerStep
    <3>1. PICK c \in Consumers :
            \/ \E x \in Receipts : TakeWork(c, x)
            \/ IndexStep(c)
            \/ \E retried \in BOOLEAN : IndexingFails(c, retried)
      BY <2>5 DEF ConsumerStep
    <3>2. CASE AcceptInbound(c) \/ FailInboundReceiptPolicy(c)
      <4>1. /\ UNCHANGED <<forward, destination>>
            /\ work[e] # "ready" => work'[e] = work[e]
            /\ work'[e] = work[e] \/ work'[e] \in {"indexed", "policy_failed"}
        BY <2>1, <3>2 DEF AcceptInbound, Acceptable, FailInboundReceiptPolicy, Failable
      <4> QED BY <4>1 DEF ReceiptMovesOn
    <3>3. CASE ~ (AcceptInbound(c) \/ FailInboundReceiptPolicy(c))
      BY <2>2, <3>1, <3>3 DEF TakeWork, IndexStep, Prepare, StoreParts, Ack, IndexingFails
    <3> QED BY <3>2, <3>3
  <2>6. CASE DeliveryStep
    <3>1. PICK d \in Deliveries :
            \/ \E x \in Receipts : SetReject(d, x) \/ LookUp(d, x)
            \/ ArchiveRaw(d) \/ RegisterInboundReceipt(d) \/ ClaimForward(d)
            \/ \E sent, ok \in BOOLEAN : Forward(d, sent, ok)
            \/ RecordForward(d) \/ Enqueue(d) \/ Answer(d) \/ DeliveryFails(d)
      BY <2>6 DEF DeliveryStep
    <3>2. CASE RegisterInboundReceipt(d)
      <4>1. /\ UNCHANGED <<forward, destination>>
            /\ work[e] # "none" => work'[e] = work[e]
        BY <2>1, <3>2 DEF RegisterInboundReceipt
      <4> QED BY <4>1 DEF ReceiptMovesOn
    <3>3. CASE ClaimForward(d)
      <4>1. /\ work' = work
            /\ forward[e] # "none" => forward'[e] = forward[e] /\ destination'[e] = destination[e]
        BY <2>1, <3>3 DEF ClaimForward, ObserveInboundForward, Observes
      <4> QED BY <4>1 DEF ReceiptMovesOn
    <3>4. CASE RecordForward(d)
      <4>1. /\ forward[Receipt(d)] = "unknown"
            /\ destination[Receipt(d)] = delivery[d].target
        BY <1>1, <3>4 DEF RecordForward, At, ForwardInv, ClaimHolds, Claims
      <4>2. /\ work' = work
            /\ \/ UNCHANGED <<forward, destination>>
               \/ /\ forward' = [forward EXCEPT ![Receipt(d)] = Observation(delivery[d].ok)]
                  /\ destination' = [destination EXCEPT ![Receipt(d)] = delivery[d].target]
        BY <3>4 DEF RecordForward, ObserveInboundForward
      <4>3. Observation(delivery[d].ok) \in {"success", "failure"}
        BY DEF Observation
      <4>4. /\ destination'[e] = destination[e]
            /\ \/ forward'[e] = forward[e]
               \/ forward[e] = "unknown" /\ forward'[e] # "none"
        <5> DEFINE r == Receipt(d)
                   kind == Observation(delivery[d].ok)
                   to == delivery[d].target
        <5>1. /\ forward[r] = "unknown" /\ destination[r] = to /\ kind # "none"
              /\ \/ UNCHANGED <<forward, destination>>
                 \/ /\ forward' = [forward EXCEPT ![r] = kind]
                    /\ destination' = [destination EXCEPT ![r] = to]
          BY <4>1, <4>2, <4>3
        <5> HIDE DEF r, kind, to
        <5>2. CASE e = r
          BY <2>1, <5>1, <5>2
        <5>3. CASE e # r
          BY <2>1, <5>1, <5>3
        <5> QED BY <5>2, <5>3
      <4> QED BY <4>2, <4>4 DEF ReceiptMovesOn
    <3>5. CASE ~ (RegisterInboundReceipt(d) \/ ClaimForward(d) \/ RecordForward(d))
      BY <2>2, <3>1, <3>5 DEF SetReject, LookUp, ArchiveRaw, Forward, Enqueue,
                              Answer, DeliveryFails
    <3> QED BY <3>2, <3>3, <3>4, <3>5
  <2> QED BY <1>1, <2>3, <2>4, <2>5, <2>6 DEF Next
<1>2. TypeOK /\ ForwardInv /\ [Next]_vars =>
        [\A e \in Receipts : ReceiptMovesOn(e)]_vars
  BY <1>1
<1> QED BY <1>2, InboundTypeCorrect, ForwardInvariant, PTL DEF Spec, ReceiptsMoveOn
=============================================================================
