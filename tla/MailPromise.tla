----------------------------- MODULE MailPromise -----------------------------
(***************************************************************************)
(* What the account store promises about each mail it is asked to send,    *)
(* seen by someone who reads the send state and by the mail's recipients:  *)
(* a mail is held until it is cleared, tried once, handed to the provider  *)
(* once, and the state it settles in says what happened to it.             *)
(***************************************************************************)
CONSTANT Mails
VARIABLES state, fate

Init ==
  /\ state = [m \in Mails |-> "none"]
  /\ fate = [m \in Mails |-> "none"]

Submit(m) ==
  /\ state[m] = "none"
  /\ state'[m] \in {"waiting_approval", "ready"}
  /\ fate'[m] = fate[m]

Clear(m) ==
  /\ state[m] = "waiting_approval"
  /\ state'[m] = "ready"
  /\ fate'[m] = fate[m]

(* Rejected before it was tried: nobody has it and nobody will. *)
Reject(m) ==
  /\ state[m] \in {"waiting_approval", "ready"}
  /\ fate[m] = "none"
  /\ state'[m] = "rejected"
  /\ fate'[m] = "none"

Try(m) ==
  /\ state[m] = "ready"
  /\ fate[m] = "none"
  /\ state'[m] = "in_flight"
  /\ fate'[m] = "none"

HandOver(m) ==
  /\ state[m] = "in_flight"
  /\ fate[m] = "none"
  /\ state'[m] = "in_flight"
  /\ fate'[m] = "transit"

(* The provider may be slower than the store's patience. *)
Arrive(m) ==
  /\ fate[m] = "transit"
  /\ fate'[m] \in {"delivered", "refused"}
  /\ state'[m] = state[m]

(* Only what is certain is called accepted or rejected. *)
Settle(m) ==
  /\ state[m] = "in_flight"
  /\ \/ state'[m] = "accepted" /\ fate[m] = "delivered"
     \/ state'[m] = "rejected" /\ fate[m] = "refused"
     \/ state'[m] = "unknown"
  /\ fate'[m] = fate[m]

Stay(m) == state'[m] = state[m] /\ fate'[m] = fate[m]

(* One transaction may move many mails, each by one of these steps. *)
Next ==
  /\ state' \in [Mails -> {"none", "waiting_approval", "ready", "in_flight",
                          "accepted", "rejected", "unknown"}]
  /\ fate' \in [Mails -> {"none", "transit", "delivered", "refused"}]
  /\ \A m \in Mails :
       \/ Submit(m) \/ Clear(m) \/ Reject(m) \/ Try(m) \/ HandOver(m)
       \/ Arrive(m) \/ Settle(m) \/ Stay(m)

Spec == Init /\ [][Next]_<<state, fate>>
=============================================================================
