------------------------------- MODULE MCDueWork -------------------------------
(***************************************************************************)
(* DueWork for TLC: a row of each kind and short times.                    *)
(***************************************************************************)
EXTENDS DueWork

CONSTANTS m1, r1, b1

\* Bounds the instance: a message and a receipt meet, and a receipt and a
\* route, but not a message and a route; the second fault needs an instance
\* without a message.
OneOrTheOther ==
  LET mails == \E j \in Jobs : job[j] # "none"
      routes == \E b \in Mailboxes : route[b] # Never \/ life[b] # "live"
  IN ~ mails \/ (~ routes /\ faults < 2)

===============================================================================
