---------------------------- MODULE MCCredentials ----------------------------
(* Credentials for TLC: two processes, and a sign-in that is repeated. *)
EXTENDS Credentials, TLC

CONSTANTS p1, p2

\* Bounds the instance: another server is only asked for by a logout that
\* runs alone, and of two sign-ins only the first one's token is rotated.
Elsewhere == \A p \in Processes : process[p].url = "there" =>
  /\ process[p].command = "logout"
  /\ \A q \in Processes \ {p} : process[q].at = "idle"

Rotated == {t \in live \cup gone : t[2] > 0}

\* After a lock has been taken from its process only the end of the commands
\* is looked at: for one sign-in, whose token is not rotated.
Region ==
  /\ Elsewhere
  /\ \A t \in Rotated : t[1] = 1
  /\ Undisturbed \/ (logins <= 1 /\ Rotated = {})

\* Every process is done before its lock becomes stale.
InTime == \A p \in Processes : Holding(p) => ~ IsStale
=============================================================================
