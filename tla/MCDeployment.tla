---------------------------- MODULE MCDeployment ----------------------------
(***************************************************************************)
(* Deployment for TLC: two mailboxes, two operators' emails, two passwords.*)
(***************************************************************************)
EXTENDS Deployment, TLC

CONSTANTS ops, admin, pw1, pw2, work, home

-----------------------------------------------------------------------------
(* Bounds the instance: sign-ins, and the zone, are explored one beside the *)
(* other, each with the other at rest.                                     *)

Symmetry ==
  Permutations({ops, admin}) \cup Permutations({pw1, pw2}) \cup Permutations({work, home})

\* Deploys and what is signed in: the receiving domain is ready.
AuthRegion ==
  /\ zone = [apex |-> FALSE, enabled |-> TRUE, dkim |-> TRUE, child |-> "ready"]
  /\ catchAll = "foreign" /\ \A m \in Boxes : box[m] = "none"
  /\ \A m \in Boxes : rule[m] = "none"
  /\ tool = Resting /\ changed = {} /\ since = {}

\* The receiving domain of one deploy.
DomainRegion ==
  /\ catchAll = "foreign" /\ \A m \in Boxes : box[m] = "none" /\ rule[m] = "none"
  /\ tool = Resting /\ deploys <= 1
  /\ grants = {} /\ pending = {}

\* The cutover, once a deploy has brought the controller.
CutoverRegion ==
  /\ zone = [apex |-> TRUE, enabled |-> TRUE, dkim |-> TRUE, child |-> "none"]
  /\ "zone" \notin changed /\ foreign = {}
  /\ deploys = 1 /\ deploy = Idle => worker # NoUser
  /\ deploys <= 1
  /\ deploy # Idle \/ deploys = 0 =>
       /\ tool = Resting /\ changed = {} /\ since = {}
       /\ \A m \in Boxes : rule[m] = "none"
  /\ grants = {} /\ pending = {}

Region == AuthRegion \/ DomainRegion \/ CutoverRegion
=============================================================================
