------------------------------ MODULE Deployment ------------------------------
(***************************************************************************)
(* Deploys of an installation, one at a time, any of which may die: the    *)
(* receiving domain and the auth database, side by side, then the Worker   *)
(* that serves the operator they found, then a look at the catch-all.      *)
(***************************************************************************)
EXTENDS Provisioning, Cutover

CONSTANTS MaxDeploys   \* bound: deploys started

ASSUME DeploymentAssumption == MaxDeploys \in Nat

VARIABLES
  deploy,     \* idle, or its receiving domain's stage, and what is left to do
  deploys     \* bound

vars == <<authVars, zoneVars, deploy, deploys>>

-----------------------------------------------------------------------------
(* Slips the properties are there to catch; the specification uses none.   *)

KnowsItsOperator == provision.at \in {"statics", "done"}

EnableCatchAll ==
  /\ catchAll' = "ours"
  /\ UNCHANGED <<zone, box, rule, ready, tool, changed, since>>

-----------------------------------------------------------------------------
StartDeploy(email, password) ==
  /\ deploy = Idle /\ deploys < MaxDeploys
  /\ deploys' = deploys + 1
  /\ deploy' = [at |-> "resources", domain |-> "inspect"]
  /\ StartProvision(email, password)
  /\ UNCHANGED <<user, account, rows, foreign, grants, pending, worker, zoneVars>>

Provisions ==
  /\ deploy.at = "resources"
  /\ ProvisionStep
  /\ UNCHANGED <<zoneVars, deploy, deploys>>

PreparesDomain ==
  /\ deploy.at = "resources"
  /\ \E next \in {"foundation", "create", "wait", "done", "failed"} :
       DomainStep(deploy.domain, next) /\ deploy' = [deploy EXCEPT !.domain = next]
  /\ UNCHANGED <<authVars, deploys>>

\* The domain is dropped from the configuration.
DropsDomain ==
  /\ deploy = Idle
  /\ RemoveDomain
  /\ UNCHANGED <<authVars, deploy, deploys>>

\* The Worker takes the operator's id from what provisionAuth returns.
Provisioned == provision.at = "done"

DeployWorker ==
  /\ deploy.at = "resources" /\ deploy.domain = "done" /\ Provisioned
  /\ worker' = provision.id
  /\ deploy' = [deploy EXCEPT !.at = "catchAll"]
  /\ UNCHANGED <<user, account, rows, foreign, grants, pending, provision,
                 zoneVars, deploys>>

Ended ==
  /\ deploy' = Idle
  /\ provision' = Idle
  /\ UNCHANGED <<user, account, rows, foreign, grants, pending, worker, deploys>>

\* LegacyCatchAllProvider: reads the catch-all, so that the deployment tool keeps
\* or forgets what it knows of it; never creates, enables or retargets one.
PreserveCatchAll == UNCHANGED zoneVars

\* It may find that the catch-all is not the installation's, which fails the
\* deploy: it ends all the same.
ConfigureMailRouting ==
  /\ deploy.at = "catchAll"
  /\ PreserveCatchAll
  /\ Ended

\* It dies, or fails: what it has done stays.
DeployEnds ==
  /\ deploy # Idle
  /\ Ended
  /\ UNCHANGED zoneVars

-----------------------------------------------------------------------------
Init ==
  /\ AuthInit /\ ZoneInit
  /\ deploy = Idle
  /\ deploys = 0

DeployStep ==
  \/ \E email \in Emails, password \in Passwords : StartDeploy(email, password)
  \/ Provisions
  \/ PreparesDomain
  \/ DropsDomain
  \/ DeployWorker
  \/ ConfigureMailRouting
  \/ DeployEnds

Next ==
  \/ DeployStep
  \/ BetterAuthStep /\ UNCHANGED <<zoneVars, deploy, deploys>>
  \/ /\ \/ ToolStep
        \/ OthersStep
        \/ \E m \in Boxes : ChangeBox(m)
        \/ worker # NoUser /\ \E m \in Boxes : Reconcile(m)
     /\ UNCHANGED <<authVars, deploy, deploys>>

Spec == Init /\ [][Next]_vars
=============================================================================
