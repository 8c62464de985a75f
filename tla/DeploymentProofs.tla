--------------------------- MODULE DeploymentProofs ---------------------------
(***************************************************************************)
(* Theorems about Deployment and the modules it is made of, for any number *)
(* of emails, passwords, users, grants, mailboxes and deploys.             *)
(***************************************************************************)
EXTENDS Deployment, TLAPS

-----------------------------------------------------------------------------
(* The zone: the invariant.                                                *)

ZoneTypes ==
  /\ zone \in [apex : BOOLEAN, enabled : BOOLEAN, dkim : BOOLEAN,
               child : {"none", "registered", "ready"}]
  /\ catchAll \in {"ours", "foreign", "off", "drop"}
  /\ box \in [Boxes -> {"none", "active", "paused", "retired"}]
  /\ rule \in [Boxes -> {"none", "ours", "foreign"}]
  /\ ready \subseteq Boxes /\ since \subseteq Boxes /\ changed \subseteq {"zone", "catchAll"}
  /\ \/ tool \in {Resting, [at |-> "put"]}
     \/ tool \in [at : {"rules", "catchAll"}, execute : BOOLEAN,
                  boxes : SUBSET Boxes, ready : SUBSET Boxes]
     \/ tool \in [at : {"fresh"}, saw : {"ours"}]

DeployTypes ==
  deploy = Idle \/ deploy \in [at : {"resources", "catchAll"},
                               domain : {"inspect", "foundation", "create", "wait",
                                         "done", "failed"}]

Receives(m) == box[m] \in {"active", "paused"}

\* A mailbox that receives keeps its mail without the catch-all, or others
\* are to blame.
Keeps(m) == Receives(m) => rule[m] = "ours" \/ m \in since

\* What the cutover knows, at each of its calls.
ToolKnows ==
  /\ tool.at \in {"rules", "catchAll"} =>
       \A m \in Boxes : Receives(m) => m \in tool.boxes \/ m \in since
  /\ tool.at = "catchAll" => \A m \in tool.ready : Keeps(m)
  /\ tool.at \in {"fresh", "put"} => \A m \in Boxes : Keeps(m)
  /\ tool.at = "put" => catchAll = "ours" \/ "catchAll" \in changed

\* What a deploy knows before it has Cloudflare make the child's records.
DeployKnows ==
  deploy # Idle /\ deploy.domain = "create" =>
    (zone.enabled /\ zone.dkim) \/ "zone" \in changed

ZoneInv == ZoneTypes /\ DeployTypes /\ ToolKnows /\ DeployKnows

-----------------------------------------------------------------------------
(* The zone: each step keeps it.                                           *)

LEMMA ZoneStart == Init => ZoneInv
BY DEF Init, ZoneInit, ZoneInv, ZoneTypes, DeployTypes, ToolKnows, DeployKnows,
       Resting

\* While the command waits, whoever makes a mailbox receive, or takes its rule,
\* is seen in since; and whoever changes the catch-all in changed.
LEMMA ToolWaits ==
  ASSUME ZoneTypes, ToolKnows, tool' = tool,
         \A m \in Boxes : Keeps(m) => Keeps(m)',
         \A m \in Boxes : Receives(m)' => Receives(m) \/ m \in since',
         since \subseteq since',
         catchAll' = catchAll \/ "catchAll" \in changed',
         "catchAll" \in changed => "catchAll" \in changed'
  PROVE  ToolKnows'
<1>1. tool.at = "catchAll" => tool.ready \subseteq Boxes
  BY DEF ZoneTypes, Resting
<1>2. tool.at \in {"rules", "catchAll"} =>
        \A m \in Boxes : Receives(m)' => m \in tool.boxes \/ m \in since'
  BY DEF ToolKnows
<1> HIDE DEF Keeps, Receives
<1>3. tool.at = "catchAll" => \A m \in tool.ready : Keeps(m)'
  BY <1>1 DEF ToolKnows
<1>4. tool.at \in {"fresh", "put"} => \A m \in Boxes : Keeps(m)'
  BY DEF ToolKnows
<1>5. tool.at = "put" => catchAll' = "ours" \/ "catchAll" \in changed'
  BY DEF ToolKnows
<1> QED
  BY <1>2, <1>3, <1>4, <1>5 DEF ToolKnows

LEMMA MailboxChanges ==
  ASSUME ZoneTypes, ToolKnows, NEW m \in Boxes, ChangeBox(m)
  PROVE  ZoneTypes' /\ ToolKnows'
<1>1. PICK state \in {"active", "paused", "retired"} :
        SetBox(m, state) /\ (box[m] = "none" \/ Receives(m))
  BY DEF ChangeBox, Receives
<1>2. ZoneTypes'
  BY <1>1 DEF SetBox, ZoneTypes
<1>3. \A n \in Boxes : Keeps(n) => Keeps(n)'
  BY <1>1 DEF SetBox, ZoneTypes, Keeps, Receives
<1>4. \A n \in Boxes : Receives(n)' => Receives(n) \/ n \in since'
  BY <1>1 DEF SetBox, ZoneTypes, Receives
<1>5. tool' = tool /\ catchAll' = catchAll /\ changed' = changed /\ since \subseteq since'
  BY <1>1 DEF SetBox
<1> QED
  BY <1>2, <1>3, <1>4, <1>5, ToolWaits

LEMMA RulesReconciled ==
  ASSUME ZoneTypes, ToolKnows, NEW m \in Boxes, Reconcile(m)
  PROVE  ZoneTypes' /\ ToolKnows'
<1>1. ZoneTypes'
  BY DEF Reconcile, ZoneTypes
<1>2. \A n \in Boxes : Keeps(n) => Keeps(n)'
  BY DEF Reconcile, ZoneTypes, Keeps, Receives
<1>3. /\ \A n \in Boxes : Receives(n)' => Receives(n)
      /\ tool' = tool /\ catchAll' = catchAll /\ changed' = changed /\ since' = since
  BY DEF Reconcile, Receives
<1> QED
  BY <1>1, <1>2, <1>3, ToolWaits

LEMMA OthersChange ==
  ASSUME ZoneTypes, ToolKnows, OthersStep
  PROVE  ZoneTypes' /\ ToolKnows'
<1>1. ASSUME NEW m \in Boxes, NEW to \in {"none", "foreign"}, OthersRule(m, to)
      PROVE  ZoneTypes' /\ ToolKnows'
  <2>1. ZoneTypes'
    BY <1>1 DEF OthersRule, ZoneTypes
  <2>2. \A n \in Boxes : Keeps(n) => Keeps(n)'
    BY <1>1 DEF OthersRule, ZoneTypes, Keeps, Receives
  <2>3. /\ \A n \in Boxes : Receives(n)' => Receives(n)
        /\ tool' = tool /\ catchAll' = catchAll /\ changed' = changed
        /\ since \subseteq since'
    BY <1>1 DEF OthersRule, Receives
  <2> QED
    BY <2>1, <2>2, <2>3, ToolWaits
<1>2. ASSUME NEW to \in {"foreign", "off"}, OthersCatchAll(to)
      PROVE  ZoneTypes' /\ ToolKnows'
  <2>1. ZoneTypes'
    BY <1>2 DEF OthersCatchAll, ZoneTypes
  <2>2. /\ \A n \in Boxes : Receives(n)' => Receives(n)
        /\ \A n \in Boxes : Keeps(n) => Keeps(n)'
        /\ tool' = tool /\ "catchAll" \in changed' /\ since' = since
    BY <1>2 DEF OthersCatchAll, Receives, Keeps
  <2> QED
    BY <2>1, <2>2, ToolWaits
<1>3. ASSUME OthersZone \/ ChildChanges PROVE ZoneTypes' /\ ToolKnows'
  BY <1>3 DEF OthersZone, ChildChanges, ZoneTypes, ToolKnows, Keeps, Receives
<1> QED
  BY <1>1, <1>2, <1>3 DEF OthersStep

LEMMA CutoverMoves ==
  ASSUME ZoneTypes, ToolKnows, ToolStep
  PROVE  ZoneTypes' /\ ToolKnows'
<1>1. ASSUME NEW execute \in BOOLEAN, AskServer(execute) PROVE ZoneTypes' /\ ToolKnows'
  BY <1>1 DEF AskServer, ZoneTypes, ToolKnows, Keeps, Receives, NotRetired
<1>2. ASSUME ListRules PROVE ZoneTypes' /\ ToolKnows'
  <2>1. tool \in [at : {"rules", "catchAll"}, execute : BOOLEAN,
                  boxes : SUBSET Boxes, ready : SUBSET Boxes]
    BY <1>2 DEF ListRules, ZoneTypes, Resting
  <2>2. /\ tool' \in [at : {"rules", "catchAll"}, execute : BOOLEAN,
                      boxes : SUBSET Boxes, ready : SUBSET Boxes]
        /\ tool'.at = "catchAll" /\ tool'.boxes = tool.boxes
        /\ \A m \in tool'.ready : rule[m] = "ours"
    BY <1>2, <2>1 DEF ListRules
  <2>3. UNCHANGED <<zone, catchAll, box, rule, ready, changed, since>>
    BY <1>2 DEF ListRules
  <2>4. ZoneTypes'
    BY <2>2, <2>3 DEF ZoneTypes
  <2>5. tool.at = "rules"
    BY <1>2 DEF ListRules
  <2> QED
    BY <2>2, <2>3, <2>4, <2>5 DEF ToolKnows, Keeps, Receives
<1>3. ASSUME InspectCatchAll PROVE ZoneTypes' /\ ToolKnows'
  BY <1>3 DEF InspectCatchAll, Covered, ZoneTypes, ToolKnows, Keeps, Receives, Resting
<1>4. ASSUME LookAgain PROVE ZoneTypes' /\ ToolKnows'
  BY <1>4 DEF LookAgain, SameAsSeen, ZoneTypes, ToolKnows, Keeps, Receives, Resting
<1>5. ASSUME DisableCatchAll \/ ToolFails PROVE ZoneTypes' /\ ToolKnows'
  <2>1. tool' = Resting /\ catchAll' \in {catchAll, "drop"}
        /\ UNCHANGED <<zone, box, rule, ready, changed, since>>
    BY <1>5 DEF DisableCatchAll, ToolFails
  <2>2. ToolKnows'
    BY <2>1 DEF ToolKnows, Resting
  <2>3. ZoneTypes'
    BY <2>1 DEF ZoneTypes
  <2> QED
    BY <2>2, <2>3
<1> QED
  BY <1>1, <1>2, <1>3, <1>4, <1>5 DEF ToolStep

-----------------------------------------------------------------------------
(* What a deploy does to the zone.                                         *)

LEMMA DeployPrepares ==
  ASSUME ZoneInv, PreparesDomain
  PROVE  ZoneInv'
<1>1. PICK next \in {"foundation", "create", "wait", "done", "failed"} :
        DomainStep(deploy.domain, next) /\ deploy' = [deploy EXCEPT !.domain = next]
  BY DEF PreparesDomain
<1>2. deploy # Idle /\ deploy' # Idle /\ deploy'.domain = next /\ DeployTypes'
  BY <1>1 DEF PreparesDomain, ZoneInv, DeployTypes, Idle
<1>3. ASSUME InspectDomain(next) \/ WaitUntilReady(next) PROVE ZoneInv'
  <2>1. UNCHANGED zoneVars /\ next # "create"
    BY <1>3 DEF InspectDomain, WaitUntilReady
  <2> QED
    BY <1>2, <2>1 DEF ZoneInv, ZoneTypes, ToolKnows, Keeps, Receives, DeployKnows, zoneVars
<1>4. ASSUME RequireReceivingFoundation(next) PROVE ZoneInv'
  <2>1. UNCHANGED <<zone, catchAll, box, rule, ready, tool, since>>
        /\ changed' = changed \ {"zone"}
    BY <1>4 DEF RequireReceivingFoundation
  <2>2. ZoneTypes' /\ ToolKnows'
    BY <2>1 DEF ZoneInv, ZoneTypes, ToolKnows, Keeps, Receives
  <2>3. DeployKnows'
    BY <1>2, <1>4, <2>1 DEF RequireReceivingFoundation, FoundationIsThere, DeployKnows
  <2> QED
    BY <1>2, <2>2, <2>3 DEF ZoneInv
<1>5. ASSUME CreateDns(next) PROVE ZoneInv'
  <2>1. UNCHANGED <<catchAll, box, rule, ready, tool, changed, since>> /\ next = "wait"
    BY <1>5 DEF CreateDns
  <2>2. ZoneTypes'
    BY <1>5, <2>1 DEF ZoneInv, ZoneTypes, CreateDns
  <2>3. ToolKnows' /\ DeployKnows'
    BY <1>2, <2>1 DEF ZoneInv, ToolKnows, Keeps, Receives, DeployKnows
  <2> QED
    BY <1>2, <2>2, <2>3 DEF ZoneInv
<1> QED
  BY <1>1, <1>3, <1>4, <1>5 DEF DomainStep

LEMMA DeployKnowsStill ==
  ASSUME DeployKnows, ToolStep \/ OthersStep \/ (\E m \in Boxes : ChangeBox(m) \/ Reconcile(m)),
         deploy' = deploy, ZoneTypes
  PROVE  DeployKnows'
<1>1. \/ zone'.enabled = zone.enabled /\ zone'.dkim = zone.dkim
         /\ ("zone" \in changed => "zone" \in changed')
      \/ "zone" \in changed'
  <2>1. CASE ToolStep
    BY <2>1 DEF ToolStep, AskServer, ListRules, InspectCatchAll, LookAgain,
                DisableCatchAll, ToolFails
  <2>2. CASE OthersStep
    BY <2>2 DEF OthersStep, OthersRule, OthersCatchAll, OthersZone, ChildChanges, ZoneTypes
  <2>3. CASE \E m \in Boxes : ChangeBox(m) \/ Reconcile(m)
    BY <2>3 DEF ChangeBox, SetBox, Reconcile
  <2> QED
    BY <2>1, <2>2, <2>3
<1> QED
  BY <1>1 DEF DeployKnows

LEMMA ZoneStep == ZoneInv /\ [Next]_vars => ZoneInv'
<1> SUFFICES ASSUME ZoneInv, [Next]_vars PROVE ZoneInv'
  OBVIOUS
<1>1. CASE UNCHANGED vars
  BY <1>1 DEF ZoneInv, ZoneTypes, DeployTypes, ToolKnows, Keeps, Receives, DeployKnows,
              vars, zoneVars
<1>2. ASSUME UNCHANGED zoneVars,
             \/ deploy' \in {deploy, Idle}
             \/ deploy # Idle /\ deploy' = [deploy EXCEPT !.at = "catchAll"]
             \/ deploy' = [at |-> "resources", domain |-> "inspect"]
      PROVE  ZoneInv'
  <2>1. DeployTypes'
    BY <1>2 DEF ZoneInv, DeployTypes, Idle
  <2>2. deploy' # Idle /\ deploy'.domain = "create" => deploy # Idle /\ deploy.domain = "create"
    BY <1>2 DEF ZoneInv, DeployTypes, Idle
  <2>3. DeployKnows'
    BY <1>2, <2>2 DEF ZoneInv, DeployKnows, zoneVars
  <2>4. ZoneTypes' /\ ToolKnows'
    BY <1>2 DEF ZoneInv, ZoneTypes, ToolKnows, Keeps, Receives, zoneVars
  <2> QED
    BY <2>1, <2>3, <2>4 DEF ZoneInv
<1>3. CASE BetterAuthStep /\ UNCHANGED <<zoneVars, deploy, deploys>>
  BY <1>2, <1>3
<1>4. CASE DeployStep
  <2>1. ASSUME NEW email \in Emails, NEW password \in Passwords,
               StartDeploy(email, password)
        PROVE  ZoneInv'
    BY <1>2, <2>1 DEF StartDeploy
  <2>2. CASE Provisions
    BY <1>2, <2>2 DEF Provisions
  <2>3. CASE PreparesDomain
    BY <2>3, DeployPrepares
  <2>4. CASE DropsDomain
    <3>1. UNCHANGED <<catchAll, box, rule, ready, tool, changed, since, deploy>>
          /\ zone' = [zone EXCEPT !.child = "none"]
      BY <2>4 DEF DropsDomain, RemoveDomain
    <3>2. ZoneTypes'
      BY <3>1 DEF ZoneInv, ZoneTypes
    <3>3. DeployTypes' /\ ToolKnows' /\ DeployKnows'
      BY <2>4, <3>1 DEF ZoneInv, DeployTypes, ToolKnows, Keeps, Receives, DeployKnows, DropsDomain
    <3> QED
      BY <3>2, <3>3 DEF ZoneInv
  <2>5. CASE DeployWorker
    BY <1>2, <2>5 DEF DeployWorker, Idle
  <2>6. CASE ConfigureMailRouting
    BY <1>2, <2>6 DEF ConfigureMailRouting, PreserveCatchAll, Ended
  <2>7. CASE DeployEnds
    BY <1>2, <2>7 DEF DeployEnds, Ended
  <2> QED
    BY <1>4, <2>1, <2>2, <2>3, <2>4, <2>5, <2>6, <2>7 DEF DeployStep
<1>5. ASSUME ToolStep \/ OthersStep \/ (\E m \in Boxes : ChangeBox(m) \/ Reconcile(m)),
             deploy' = deploy
      PROVE  ZoneInv'
  <2>1. ZoneTypes' /\ ToolKnows'
    BY <1>5, CutoverMoves, OthersChange, MailboxChanges, RulesReconciled DEF ZoneInv
  <2>2. DeployTypes'
    BY <1>5 DEF ZoneInv, DeployTypes
  <2> QED
    BY <1>5, <2>1, <2>2, DeployKnowsStill DEF ZoneInv
<1> QED
  BY <1>1, <1>3, <1>4, <1>5 DEF Next

LEMMA ZoneAlways == Spec => []ZoneInv
BY ZoneStart, ZoneStep, PTL DEF Spec

-----------------------------------------------------------------------------
(* What the cutover and a deploy leave to others.                          *)

\* The cutover takes no mailbox its mail (NoMailboxLosesItsMail), although
\* mailboxes, rules and the zone change between its calls; but for a mailbox
\* that is made, or whose rule others change, after it asked for them.
THEOREM CutoverLosesNoMail == Spec => NoMailboxLosesItsMail
<1>1. ASSUME ZoneInv, [Next]_vars
      PROVE  [catchAll = "ours" /\ catchAll' = "drop" =>
                \A m \in Boxes : box[m] \in {"active", "paused"} => rule[m] = "ours" \/ m \in since
             ]_zoneVars
  <2> SUFFICES ASSUME catchAll = "ours", catchAll' = "drop"
               PROVE  \A m \in Boxes : Keeps(m)
    BY DEF Keeps, Receives
  <2>1. DisableCatchAll
    BY <1>1 DEF Next, vars, zoneVars, DeployStep, StartDeploy, Provisions, PreparesDomain,
         DomainStep, InspectDomain, RequireReceivingFoundation, CreateDns, WaitUntilReady,
         DropsDomain, RemoveDomain, DeployWorker, ConfigureMailRouting, PreserveCatchAll, DeployEnds,
         ToolStep, AskServer, ListRules, InspectCatchAll, LookAgain, ToolFails, OthersStep,
         OthersRule, OthersCatchAll, OthersZone, ChildChanges, ChangeBox, SetBox, Reconcile
  <2> QED
    BY <1>1, <2>1 DEF DisableCatchAll, ZoneInv, ToolKnows
<1> QED
  BY <1>1, ZoneAlways, PTL DEF Spec, NoMailboxLosesItsMail

\* What is shared with others stays as they have it (TakesNothingOver), unless
\* they change it between the last look and the write.
THEOREM NothingTakenOver == Spec => TakesNothingOver
<1>1. ASSUME ZoneInv, [Next]_vars
      PROVE  [/\ <<zone.enabled, zone.dkim>> # <<zone'.enabled, zone'.dkim>> => "zone" \in changed'
              /\ catchAll # catchAll' => catchAll = "ours" \/ "catchAll" \in changed'
             ]_zoneVars
  <2>1. \/ catchAll' = catchAll
        \/ DisableCatchAll
        \/ \E to \in {"foreign", "off"} : OthersCatchAll(to)
    BY <1>1 DEF Next, vars, zoneVars, DeployStep, StartDeploy, Provisions, PreparesDomain,
         DomainStep, InspectDomain, RequireReceivingFoundation, CreateDns, WaitUntilReady,
         DropsDomain, RemoveDomain, DeployWorker, ConfigureMailRouting, PreserveCatchAll, DeployEnds,
         ToolStep, AskServer, ListRules, InspectCatchAll, LookAgain, ToolFails, OthersStep,
         OthersRule, OthersZone, ChildChanges, ChangeBox, SetBox, Reconcile
  <2>2. catchAll # catchAll' => catchAll = "ours" \/ "catchAll" \in changed'
    BY <1>1, <2>1 DEF DisableCatchAll, OthersCatchAll, ZoneInv, ToolKnows
  <2>3. \/ zone' = zone
        \/ OthersZone \/ ChildChanges \/ RemoveDomain
        \/ PreparesDomain /\ CreateDns("wait") /\ deploy.domain = "create"
    BY <1>1 DEF Next, vars, zoneVars, DeployStep, StartDeploy, Provisions, PreparesDomain,
         DomainStep, InspectDomain, RequireReceivingFoundation, WaitUntilReady, CreateDns,
         DropsDomain, DeployWorker, ConfigureMailRouting, PreserveCatchAll, DeployEnds, DisableCatchAll,
         ToolStep, AskServer, ListRules, InspectCatchAll, LookAgain, ToolFails, OthersStep,
         OthersRule, OthersCatchAll, ChangeBox, SetBox, Reconcile
  <2>4. CASE OthersZone
    BY <2>2, <2>4 DEF OthersZone
  <2>5. CASE ChildChanges \/ RemoveDomain
    BY <1>1, <2>2, <2>5 DEF ChildChanges, RemoveDomain, ZoneInv, ZoneTypes
  <2>6. CASE PreparesDomain /\ CreateDns("wait") /\ deploy.domain = "create"
    <3>1. deploy # Idle /\ ((zone.enabled /\ zone.dkim) \/ "zone" \in changed)
      BY <1>1, <2>6 DEF PreparesDomain, Idle, ZoneInv, DeployKnows
    <3>2. zone'.enabled = TRUE /\ zone'.dkim = TRUE /\ changed' = changed
      BY <1>1, <2>6 DEF CreateDns, ZoneInv, ZoneTypes
    <3>3. zone.enabled \in BOOLEAN /\ zone.dkim \in BOOLEAN
      BY <1>1 DEF ZoneInv, ZoneTypes
    <3> QED
      BY <2>2, <3>1, <3>2, <3>3
  <2> QED
    BY <2>2, <2>3, <2>4, <2>5, <2>6
<1> QED
  BY <1>1, ZoneAlways, PTL DEF Spec, TakesNothingOver

-----------------------------------------------------------------------------
(* The auth database: the invariant.                                       *)

AuthTypes ==
  /\ user \in [Emails -> Users \cup {NoUser}]
  /\ account \in [Users -> Passwords \cup {NoPassword}]
  /\ grants \subseteq Grant /\ pending \subseteq Grant
  /\ worker \in Users \cup {NoUser}

ProvisionTypes ==
  \/ provision \in {Idle, [at |-> "failed"]}
  \/ provision \in [at : {"user"}, email : Emails, password : Passwords]
  \/ provision \in [at : {"account"}, email : Emails, password : Passwords, id : Users]
  \/ provision \in [at : {"batch"}, email : Emails, password : Passwords, id : Users,
                     account : Passwords \cup {NoPassword}]
  \/ provision \in [at : {"statics"}, id : Users, next : 1 .. 7]
  \/ provision \in [at : {"done"}, id : Users]

\* A user has an account, which the same batch writes.
UsersHaveAccounts == \A e \in Emails : user[e] # NoUser => account[user[e]] # NoPassword

\* Whoever signed in did it with the password of today, or late.
Current(g) == g.late \/ g.password = account[g.user]
GrantsAreCurrent == \A g \in grants \cup pending : Current(g)

Operator(id) == account[id] # NoPassword /\ \E e \in Emails : user[e] = id

Provided(i) ==
  /\ Statics[i] \in rows
  /\ Statics[i].kind = "client" => Statics[i].name \notin foreign

\* What provisionAuth knows, at each of its calls.
ProvisionKnows ==
  /\ provision.at \in {"account", "batch"} => user[provision.email] \in {NoUser, provision.id}
  /\ provision.at = "batch" => provision.account = account[provision.id]
  /\ provision.at \in {"statics", "done"} => Operator(provision.id)
  /\ provision.at = "statics" => \A i \in 1 .. 6 : i < provision.next => Provided(i)
  /\ provision.at = "done" => \A i \in 1 .. 6 : Provided(i)

WorkerServes == worker # NoUser => Operator(worker) /\ \A i \in 1 .. 6 : Provided(i)

AuthInv ==
  /\ AuthTypes /\ ProvisionTypes
  /\ UsersHaveAccounts /\ GrantsAreCurrent
  /\ ProvisionKnows /\ WorkerServes

-----------------------------------------------------------------------------
(* The auth database: each step keeps it.                                  *)

LEMMA AuthStart == Init => AuthInv
BY DEF Init, AuthInit, AuthInv, AuthTypes, ProvisionTypes, UsersHaveAccounts,
       GrantsAreCurrent, ProvisionKnows, WorkerServes, Idle, NoUser

\* The batch: whoever had the operator's email has it still, and what was
\* granted under another password has ended, or is late.
LEMMA IdentityPersisted ==
  ASSUME AuthInv, PersistOperatorIdentity
  PROVE  AuthInv'
<1> DEFINE id == provision.id
           changes == provision.account \notin {NoPassword, provision.password}
<1>1. /\ provision.at = "batch" /\ provision.email \in Emails /\ id \in Users
      /\ provision.password \in Passwords /\ provision.account = account[id]
      /\ user[provision.email] \in {NoUser, id}
  BY DEF PersistOperatorIdentity, AuthInv, ProvisionTypes, ProvisionKnows, Idle
<1>2. /\ user' = [user EXCEPT ![provision.email] = id]
      /\ account' = [account EXCEPT ![id] = provision.password]
      /\ provision' = [at |-> "statics", id |-> id, next |-> 1]
      /\ UNCHANGED <<rows, foreign, worker>>
  BY DEF PersistOperatorIdentity
<1>3. /\ user' \in [Emails -> Users \cup {NoUser}]
      /\ account' \in [Users -> Passwords \cup {NoPassword}]
  BY <1>1, <1>2 DEF AuthInv, AuthTypes
<1>4. /\ user'[provision.email] = id /\ account'[id] = provision.password
      /\ \A e \in Emails : user[e] # NoUser => user'[e] = user[e]
      /\ \A e \in Emails : user'[e] \in {user[e], id}
      /\ \A u \in Users \ {id} : account'[u] = account[u]
  BY <1>1, <1>2 DEF AuthInv, AuthTypes
<1>5. provision.password # NoPassword
  BY <1>1, ProvisioningAssumption
<1>6. /\ grants' \subseteq Grant /\ pending' \subseteq Grant
      /\ \A g \in grants' \cup pending' : Current(g)'
  <2>1. CASE changes
    <3>1. /\ grants' = {g \in grants : ~ Ends(g, id)}
          /\ pending' = {[g EXCEPT !.late = @ \/ g.user = id] : g \in pending}
      BY <2>1 DEF PersistOperatorIdentity
    <3>2. ASSUME NEW g \in grants' PROVE g \in Grant /\ Current(g)'
      <4>1. g \in Grant /\ g.user # id /\ Current(g)
        BY <3>1 DEF Ends, AuthInv, AuthTypes, Grant, Kinds, GrantsAreCurrent
      <4> QED
        BY <1>4, <4>1 DEF Current, Grant
    <3>3. ASSUME NEW g \in pending' PROVE g \in Grant /\ Current(g)'
      <4>1. PICK p \in pending : g = [p EXCEPT !.late = @ \/ p.user = id]
        BY <3>1
      <4>2. p \in Grant /\ Current(p)
        BY DEF AuthInv, AuthTypes, GrantsAreCurrent
      <4>3. g \in Grant /\ g.user = p.user /\ g.password = p.password
            /\ g.late = (p.late \/ p.user = id)
        BY <4>1, <4>2 DEF Grant
      <4> QED
        BY <1>4, <4>2, <4>3 DEF Current, Grant
    <3> QED
      BY <3>2, <3>3
  <2>2. CASE ~ changes
    <3>1. grants' = grants /\ pending' = pending
      BY <2>2 DEF PersistOperatorIdentity
    <3>2. ASSUME NEW g \in grants \cup pending PROVE g \in Grant /\ Current(g)'
      <4>1. g \in Grant /\ Current(g)
        BY DEF AuthInv, AuthTypes, GrantsAreCurrent
      <4>2. CASE g.user = id
        BY <1>1, <1>4, <2>2, <4>1, <4>2, ProvisioningAssumption DEF Current, Grant
      <4>3. CASE g.user # id
        BY <1>4, <4>1, <4>3 DEF Current, Grant
      <4> QED
        BY <4>2, <4>3
    <3> QED
      BY <3>1, <3>2
  <2> QED
    BY <2>1, <2>2
<1> HIDE DEF id, changes
<1>7. UsersHaveAccounts'
  BY <1>1, <1>3, <1>4, <1>5 DEF UsersHaveAccounts, AuthInv, AuthTypes
<1>8. \A u \in Users : Operator(u) => Operator(u)'
  <2> SUFFICES ASSUME NEW u \in Users, Operator(u) PROVE Operator(u)'
    OBVIOUS
  <2>1. PICK e \in Emails : user[e] = u
    BY DEF Operator
  <2>2. user'[e] = u
    BY <1>4, <2>1 DEF Users, NoUser
  <2>3. account'[u] # NoPassword
    BY <1>4, <1>5 DEF Operator
  <2> QED
    BY <2>2, <2>3 DEF Operator
<1>9. account'[id] # NoPassword /\ \E e \in Emails : user'[e] = id
  BY <1>1, <1>4, <1>5
<1>10. ProvisionKnows'
  <2>1. provision'.at = "statics" /\ provision'.id = id /\ provision'.next = 1
    BY <1>2
  <2>2. \A i \in 1 .. 6 : ~ (i < 1)
    OBVIOUS
  <2>3. Operator(provision.id)'
    BY <1>9, <2>1 DEF Operator
  <2> QED
    BY <2>1, <2>2, <2>3 DEF ProvisionKnows
<1>11. \A i \in 1 .. 6 : Provided(i)' = Provided(i)
  BY <1>2 DEF Provided
<1>12. WorkerServes'
  BY <1>2, <1>8, <1>11 DEF WorkerServes, AuthInv, AuthTypes, Operator
<1>13. ProvisionTypes'
  BY <1>1, <1>2 DEF ProvisionTypes
<1>14. AuthTypes' /\ GrantsAreCurrent'
  BY <1>2, <1>3, <1>6 DEF AuthTypes, GrantsAreCurrent, AuthInv
<1> QED
  BY <1>7, <1>10, <1>12, <1>13, <1>14 DEF AuthInv

\* Rows are only added, and users and passwords stay.
LEMMA ProvisioningGoesOn ==
  ASSUME AuthInv, FindUser \/ FindAccount \/ ProvisionStatic \/ ProvisionEnds
  PROVE  AuthInv'
<1>1. UNCHANGED <<user, account, foreign, grants, pending, worker>> /\ rows \subseteq rows'
  BY DEF FindUser, FindAccount, ProvisionStatic, ProvisionEnds
<1>2. \A i \in 1 .. 6 : Provided(i) => Provided(i)'
  BY <1>1 DEF Provided
<1>3. \A u : Operator(u)' = Operator(u)
  BY <1>1 DEF Operator
<1>4. AuthTypes' /\ UsersHaveAccounts' /\ GrantsAreCurrent'
  BY <1>1 DEF AuthInv, AuthTypes, UsersHaveAccounts, GrantsAreCurrent, Current
<1>5. WorkerServes'
  BY <1>1, <1>2, <1>3 DEF AuthInv, WorkerServes
<1>6. ASSUME FindUser PROVE ProvisionTypes' /\ ProvisionKnows'
  <2>1. provision \in [at : {"user"}, email : Emails, password : Passwords]
    BY <1>6 DEF FindUser, AuthInv, ProvisionTypes, Idle
  <2>2. PICK id \in Users :
          /\ user[provision.email] \in {NoUser, id}
          /\ provision' = [at |-> "account", email |-> provision.email,
                           password |-> provision.password, id |-> id]
    BY <1>6 DEF FindUser
  <2> QED
    BY <1>1, <2>1, <2>2 DEF ProvisionTypes, ProvisionKnows
<1>7. ASSUME FindAccount PROVE ProvisionTypes' /\ ProvisionKnows'
  <2>1. /\ provision \in [at : {"account"}, email : Emails, password : Passwords, id : Users]
        /\ user[provision.email] \in {NoUser, provision.id}
    BY <1>7 DEF FindAccount, AuthInv, ProvisionTypes, ProvisionKnows, Idle
  <2>2. account[provision.id] \in Passwords \cup {NoPassword}
    BY <2>1 DEF AuthInv, AuthTypes
  <2> QED
    BY <1>1, <1>7, <2>1, <2>2 DEF FindAccount, ProvisionTypes, ProvisionKnows
<1>8. ASSUME ProvisionStatic PROVE ProvisionTypes' /\ ProvisionKnows'
  <2>1. /\ provision \in [at : {"statics"}, id : Users, next : 1 .. 7]
        /\ provision.next \in 1 .. 6
        /\ Operator(provision.id) /\ \A i \in 1 .. 6 : i < provision.next => Provided(i)
    BY <1>8 DEF ProvisionStatic, Statics, AuthInv, ProvisionTypes, ProvisionKnows, Idle
  <2>2. CASE provision' = [at |-> "failed"]
    BY <2>2 DEF ProvisionTypes, ProvisionKnows
  <2>3. CASE provision' # [at |-> "failed"]
    <3>1. /\ provision' = [provision EXCEPT !.next = @ + 1]
          /\ Statics[provision.next] \in rows'
          /\ ~ (Statics[provision.next].kind = "client"
                /\ Statics[provision.next].name \in foreign)
      BY <1>8, <2>3 DEF ProvisionStatic, Present
    <3>2. /\ provision' \in [at : {"statics"}, id : Users, next : 1 .. 7]
          /\ provision'.id = provision.id /\ provision'.next = provision.next + 1
      BY <2>1, <3>1
    <3>3. \A i \in 1 .. 6 : i = provision.next => Provided(i)'
      BY <1>1, <3>1 DEF Provided
    <3>4. \A i \in 1 .. 6 : i < provision'.next => i < provision.next \/ i = provision.next
      BY <2>1, <3>2
    <3>5. \A i \in 1 .. 6 : i < provision'.next => Provided(i)'
      BY <1>2, <2>1, <3>3, <3>4
    <3> QED
      BY <1>3, <2>1, <3>2, <3>5 DEF ProvisionTypes, ProvisionKnows
  <2> QED
    BY <2>2, <2>3
<1>9. ASSUME ProvisionEnds PROVE ProvisionTypes' /\ ProvisionKnows'
  <2>1. /\ provision \in [at : {"statics"}, id : Users, next : 1 .. 7] /\ provision.next > 6
        /\ Operator(provision.id) /\ \A i \in 1 .. 6 : i < provision.next => Provided(i)
    BY <1>9 DEF ProvisionEnds, Statics, AuthInv, ProvisionTypes, ProvisionKnows, Idle
  <2>2. \A i \in 1 .. 6 : Provided(i)'
    BY <1>2, <2>1
  <2>3. provision' = [at |-> "done", id |-> provision.id]
    BY <1>9 DEF ProvisionEnds
  <2> QED
    BY <1>3, <2>1, <2>2, <2>3 DEF ProvisionTypes, ProvisionKnows
<1> QED
  BY <1>4, <1>5, <1>6, <1>7, <1>8, <1>9 DEF AuthInv

\* What is granted carries the password it was granted with.
LEMMA SignInsGoOn ==
  ASSUME AuthInv, BetterAuthStep
  PROVE  AuthInv'
<1>1. UNCHANGED <<user, account, rows, foreign, provision, worker>>
  BY DEF BetterAuthStep, SignIn, Uses, Completes, Expires
<1>2. /\ ProvisionTypes' /\ UsersHaveAccounts' /\ ProvisionKnows' /\ WorkerServes'
      /\ \A g : Current(g)' = Current(g)
  BY <1>1 DEF AuthInv, ProvisionTypes, UsersHaveAccounts, ProvisionKnows, WorkerServes,
              Operator, Provided, Current
<1>3. \A g \in grants \cup pending : g \in Grant /\ Current(g)
  BY DEF AuthInv, AuthTypes, GrantsAreCurrent
<1>4. \A g \in grants' \cup pending' : g \in Grant /\ Current(g)
  <2>1. ASSUME NEW email \in Emails, SignIn(email)
        PROVE  \A g \in grants' \cup pending' : g \in Grant /\ Current(g)
    <3>1. user[email] \in Users /\ account[user[email]] \in Passwords
      BY <2>1 DEF SignIn, AuthInv, AuthTypes, UsersHaveAccounts
    <3> DEFINE made == [kind |-> "session", user |-> user[email],
                        password |-> account[user[email]], late |-> FALSE]
    <3>2. grants' = grants /\ pending' = {made}
      BY <2>1 DEF SignIn, Begins
    <3>3. made \in Grant /\ made.password = account[made.user]
      BY <3>1 DEF Grant, Kinds
    <3> HIDE DEF made
    <3> QED
      BY <1>3, <3>2, <3>3 DEF Current
  <2>2. ASSUME NEW g \in grants, NEW kind \in Kinds, Uses(g, kind)
        PROVE  \A h \in grants' \cup pending' : h \in Grant /\ Current(h)
    <3>1. grants' \subseteq grants /\
          pending' = {[kind |-> kind, user |-> g.user, password |-> g.password, late |-> g.late]}
      BY <2>2 DEF Uses, Begins
    <3>2. g \in Grant /\ Current(g)
      BY <1>3
    <3> QED
      BY <1>3, <3>1, <3>2 DEF Grant, Current
  <2>3. ASSUME Completes \/ \E g \in grants : Expires(g)
        PROVE  grants' \cup pending' \subseteq grants \cup pending
    BY <2>3 DEF Completes, Expires
  <2> QED
    BY <1>3, <2>1, <2>2, <2>3 DEF BetterAuthStep
<1>5. AuthTypes' /\ GrantsAreCurrent'
  BY <1>1, <1>2, <1>4 DEF AuthInv, AuthTypes, GrantsAreCurrent
<1> QED
  BY <1>2, <1>5 DEF AuthInv

LEMMA AuthStep == AuthInv /\ [Next]_vars => AuthInv'
<1> SUFFICES ASSUME AuthInv, [Next]_vars PROVE AuthInv'
  OBVIOUS
<1>1. ASSUME UNCHANGED <<user, account, rows, foreign, grants, pending>>,
             worker' = worker \/ WorkerServes',
             \/ provision' \in {provision, Idle}
             \/ provision' \in [at : {"user"}, email : Emails, password : Passwords]
      PROVE  AuthInv'
  <2>1. AuthTypes' /\ UsersHaveAccounts' /\ GrantsAreCurrent'
    BY <1>1 DEF AuthInv, AuthTypes, UsersHaveAccounts, GrantsAreCurrent, Current,
                WorkerServes, Operator
  <2>2. ProvisionTypes'
    BY <1>1 DEF AuthInv, ProvisionTypes
  <2>3. ProvisionKnows'
    BY <1>1 DEF AuthInv, ProvisionKnows, Operator, Provided, Idle
  <2>4. WorkerServes'
    BY <1>1 DEF AuthInv, WorkerServes, Operator, Provided
  <2> QED
    BY <2>1, <2>2, <2>3, <2>4 DEF AuthInv
<1>2. CASE UNCHANGED authVars
  BY <1>1, <1>2 DEF authVars
<1>3. CASE \E email \in Emails, password \in Passwords : StartDeploy(email, password)
  BY <1>1, <1>3 DEF StartDeploy, StartProvision
<1>4. CASE Provisions
  BY <1>4, IdentityPersisted, ProvisioningGoesOn DEF Provisions, ProvisionStep
<1>5. CASE DeployWorker
  <2>1. provision.at = "done" /\ worker' = provision.id
        /\ UNCHANGED <<user, account, rows, foreign, grants, pending, provision>>
    BY <1>5 DEF DeployWorker, Provisioned
  <2>2. WorkerServes'
    BY <2>1 DEF AuthInv, ProvisionKnows, WorkerServes, Operator, Provided
  <2>3. worker' \in Users
    BY <2>1 DEF AuthInv, ProvisionTypes, Idle
  <2> QED
    BY <2>1, <2>2, <2>3, <1>1
<1>6. CASE ConfigureMailRouting \/ DeployEnds
  BY <1>1, <1>6 DEF ConfigureMailRouting, DeployEnds, Ended
<1>7. CASE BetterAuthStep
  BY <1>7, SignInsGoOn
<1> QED
  BY <1>2, <1>3, <1>4, <1>5, <1>6, <1>7
     DEF Next, DeployStep, PreparesDomain, DropsDomain, vars

LEMMA AuthAlways == Spec => []AuthInv
BY AuthStart, AuthStep, PTL DEF Spec

-----------------------------------------------------------------------------
(* What a deploy does to the operator's account.                           *)

\* An old password opens nothing (OldPasswordOpensNothing), wherever the
\* deploys died; except what a request was granted that was in progress with
\* the old password when it changed.
THEOREM OldPasswordsOpenNothing == Spec => []OldPasswordOpensNothing
<1>1. AuthInv => OldPasswordOpensNothing
  BY DEF AuthInv, GrantsAreCurrent, Current, OldPasswordOpensNothing
<1> QED
  BY <1>1, AuthAlways, PTL

\* The operator a Worker serves can sign in to it with both first-party
\* clients (ServedOperatorIsProvisioned).
THEOREM OperatorIsServed == Spec => []ServedOperatorIsProvisioned
<1>1. ASSUME AuthInv, worker # NoUser
      PROVE  ServedOperatorIsProvisioned
  <2>1. Operator(worker) /\ \A i \in 1 .. 6 : Provided(i)
    BY <1>1 DEF AuthInv, WorkerServes
  <2>2. /\ {Resource("rest"), Resource("mcp")} \subseteq rows
        /\ {Client("cursor-grok-bot"), Link("cursor-grok-bot")} \subseteq rows
        /\ {Client("umail-cli"), Link("umail-cli")} \subseteq rows
    BY <2>1 DEF Provided, Statics
  <2>3. FirstParty \cap foreign = {}
    BY <2>1 DEF Provided, Statics, FirstParty, Client
  <2> QED
    BY <2>1, <2>2, <2>3 DEF ServedOperatorIsProvisioned, Operator, FirstParty, ResourceOf
<1>2. AuthInv => ServedOperatorIsProvisioned
  BY <1>1 DEF ServedOperatorIsProvisioned
<1> QED
  BY <1>2, AuthAlways, PTL

\* Deploys, cutovers, sign-ins and the zone's other owners keep every variable
\* to its type: in particular a run is at one of its calls, with what it read.
THEOREM DeploymentTypeCorrect == Spec => [](ZoneTypes /\ DeployTypes /\ AuthTypes /\ ProvisionTypes)
<1>1. ZoneInv /\ AuthInv => ZoneTypes /\ DeployTypes /\ AuthTypes /\ ProvisionTypes
  BY DEF ZoneInv, AuthInv
<1> QED
  BY <1>1, ZoneAlways, AuthAlways, PTL

=============================================================================
