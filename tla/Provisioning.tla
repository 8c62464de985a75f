----------------------------- MODULE Provisioning -----------------------------
(***************************************************************************)
(* provisionAuth: what a deploy writes into the auth database, call by     *)
(* call, beside the sign-ins that go on there.  The operator is the user   *)
(* with the configured email; a deploy with a new password ends what was   *)
(* signed in with the old one.                                             *)
(*                                                                         *)
(* Better Auth is modelled as this code uses it: a request authenticates   *)
(* with the password or with something granted before, and writes what it  *)
(* grants in a later call.  Access tokens, which are looked up nowhere and *)
(* live five minutes, are left out.                                        *)
(***************************************************************************)
EXTENDS Naturals, FiniteSets, Sequences

CONSTANTS
  Emails, Passwords, NoPassword,
  MaxUsers,     \* bound: users made
  MaxGrants     \* bound: grants at a time

Users == 1 .. MaxUsers
NoUser == 0

ASSUME ProvisioningAssumption ==
  /\ MaxUsers \in Nat
  /\ MaxGrants \in Nat
  /\ NoPassword \notin Passwords

VARIABLES
  user,       \* the user with an email, or NoUser
  account,    \* a user's password, or NoPassword
  rows,       \* the static rows: resources, clients and their links
  foreign,    \* clients of those names that somebody else has registered
  grants,     \* what has been signed in and granted
  pending,    \* the Better Auth request in progress: at most one grant
  provision,  \* provisionAuth in progress
  worker      \* the operator the deployed Worker serves, or NoUser

authVars == <<user, account, rows, foreign, grants, pending, provision, worker>>

FirstParty == {"cursor-grok-bot", "umail-cli"}
ResourceOf(c) == IF c = "umail-cli" THEN "rest" ELSE "mcp"

\* The statements after the operator's batch, in their order.
Resource(r) == [kind |-> "resource", name |-> r]
Client(c) == [kind |-> "client", name |-> c]
Link(c) == [kind |-> "link", name |-> c]

Statics == <<Resource("rest"), Resource("mcp"),
             Client("cursor-grok-bot"), Link("cursor-grok-bot"),
             Client("umail-cli"), Link("umail-cli")>>

Kinds == {"session", "consent", "code", "device", "refresh"}

\* late: history, its request was in progress when the password changed.
Grant == [kind : Kinds, user : Users, password : Passwords, late : BOOLEAN]

Idle == [at |-> "idle"]

-----------------------------------------------------------------------------
(* Slips the properties are there to catch; the specification uses none.   *)

ForgetsCodes(g, id) == g.user = id /\ g.kind \in {"session", "consent", "refresh"}

-----------------------------------------------------------------------------
(* Provisioning.                                                           *)

StartProvision(email, password) ==
  provision' = [at |-> "user", email |-> email, password |-> password]

\* The user with the configured email, or an id for a new one.
FindUser ==
  LET email == provision.email
      made == {user[e] : e \in Emails} \ {NoUser}
  IN
  /\ provision.at = "user"
  /\ \E id \in Users :
       /\ IF user[email] # NoUser THEN id = user[email]
          ELSE id = 1 + Cardinality(made)
       /\ provision' = [at |-> "account", email |-> email,
                        password |-> provision.password, id |-> id]
  /\ UNCHANGED <<user, account, rows, foreign, grants, pending, worker>>

\* loadCredentialAccount and nextPasswordHash.
FindAccount ==
  /\ provision.at = "account"
  /\ provision' = [at |-> "batch", email |-> provision.email, id |-> provision.id,
                   password |-> provision.password, account |-> account[provision.id]]
  /\ UNCHANGED <<user, account, rows, foreign, grants, pending, worker>>

\* What a new password ends: the user's, and every code being exchanged.
Ends(g, id) ==
  \/ g.user = id /\ g.kind \in {"session", "consent", "refresh"}
  \/ g.kind \in {"code", "device"}

\* One batch: the user, the account, and what a new password ends.
PersistOperatorIdentity ==
  LET id == provision.id
      changed == provision.account \notin {NoPassword, provision.password}
  IN
  /\ provision.at = "batch"
  /\ user' = [user EXCEPT ![provision.email] = id]
  /\ account' = [account EXCEPT ![id] = provision.password]
  /\ IF changed
     THEN /\ grants' = {g \in grants : ~ Ends(g, id)}
          /\ pending' = {[g EXCEPT !.late = @ \/ g.user = id] : g \in pending}
     ELSE UNCHANGED <<grants, pending>>
  /\ provision' = [at |-> "statics", id |-> id, next |-> 1]
  /\ UNCHANGED <<rows, foreign, worker>>

\* A row that is there stays, updated; a new one is inserted.
Present(row) == row \in rows

\* One resource, client or link; somebody else's client ends the deploy.
ProvisionStatic ==
  LET row == Statics[provision.next] IN
  /\ provision.at = "statics" /\ provision.next <= Len(Statics)
  /\ IF row.kind = "client" /\ row.name \in foreign
     THEN provision' = [at |-> "failed"] /\ UNCHANGED rows
     ELSE /\ rows' = IF Present(row) THEN rows ELSE rows \cup {row}
          /\ provision' = [provision EXCEPT !.next = @ + 1]
  /\ UNCHANGED <<user, account, foreign, grants, pending, worker>>

ProvisionEnds ==
  /\ provision.at = "statics" /\ provision.next > Len(Statics)
  /\ provision' = [at |-> "done", id |-> provision.id]
  /\ UNCHANGED <<user, account, rows, foreign, grants, pending, worker>>

-----------------------------------------------------------------------------
(* Better Auth.                                                            *)

Begins(kind, id, password, late) ==
  /\ pending = {}
  /\ Cardinality(grants) < MaxGrants
  /\ pending' = {[kind |-> kind, user |-> id, password |-> password, late |-> late]}

\* A sign-in has compared the password with the account's.
SignIn(email) ==
  /\ worker # NoUser /\ user[email] # NoUser
  /\ Begins("session", user[email], account[user[email]], FALSE)
  /\ UNCHANGED <<user, account, rows, foreign, grants, provision, worker>>

\* The device page approves a command line client's sign-in.
DevicePage == {"device"}

\* What each grant can be turned into.
From(kind) ==
  CASE kind = "session" -> {"consent", "code"} \cup DevicePage
    [] kind \in {"code", "device", "refresh"} -> {"refresh"}
    [] OTHER -> {}

\* The console, the consent screen and the token endpoint serve the operator
\* the Worker was deployed for, and nobody else.
Uses(g, kind) ==
  /\ g.user = worker
  /\ kind \in From(g.kind)
  /\ Begins(kind, g.user, g.password, g.late)
  /\ grants' = grants \ (IF g.kind = "session" THEN {} ELSE {g})
  /\ UNCHANGED <<user, account, rows, foreign, provision, worker>>

Completes ==
  /\ pending # {}
  /\ grants' = grants \cup pending
  /\ pending' = {}
  /\ UNCHANGED <<user, account, rows, foreign, provision, worker>>

\* It expires, or its owner signs out or revokes it.
Expires(g) ==
  /\ grants' = grants \ {g}
  /\ UNCHANGED <<user, account, rows, foreign, pending, provision, worker>>

-----------------------------------------------------------------------------
AuthInit ==
  /\ user = [e \in Emails |-> NoUser]
  /\ account = [id \in Users |-> NoPassword]
  /\ rows = {}
  /\ foreign \in {{}, {"umail-cli"}}
  /\ grants = {}
  /\ pending = {}
  /\ provision = Idle
  /\ worker = NoUser

ProvisionStep ==
  \/ FindUser \/ FindAccount \/ PersistOperatorIdentity
  \/ ProvisionStatic \/ ProvisionEnds

BetterAuthStep ==
  \/ \E email \in Emails : SignIn(email)
  \/ \E g \in grants, kind \in Kinds : Uses(g, kind)
  \/ Completes
  \/ \E g \in grants : Expires(g)

-----------------------------------------------------------------------------
(* Properties.                                                             *)

\* Whatever was signed in or granted under an earlier password is gone, with
\* all that could still be exchanged for it, whatever the deploys in between
\* changed and wherever they died; except what a request is granted that was
\* in progress when the password changed.  ("A new password ends every session
\* and grant made with the old one.")
OldPasswordOpensNothing ==
  \A g \in grants : g.late \/ g.password = account[g.user]

\* The operator a Worker serves can sign in to it, with the command line and
\* with the first-party MCP client: the account, both resources and both
\* clients with their links are there, also after deploys that died.
ServedOperatorIsProvisioned ==
  worker # NoUser =>
    /\ \E e \in Emails : user[e] = worker
    /\ account[worker] # NoPassword
    /\ \A c \in FirstParty :
         /\ c \notin foreign
         /\ {Resource(ResourceOf(c)), Client(c), Link(c)} \subseteq rows
=============================================================================
