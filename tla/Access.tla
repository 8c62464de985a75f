------------------------------- MODULE Access -------------------------------
(***************************************************************************)
(* Who may use the mail: the operator's consents for OAuth clients, the    *)
(* policy each consent carries, and the clients' tokens.                   *)
(*                                                                         *)
(* A consent screen and a save of the clients page each make several calls *)
(* to the auth database, which interleave with one another and with a      *)
(* revocation, one batch; a Worker may die between any two.  The OAuth     *)
(* provider, which grants consents and issues tokens, is modelled as this  *)
(* code uses it.  A form's lists are sets of entries, or All ("all", "any"). *)
(***************************************************************************)
EXTENDS Naturals, FiniteSets, SendPolicy

CONSTANTS
  Clients,      \* OAuth clients that have registered
  Forms,        \* the policy forms the operator submits
  All,
  Invalid,      \* what policyFromForm makes of a form it refuses
  Screens,      \* accepted consent screens, each with its request
  Edits,        \* saves of the clients page
  MaxConsents,  \* bound: consents granted
  MaxDeaths     \* bound: Workers that die in a request

NoConsent == 0
Overtaken == 0  \* the screen's consent was revoked before it looked it up
Consents == 1 .. MaxConsents
Tokens == {"code", "access", "refresh"}

\* Every entry of a list must be an address.
ParseMailAddressList(list) == IF list \subseteq Recipients THEN list ELSE Invalid

ParseRecipientAllowlist(list) ==
  IF list = All THEN Recipients
  ELSE IF list # {} THEN ParseMailAddressList(list) ELSE Invalid

ParseMailboxIds(list) ==
  IF list = All THEN Mailboxes ELSE IF list # {} THEN list ELSE Invalid

\* Preapproved recipients count with approvals only.
PolicyFromForm(form) ==
  LET mailboxIds == ParseMailboxIds(form.mailboxes)
      allowlist == ParseRecipientAllowlist(form.recipients)
      preapproved == IF form.sendMode = "require_approval"
                     THEN ParseMailAddressList(form.preapproved) ELSE {}
  IN
  IF Invalid \in {mailboxIds, allowlist, preapproved} THEN Invalid
  ELSE [mailboxIds |-> mailboxIds, canRead |-> form.canRead, sendMode |-> form.sendMode,
        recipientAllowlist |-> allowlist, preapprovedRecipients |-> preapproved]

Policies == {PolicyFromForm(form) : form \in Forms} \ {Invalid}

ASSUME AccessAssumption ==
  /\ {NoPolicy, Invalid} \cap Policies = {}
  /\ MaxConsents \in Nat
  /\ MaxDeaths \in Nat

VARIABLES
  consent,      \* oauthConsent: each client's consent, or NoConsent
  mcpPolicy,    \* mcpPolicy: the policy of a consent; rows go with the consent
  tokens,       \* rows a client can turn into, or use as, an access token
  screen, edit,
  \* history and bounds
  granted,      \* consents granted so far
  chosenFor,    \* the consent a policy was chosen for, or 0: see Overtaken
  deaths

accessVars == <<consent, mcpPolicy, tokens, screen, edit, granted, chosenFor, deaths>>

Task == [at : {"idle", "find", "row", "write", "failed"},
         client : Clients, form : Policies,
         id : Consents \cup {NoConsent}, \* the consent it has looked up
         exists : BOOLEAN,               \* whether it found a policy row
         on : Consents \cup {NoConsent}] \* history: the consent it is about

Idle == [at |-> "idle"]

UsesAccess == UNCHANGED <<tokens, granted, deaths>>

-----------------------------------------------------------------------------
(* Slips the properties are there to catch; the specification uses none.   *)

CurrentOf(task) ==
  IF consent[task.client] = NoConsent THEN task.id ELSE consent[task.client]

AcceptsAnyForm(form) == TRUE

-----------------------------------------------------------------------------
(* The auth database.                                                      *)

\* mcpGrant: only a policy gives access.
McpGrant(c) ==
  CASE consent[c] = NoConsent -> [kind |-> "none"]
    [] consent[c] # NoConsent /\ mcpPolicy[consent[c]] = NoPolicy ->
         [kind |-> "no_policy"]
    [] OTHER -> [kind |-> "policy", policy |-> mcpPolicy[consent[c]]]

\* The rows of the clients page: consents, and clients with refresh tokens.
List == {c \in Clients : consent[c] # NoConsent \/ "refresh" \in tokens[c]}

Live(id) == \E c \in Clients : consent[c] = id /\ id # NoConsent

\* The consent a write goes to: the one the task has looked up.
Target(task) == task.id

WritePolicy(task) ==
  /\ mcpPolicy' = [mcpPolicy EXCEPT ![Target(task)] = task.form]
  /\ chosenFor' = [chosenFor EXCEPT ![Target(task)] = task.on]

-----------------------------------------------------------------------------
(* The consent screen: mcpPolicyPlugin's hooks around the provider.        *)

\* The hook before: a form that is no policy is refused before the consent.
PassesBefore(form) == PolicyFromForm(form) # Invalid

\* The provider grants a consent the client does not have yet, and a code.
Consented(c) ==
  IF consent[c] # NoConsent THEN UNCHANGED <<consent, granted>>
  ELSE /\ granted < MaxConsents
       /\ granted' = granted + 1
       /\ consent' = [consent EXCEPT ![c] = granted + 1]

AcceptConsent(s, c, form) ==
  /\ screen[s] = Idle
  /\ PassesBefore(form)
  /\ Consented(c)
  /\ tokens' = [tokens EXCEPT ![c] = @ \cup {"code"}]
  /\ screen' = [screen EXCEPT ![s] =
       IF PolicyFromForm(form) = Invalid THEN Idle
       ELSE [at |-> "find", client |-> c, form |-> PolicyFromForm(form), id |-> NoConsent,
             exists |-> FALSE, on |-> consent'[c]]]
  /\ UNCHANGED <<mcpPolicy, edit, chosenFor, deaths>>

\* saveConsentPolicy looks the client's consent up, whichever it is now.
FindConsent(s) ==
  LET task == screen[s]
      found == consent[task.client]
  IN
  /\ task.at = "find"
  /\ screen' = [screen EXCEPT ![s] =
       IF found = NoConsent THEN Idle
       ELSE [task EXCEPT !.at = "row", !.id = found,
                         !.on = IF task.on = found THEN found ELSE Overtaken]]
  /\ UNCHANGED <<consent, mcpPolicy, edit, chosenFor>> /\ UsesAccess

FindPolicy(s) ==
  /\ screen[s].at = "row"
  /\ screen' = [screen EXCEPT ![s] =
       [@ EXCEPT !.at = "write", !.exists = mcpPolicy[screen[s].id] # NoPolicy]]
  /\ UNCHANGED <<consent, mcpPolicy, edit, chosenFor>> /\ UsesAccess

\* Creating fails on a consent that is gone (the foreign key) or has a policy
\* by now (unique); updating a row that is gone changes nothing.
SaveConsentPolicy(s) ==
  LET row == mcpPolicy[Target(screen[s])] # NoPolicy
      fails == ~ screen[s].exists /\ (row \/ ~ Live(Target(screen[s])))
  IN
  /\ screen[s].at = "write"
  /\ IF fails \/ (screen[s].exists /\ ~ row) THEN UNCHANGED <<mcpPolicy, chosenFor>>
     ELSE WritePolicy(screen[s])
  /\ screen' = [screen EXCEPT ![s] = Idle]
  /\ UNCHANGED <<consent, edit>> /\ UsesAccess

-----------------------------------------------------------------------------
(* The clients page.                                                       *)

\* saveClientRoute finds the client's grant in the list, then checks the form.
OpenEdit(e, c, form) ==
  /\ edit[e] = Idle
  /\ c \in List /\ consent[c] # NoConsent
  /\ PolicyFromForm(form) # Invalid
  /\ edit' = [edit EXCEPT ![e] =
       [at |-> "find", client |-> c, form |-> PolicyFromForm(form), id |-> consent[c],
        exists |-> TRUE, on |-> consent[c]]]
  /\ UNCHANGED <<consent, mcpPolicy, screen, chosenFor>> /\ UsesAccess

\* setPolicy: nothing without the consent.
CheckEdit(e) ==
  /\ edit[e].at = "find"
  /\ edit' = [edit EXCEPT ![e] =
       IF Live(Target(edit[e])) THEN [@ EXCEPT !.at = "write"] ELSE Idle]
  /\ UNCHANGED <<consent, mcpPolicy, screen, chosenFor>> /\ UsesAccess

\* The insert or update fails on a consent that has gone since.
SetPolicy(e) ==
  /\ edit[e].at = "write"
  /\ IF Live(Target(edit[e])) THEN WritePolicy(edit[e])
     ELSE UNCHANGED <<mcpPolicy, chosenFor>>
  /\ edit' = [edit EXCEPT ![e] = Idle]
  /\ UNCHANGED <<consent, screen>> /\ UsesAccess

\* One batch deletes the client's tokens and its consent, and with that its
\* policy.  A code that has not been exchanged, and access tokens, which are
\* not looked up, remain.
Revoke(c) ==
  /\ consent' = [consent EXCEPT ![c] = NoConsent]
  /\ mcpPolicy' = [id \in Consents |->
                     IF id = consent[c] THEN NoPolicy ELSE mcpPolicy[id]]
  /\ chosenFor' = [id \in Consents |->
                     IF id = consent[c] THEN NoConsent ELSE chosenFor[id]]
  /\ tokens' = [tokens EXCEPT ![c] = @ \ {"refresh"}]
  /\ UNCHANGED <<screen, edit, granted, deaths>>

-----------------------------------------------------------------------------
(* The provider's token endpoint, and Workers that die.                    *)

IssueTokens(c, by) ==
  /\ by \in tokens[c]
  /\ tokens' = [tokens EXCEPT ![c] = (@ \ ({"code"} \cap {by})) \cup {"access", "refresh"}]
  /\ UNCHANGED <<consent, mcpPolicy, screen, edit, granted, chosenFor, deaths>>

TokenExpires(c) ==
  /\ tokens' = [tokens EXCEPT ![c] = @ \ {"access"}]
  /\ UNCHANGED <<consent, mcpPolicy, screen, edit, granted, chosenFor, deaths>>

\* The Worker serving a screen dies, or its next call fails.
ScreenDies(s) ==
  /\ screen[s].at \in {"find", "row", "write"}
  /\ deaths < MaxDeaths
  /\ deaths' = deaths + 1
  /\ screen' = [screen EXCEPT ![s] = [@ EXCEPT !.at = "failed"]]
  /\ UNCHANGED <<consent, mcpPolicy, tokens, edit, granted, chosenFor>>

EditDies(e) ==
  /\ edit[e].at \in {"find", "write"}
  /\ deaths < MaxDeaths
  /\ deaths' = deaths + 1
  /\ edit' = [edit EXCEPT ![e] = Idle]
  /\ UNCHANGED <<consent, mcpPolicy, tokens, screen, granted, chosenFor>>

-----------------------------------------------------------------------------
AccessInit ==
  /\ consent = [c \in Clients |-> NoConsent]
  /\ mcpPolicy = [id \in Consents |-> NoPolicy]
  /\ tokens = [c \in Clients |-> {}]
  /\ screen = [s \in Screens |-> Idle]
  /\ edit = [e \in Edits |-> Idle]
  /\ granted = 0
  /\ chosenFor = [id \in Consents |-> NoConsent]
  /\ deaths = 0

ScreenStep(s) ==
  \/ \E c \in Clients, form \in Forms : AcceptConsent(s, c, form)
  \/ FindConsent(s)
  \/ FindPolicy(s)
  \/ SaveConsentPolicy(s)
  \/ ScreenDies(s)

EditStep(e) ==
  \/ \E c \in Clients, form \in Forms : OpenEdit(e, c, form)
  \/ CheckEdit(e)
  \/ SetPolicy(e)
  \/ EditDies(e)

AccessNext ==
  \/ \E s \in Screens : ScreenStep(s)
  \/ \E e \in Edits : EditStep(e)
  \/ \E c \in Clients : Revoke(c) \/ TokenExpires(c)
  \/ \E c \in Clients, by \in {"code", "refresh"} : IssueTokens(c, by)

-----------------------------------------------------------------------------
(* Properties.                                                             *)

AccessTypeOK ==
  /\ consent \in [Clients -> Consents \cup {NoConsent}]
  /\ mcpPolicy \in [Consents -> Policies \cup {NoPolicy}]
  /\ tokens \in [Clients -> SUBSET Tokens]
  /\ \A s \in Screens : screen[s] = Idle \/ screen[s] \in Task
  /\ \A e \in Edits : edit[e] = Idle \/ edit[e] \in Task
  /\ granted \in 0 .. MaxConsents
  /\ chosenFor \in [Consents -> Consents \cup {NoConsent}]
  /\ deaths \in 0 .. MaxDeaths

\* A policy in force was chosen for the very consent that carries it: a save
\* still under way when the client was revoked never gives its policy to the
\* consent a later screen grants, unless that screen had not looked its
\* consent up by then (saveConsentPolicy goes by the client, setPolicy and
\* every write by the consent's id).
PolicyIsForItsConsent ==
  \A c \in Clients :
    McpGrant(c).kind = "policy" => chosenFor[consent[c]] \in {consent[c], Overtaken}

\* A consent without a policy is one whose screen is still saving it, or
\* whose Worker died before it could.  (options.ts: "Rejected before the
\* consent exists, so no consent is left without a policy.")
NoConsentLeftWithoutPolicy ==
  \A c \in Clients : McpGrant(c).kind = "no_policy" =>
    \E s \in Screens :
      /\ screen[s] # Idle /\ screen[s].client = c
      /\ \/ screen[s].at = "find"
         \/ screen[s].at \in {"row", "write"} /\ screen[s].id = consent[c]
         \/ screen[s].at = "failed" /\ screen[s].on = consent[c]
=============================================================================
