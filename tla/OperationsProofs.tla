--------------------------- MODULE OperationsProofs ---------------------------
(***************************************************************************)
(* Theorems about Operations, and about Access beneath it, for any number  *)
(* of clients, policies, mailboxes, messages, submissions and requests.    *)
(***************************************************************************)
EXTENDS Operations, FiniteSetTheorems, TLAPS

-----------------------------------------------------------------------------
(* Consents: the invariant.                                                *)

\* A consent is one client's, and is never granted again.
OneEach ==
  /\ \A c \in Clients : consent[c] <= granted
  /\ \A c, d \in Clients : consent[c] = consent[d] /\ consent[c] # NoConsent => c = d

\* A policy goes with its consent, and was chosen for it.
PoliciesAreLive ==
  \A id \in Consents :
    /\ mcpPolicy[id] # NoPolicy => Live(id)
    /\ chosenFor[id] \in {id, Overtaken}

\* What a consent screen knows of the consent it has looked up.
ScreenKnows(s) ==
  screen[s] # Idle =>
    /\ screen[s].id <= granted /\ screen[s].on <= granted
    /\ screen[s].at \in {"row", "write"} =>
         screen[s].id \in Consents /\ screen[s].on \in {screen[s].id, Overtaken}
    /\ screen[s].at = "write" /\ screen[s].exists /\ Live(screen[s].id) =>
         mcpPolicy[screen[s].id] # NoPolicy

EditKnows(e) ==
  edit[e] # Idle =>
    /\ edit[e].id \in Consents /\ edit[e].id <= granted
    /\ edit[e].on = edit[e].id

\* The screen that was accepted for the client's consent, still to save it.
Saves(s, c) ==
  /\ screen[s] # Idle /\ screen[s].client = c /\ screen[s].on = consent[c]
  /\ \/ screen[s].at \in {"find", "failed"}
     \/ screen[s].at \in {"row", "write"} /\ screen[s].id = consent[c]

\* Without a policy, a consent has such a screen.
IsSaved(c) ==
  consent[c] # NoConsent /\ mcpPolicy[consent[c]] = NoPolicy => \E s \in Screens : Saves(s, c)

AccessInv ==
  /\ AccessTypeOK /\ screen = [s \in Screens |-> screen[s]] /\ edit = [e \in Edits |-> edit[e]]
  /\ OneEach /\ PoliciesAreLive
  /\ \A s \in Screens : ScreenKnows(s)
  /\ \A e \in Edits : EditKnows(e)
  /\ \A c \in Clients : IsSaved(c)

-----------------------------------------------------------------------------
(* Consents: each step keeps it.                                           *)

LEMMA AccessStart == AccessInit => AccessInv
BY AccessAssumption DEF AccessInit, AccessInv, AccessTypeOK, OneEach, PoliciesAreLive,
       ScreenKnows, EditKnows, IsSaved, NoConsent, Overtaken, Consents, Live, Tokens

LEMMA FormsArePolicies ==
  ASSUME NEW form \in Forms, PolicyFromForm(form) # Invalid
  PROVE  PolicyFromForm(form) \in Policies /\ PolicyFromForm(form) # NoPolicy
BY AccessAssumption DEF Policies

\* A save that does not touch consents, policies or the other screens.
LEMMA ScreenMoves ==
  ASSUME AccessInv, NEW s \in Screens,
         screen' = [screen EXCEPT ![s] = screen'[s]],
         UNCHANGED <<consent, mcpPolicy, edit, granted, chosenFor, tokens>>,
         deaths' \in 0 .. MaxDeaths,
         screen'[s] = Idle \/ screen'[s] \in Task,
         ScreenKnows(s)',
         \A c \in Clients : consent[c] # NoConsent /\ mcpPolicy[consent[c]] = NoPolicy
                            /\ Saves(s, c) => Saves(s, c)'
  PROVE  AccessInv'
<1>1. \A t \in Screens \ {s} : screen'[t] = screen[t]
  BY DEF AccessInv
<1>2. AccessTypeOK' /\ screen' = [t \in Screens |-> screen'[t]] /\ edit' = [e \in Edits |-> edit'[e]]
  BY <1>1 DEF AccessInv, AccessTypeOK
<1>3. OneEach' /\ PoliciesAreLive' /\ \A e \in Edits : EditKnows(e)'
  BY DEF AccessInv, OneEach, PoliciesAreLive, EditKnows, Live
<1>4. \A t \in Screens \ {s} : ScreenKnows(t)'
  BY <1>1 DEF AccessInv, ScreenKnows, Live
<1>5. \A c \in Clients : IsSaved(c)'
  BY <1>1 DEF AccessInv, IsSaved, Saves
<1> QED
  BY <1>2, <1>3, <1>4, <1>5 DEF AccessInv

LEMMA ScreenLooks ==
  ASSUME AccessInv, NEW s \in Screens, FindConsent(s) \/ FindPolicy(s) \/ ScreenDies(s)
  PROVE  AccessInv'
<1>1. /\ screen[s] \in Task /\ screen[s] # Idle
      /\ consent[screen[s].client] \in Consents \cup {NoConsent}
      /\ consent[screen[s].client] <= granted
      /\ ScreenKnows(s)
  BY DEF AccessInv, AccessTypeOK, Task, Idle, FindConsent, FindPolicy, ScreenDies, OneEach
<1>2. /\ UNCHANGED <<consent, mcpPolicy, edit, granted, chosenFor, tokens>>
      /\ deaths' \in 0 .. MaxDeaths /\ screen' = [screen EXCEPT ![s] = screen'[s]]
  <2>1. UNCHANGED <<consent, mcpPolicy, edit, granted, chosenFor, tokens>>
    BY DEF FindConsent, FindPolicy, ScreenDies, UsesAccess
  <2>2. deaths' \in 0 .. MaxDeaths
    BY AccessAssumption DEF AccessInv, AccessTypeOK, FindConsent, FindPolicy, ScreenDies, UsesAccess
  <2>3. \E value : screen' = [screen EXCEPT ![s] = value]
    BY DEF FindConsent, FindPolicy, ScreenDies
  <2>4. screen' = [screen EXCEPT ![s] = screen'[s]]
    BY <2>3 DEF AccessInv
  <2> QED
    BY <2>1, <2>2, <2>4
<1>3. CASE FindConsent(s)
  <2>1. CASE consent[screen[s].client] = NoConsent
    <3>1. screen'[s] = Idle
      BY <1>3, <2>1 DEF FindConsent, AccessInv
    <3>2. \A c \in Clients : consent[c] # NoConsent => ~ Saves(s, c)
      BY <2>1 DEF Saves
    <3> QED
      BY <1>2, <3>1, <3>2, ScreenMoves DEF ScreenKnows
  <2>2. CASE consent[screen[s].client] # NoConsent
    <3> DEFINE t == screen[s]
    <3>1. screen'[s] = [t EXCEPT !.at = "row", !.id = consent[t.client],
                                 !.on = IF t.on = consent[t.client] THEN consent[t.client] ELSE Overtaken]
      BY <1>3, <2>2 DEF FindConsent, AccessInv
    <3>2. /\ screen'[s] \in Task /\ screen'[s].at = "row" /\ screen'[s].client = t.client
          /\ screen'[s].id = consent[t.client]
          /\ screen'[s].on \in {consent[t.client], Overtaken}
          /\ t.on = consent[t.client] => screen'[s].on = t.on
          /\ screen'[s] # Idle
      BY <1>1, <2>2, <3>1 DEF Task, Overtaken, NoConsent, Idle
    <3>3. ScreenKnows(s)'
      BY <1>1, <1>2, <2>2, <3>2 DEF ScreenKnows, Overtaken, NoConsent, Consents, Task, AccessInv, AccessTypeOK
    <3>4. \A c \in Clients : Saves(s, c) => Saves(s, c)'
      BY <1>2, <3>2 DEF Saves
    <3> QED
      BY <1>2, <3>2, <3>3, <3>4, ScreenMoves
  <2> QED
    BY <2>1, <2>2
<1>4. CASE FindPolicy(s)
  <2>1. screen'[s] = [screen[s] EXCEPT !.at = "write",
                                       !.exists = mcpPolicy[screen[s].id] # NoPolicy]
    BY <1>4 DEF FindPolicy, AccessInv
  <2>2. /\ screen'[s] \in Task /\ screen'[s].at = "write" /\ screen'[s].client = screen[s].client
        /\ screen'[s].id = screen[s].id /\ screen'[s].on = screen[s].on
        /\ screen'[s].exists = (mcpPolicy[screen[s].id] # NoPolicy)
        /\ screen'[s] # Idle
    BY <1>1, <2>1 DEF Task, Idle
  <2>3. ScreenKnows(s)'
    BY <1>1, <1>2, <1>4, <2>2 DEF ScreenKnows, FindPolicy
  <2>4. \A c \in Clients : Saves(s, c) => Saves(s, c)'
    BY <1>2, <1>4, <2>2 DEF Saves, FindPolicy
  <2> QED
    BY <1>2, <2>2, <2>3, <2>4, ScreenMoves
<1>5. CASE ScreenDies(s)
  <2>1. screen'[s] = [screen[s] EXCEPT !.at = "failed"]
    BY <1>5 DEF ScreenDies, AccessInv
  <2>2. /\ screen'[s] \in Task /\ screen'[s].at = "failed" /\ screen'[s].client = screen[s].client
        /\ screen'[s].id = screen[s].id /\ screen'[s].on = screen[s].on
        /\ screen'[s] # Idle
    BY <1>1, <2>1 DEF Task, Idle
  <2>3. ScreenKnows(s)'
    BY <1>1, <1>2, <2>2 DEF ScreenKnows
  <2>4. \A c \in Clients : Saves(s, c) => Saves(s, c)'
    BY <1>2, <2>2 DEF Saves
  <2> QED
    BY <1>2, <2>2, <2>3, <2>4, ScreenMoves
<1> QED
  BY <1>3, <1>4, <1>5

\* A consent is granted with a screen that saves it, or is there already.
LEMMA ConsentAccepted ==
  ASSUME AccessInv, NEW s \in Screens, NEW c \in Clients, NEW form \in Forms,
         AcceptConsent(s, c, form)
  PROVE  AccessInv'
<1> DEFINE made == [at |-> "find", client |-> c, form |-> PolicyFromForm(form),
                    id |-> NoConsent, exists |-> FALSE, on |-> consent'[c]]
<1>1. /\ screen[s] = Idle /\ Consented(c) /\ PolicyFromForm(form) # Invalid
      /\ tokens' = [tokens EXCEPT ![c] = tokens[c] \cup {"code"}]
      /\ screen' = [screen EXCEPT ![s] = made]
      /\ UNCHANGED <<mcpPolicy, edit, chosenFor, deaths>>
  BY DEF AcceptConsent, PassesBefore
<1>2. /\ consent \in [Clients -> Consents \cup {NoConsent}] /\ granted \in 0 .. MaxConsents
      /\ MaxConsents \in Nat
  BY AccessAssumption DEF AccessInv, AccessTypeOK
<1>3. /\ granted' \in 0 .. MaxConsents /\ granted <= granted'
      /\ consent' \in [Clients -> Consents \cup {NoConsent}]
      /\ consent'[c] \in Consents /\ consent'[c] <= granted'
      /\ \A d \in Clients \ {c} : consent'[d] = consent[d]
      /\ consent[c] # NoConsent => consent'[c] = consent[c]
      /\ consent[c] = NoConsent => consent'[c] = granted + 1 /\ granted' = granted + 1
  <2>1. CASE consent[c] # NoConsent
    BY <1>1, <1>2, <2>1 DEF Consented, AccessInv, OneEach
  <2>2. CASE consent[c] = NoConsent
    <3>1. granted < MaxConsents /\ granted' = granted + 1
          /\ consent' = [consent EXCEPT ![c] = granted + 1]
      BY <1>1, <2>2 DEF Consented
    <3>2. granted + 1 \in Consents
      BY <1>2, <3>1 DEF Consents
    <3> QED
      BY <1>2, <2>2, <3>1, <3>2
  <2> QED
    BY <2>1, <2>2
<1>4. made \in Task /\ made # Idle
  BY <1>1, <1>3, FormsArePolicies DEF Task, Idle
<1>5. /\ screen'[s] = made /\ \A t \in Screens \ {s} : screen'[t] = screen[t]
      /\ screen' = [t \in Screens |-> screen'[t]]
  BY <1>1 DEF AccessInv
<1>6. \A id \in Consents : (Live(id) => Live(id)') /\ (id <= granted /\ Live(id)' => Live(id))
  BY <1>2, <1>3 DEF Live, Consents
<1>7. AccessTypeOK'
  BY <1>1, <1>3, <1>4, <1>5 DEF AccessInv, AccessTypeOK, Tokens
<1>8. OneEach'
  BY <1>2, <1>3 DEF OneEach, AccessInv, Consents, NoConsent
<1>9. PoliciesAreLive'
  BY <1>1, <1>6 DEF PoliciesAreLive, AccessInv
<1>10. ScreenKnows(s)'
  BY <1>3, <1>5, <1>2 DEF ScreenKnows, NoConsent
<1>11. \A t \in Screens \ {s} : ScreenKnows(t)'
  <2> SUFFICES ASSUME NEW t \in Screens \ {s}, screen[t] # Idle PROVE ScreenKnows(t)'
    BY <1>5 DEF ScreenKnows
  <2>1. ScreenKnows(t) /\ screen[t] \in Task
    BY DEF AccessInv, AccessTypeOK
  <2>2. screen[t].id \in Consents \cup {NoConsent} /\ screen[t].on \in Consents \cup {NoConsent}
    BY <2>1 DEF Task
  <2> QED
    BY <1>1, <1>2, <1>3, <1>5, <1>6, <2>1, <2>2 DEF ScreenKnows, Consents, NoConsent
<1>12. \A e \in Edits : EditKnows(e)'
  BY <1>1, <1>2, <1>3 DEF AccessInv, EditKnows, Consents
<1>13. \A d \in Clients : IsSaved(d)'
  <2>1. CASE consent[c] = NoConsent
    <3>1. IsSaved(c)'
      BY <1>5 DEF IsSaved, Saves, Idle
    <3>2. ASSUME NEW d \in Clients \ {c} PROVE IsSaved(d)'
      <4> SUFFICES ASSUME consent[d] # NoConsent, mcpPolicy[consent[d]] = NoPolicy
                   PROVE  \E t \in Screens : Saves(t, d)'
        BY <1>1, <1>3 DEF IsSaved
      <4>1. PICK t \in Screens : Saves(t, d)
        BY DEF AccessInv, IsSaved
      <4>2. t # s
        BY <1>1, <4>1 DEF Saves
      <4> QED
        BY <1>3, <1>5, <4>1, <4>2 DEF Saves
    <3> QED
      BY <3>1, <3>2
  <2>2. CASE consent[c] # NoConsent
    <3>1. consent' = consent
      BY <1>1, <2>2 DEF Consented
    <3> QED
      BY <1>1, <1>5, <3>1 DEF AccessInv, IsSaved, Saves
  <2> QED
    BY <2>1, <2>2
<1> QED
  BY <1>1, <1>5, <1>7, <1>8, <1>9, <1>10, <1>11, <1>12, <1>13 DEF AccessInv

\* A policy is written for a consent that is live.
LEMMA PolicyWritten ==
  ASSUME AccessInv, NEW task \in Task, task.id \in Consents, Live(task.id),
         task.on \in {task.id, Overtaken}, WritePolicy(task),
         UNCHANGED <<consent, granted, tokens, deaths>>
  PROVE  /\ mcpPolicy' \in [Consents -> Policies \cup {NoPolicy}]
         /\ chosenFor' \in [Consents -> Consents \cup {NoConsent}]
         /\ PoliciesAreLive' /\ OneEach'
         /\ \A id \in Consents : mcpPolicy[id] # NoPolicy => mcpPolicy'[id] # NoPolicy
         /\ mcpPolicy'[task.id] # NoPolicy
<1>1. /\ mcpPolicy' = [mcpPolicy EXCEPT ![task.id] = task.form]
      /\ chosenFor' = [chosenFor EXCEPT ![task.id] = task.on]
      /\ task.form \in Policies /\ task.form # NoPolicy
  BY AccessAssumption DEF WritePolicy, Target, Task
<1>2. /\ mcpPolicy \in [Consents -> Policies \cup {NoPolicy}]
      /\ chosenFor \in [Consents -> Consents \cup {NoConsent}]
  BY DEF AccessInv, AccessTypeOK
<1>3. \A id : Live(id)' = Live(id)
  BY DEF Live
<1>4. OneEach'
  BY DEF AccessInv, OneEach
<1>5. chosenFor' \in [Consents -> Consents \cup {NoConsent}]
  BY <1>1, <1>2 DEF Overtaken, NoConsent
<1>6. PoliciesAreLive'
  BY <1>1, <1>2, <1>3 DEF AccessInv, PoliciesAreLive
<1> QED
  BY <1>1, <1>2, <1>4, <1>5, <1>6

LEMMA ScreenSaves ==
  ASSUME AccessInv, NEW s \in Screens, SaveConsentPolicy(s)
  PROVE  AccessInv'
<1> DEFINE task == screen[s]
           row == mcpPolicy[task.id] # NoPolicy
<1>1. /\ task \in Task /\ task # Idle /\ task.at = "write" /\ task.id \in Consents
      /\ task.on \in {task.id, Overtaken} /\ task.exists \in BOOLEAN /\ ScreenKnows(s)
  BY DEF AccessInv, AccessTypeOK, ScreenKnows, SaveConsentPolicy, Idle, Task
<1>2. /\ UNCHANGED <<consent, edit, tokens, granted, deaths>>
      /\ screen' = [screen EXCEPT ![s] = Idle]
  BY DEF SaveConsentPolicy, UsesAccess
<1>3. screen'[s] = Idle /\ \A t \in Screens \ {s} : screen'[t] = screen[t]
  BY <1>2 DEF AccessInv
<1>4. CASE UNCHANGED <<mcpPolicy, chosenFor>> /\
           (row \/ ~ Live(task.id))
  <2>1. \A c \in Clients : consent[c] # NoConsent /\ mcpPolicy[consent[c]] = NoPolicy
                           => ~ Saves(s, c)
    <3> SUFFICES ASSUME NEW c \in Clients, consent[c] # NoConsent,
                        mcpPolicy[consent[c]] = NoPolicy, Saves(s, c)
                 PROVE  FALSE
      OBVIOUS
    <3>1. task.id = consent[c]
      BY <1>1 DEF Saves
    <3> QED
      BY <1>4, <3>1 DEF Live
  <2>2. /\ screen' = [screen EXCEPT ![s] = screen'[s]]
        /\ deaths' \in 0 .. MaxDeaths /\ ScreenKnows(s)'
    BY <1>2, <1>3 DEF AccessInv, AccessTypeOK, ScreenKnows
  <2> QED
    BY <1>2, <1>3, <1>4, <2>1, <2>2, ScreenMoves
<1>5. CASE WritePolicy(task) /\ Live(task.id)
  <2>1. /\ mcpPolicy' \in [Consents -> Policies \cup {NoPolicy}]
        /\ chosenFor' \in [Consents -> Consents \cup {NoConsent}]
        /\ PoliciesAreLive' /\ OneEach'
        /\ \A id \in Consents : mcpPolicy[id] # NoPolicy => mcpPolicy'[id] # NoPolicy
        /\ mcpPolicy'[task.id] # NoPolicy
    BY <1>1, <1>2, <1>5, PolicyWritten
  <2>2. AccessTypeOK' /\ screen' = [t \in Screens |-> screen'[t]] /\ edit' = [e \in Edits |-> edit'[e]]
    BY <1>2, <1>3, <2>1 DEF AccessInv, AccessTypeOK
  <2>3. \A t \in Screens : ScreenKnows(t)'
    BY <1>2, <1>3, <2>1 DEF AccessInv, ScreenKnows, Live
  <2>4. \A e \in Edits : EditKnows(e)'
    BY <1>2 DEF AccessInv, EditKnows
  <2>5. ASSUME NEW c \in Clients PROVE IsSaved(c)'
    <3> SUFFICES ASSUME consent[c] # NoConsent, mcpPolicy'[consent[c]] = NoPolicy
                 PROVE  \E t \in Screens : Saves(t, c)'
      BY <1>2 DEF IsSaved
    <3>1. consent[c] \in Consents
      BY DEF AccessInv, AccessTypeOK
    <3>2. mcpPolicy[consent[c]] = NoPolicy /\ consent[c] # task.id
      BY <2>1, <3>1
    <3>3. PICK t \in Screens : Saves(t, c)
      BY <3>2 DEF AccessInv, IsSaved
    <3>4. t # s
      BY <1>1, <3>2, <3>3 DEF Saves
    <3> QED
      BY <1>2, <1>3, <3>3, <3>4 DEF Saves
  <2> QED
    BY <2>1, <2>2, <2>3, <2>4, <2>5 DEF AccessInv
<1>6. PoliciesAreLive
  BY DEF AccessInv
<1> QED
  BY <1>1, <1>4, <1>5, <1>6 DEF SaveConsentPolicy, Target, PoliciesAreLive, ScreenKnows

\* A save of the clients page.
LEMMA EditMoves ==
  ASSUME AccessInv, NEW e \in Edits, edit' = [edit EXCEPT ![e] = edit'[e]],
         UNCHANGED <<consent, screen, granted, tokens>>,
         deaths' \in 0 .. MaxDeaths,
         edit'[e] = Idle \/ edit'[e] \in Task, EditKnows(e)',
         mcpPolicy' \in [Consents -> Policies \cup {NoPolicy}],
         chosenFor' \in [Consents -> Consents \cup {NoConsent}],
         PoliciesAreLive',
         \A id \in Consents : mcpPolicy[id] # NoPolicy => mcpPolicy'[id] # NoPolicy
  PROVE  AccessInv'
<1>1. \A d \in Edits \ {e} : edit'[d] = edit[d]
  BY DEF AccessInv
<1>2. AccessTypeOK' /\ screen' = [s \in Screens |-> screen'[s]] /\ edit' = [d \in Edits |-> edit'[d]]
  BY <1>1 DEF AccessInv, AccessTypeOK
<1>3. OneEach' /\ \A d \in Edits : EditKnows(d)'
  BY <1>1 DEF AccessInv, OneEach, EditKnows
<1>4. \A s \in Screens : ScreenKnows(s)'
  BY DEF AccessInv, ScreenKnows, Live
<1>5. \A c \in Clients : IsSaved(c)'
  BY DEF AccessInv, AccessTypeOK, IsSaved, Saves
<1> QED
  BY <1>2, <1>3, <1>4, <1>5 DEF AccessInv

LEMMA EditSteps ==
  ASSUME AccessInv, NEW e \in Edits, EditStep(e)
  PROVE  AccessInv'
<1>1. \E value : edit' = [edit EXCEPT ![e] = value]
  BY DEF EditStep, OpenEdit, CheckEdit, SetPolicy, EditDies
<1>2. /\ edit' = [edit EXCEPT ![e] = edit'[e]]
      /\ edit[e] = Idle \/ (edit[e] \in Task /\ EditKnows(e))
      /\ PoliciesAreLive /\ deaths \in 0 .. MaxDeaths
      /\ mcpPolicy \in [Consents -> Policies \cup {NoPolicy}]
      /\ chosenFor \in [Consents -> Consents \cup {NoConsent}]
  BY <1>1 DEF AccessInv, AccessTypeOK
<1>3. ASSUME NEW c \in Clients, NEW form \in Forms, OpenEdit(e, c, form) PROVE AccessInv'
  <2> DEFINE made == [at |-> "find", client |-> c, form |-> PolicyFromForm(form),
                      id |-> consent[c], exists |-> TRUE, on |-> consent[c]]
  <2>1. /\ edit'[e] = made /\ consent[c] # NoConsent /\ PolicyFromForm(form) # Invalid
        /\ UNCHANGED <<consent, mcpPolicy, screen, chosenFor, tokens, granted, deaths>>
    BY <1>3 DEF OpenEdit, UsesAccess, AccessInv
  <2>2. consent[c] \in Consents /\ consent[c] <= granted
    BY <2>1 DEF AccessInv, AccessTypeOK, OneEach
  <2>3. made \in Task
    BY <2>1, <2>2, FormsArePolicies DEF Task
  <2>4. EditKnows(e)'
    BY <2>1, <2>2 DEF EditKnows
  <2>5. PoliciesAreLive'
    BY <1>2, <2>1 DEF PoliciesAreLive, Live
  <2> HIDE DEF made
  <2> QED
    BY <1>2, <2>1, <2>3, <2>4, <2>5, EditMoves
<1>4. ASSUME CheckEdit(e) \/ EditDies(e) PROVE AccessInv'
  <2>1. UNCHANGED <<consent, mcpPolicy, screen, chosenFor, tokens, granted>>
    BY <1>4 DEF CheckEdit, EditDies, UsesAccess
  <2>2. edit'[e] = Idle \/ edit'[e] = [edit[e] EXCEPT !.at = "write"]
    BY <1>4 DEF CheckEdit, EditDies, AccessInv
  <2>3. edit[e] # Idle
    BY <1>4 DEF CheckEdit, EditDies, Idle
  <2>4. edit'[e] = Idle \/ (/\ edit'[e] \in Task
                            /\ edit'[e].id = edit[e].id /\ edit'[e].on = edit[e].on)
    BY <1>2, <2>2, <2>3 DEF Task
  <2>5. EditKnows(e)'
    BY <1>2, <2>1, <2>3, <2>4 DEF EditKnows
  <2>6. PoliciesAreLive'
    BY <1>2, <2>1 DEF PoliciesAreLive, Live
  <2>7. deaths' \in 0 .. MaxDeaths
    BY <1>2, <1>4, AccessAssumption DEF CheckEdit, EditDies, UsesAccess
  <2> QED
    BY <1>2, <2>1, <2>4, <2>5, <2>6, <2>7, EditMoves
<1>5. ASSUME SetPolicy(e) PROVE AccessInv'
  <2>1. /\ UNCHANGED <<consent, screen, tokens, granted, deaths>>
        /\ edit[e].at = "write" /\ edit'[e] = Idle
    BY <1>5 DEF SetPolicy, UsesAccess, AccessInv
  <2>2. edit[e] \in Task /\ edit[e].id \in Consents /\ edit[e].on = edit[e].id
    BY <1>2, <2>1 DEF EditKnows, Idle
  <2>3. EditKnows(e)'
    BY <2>1 DEF EditKnows
  <2>4. CASE Live(edit[e].id)
    <3>1. WritePolicy(edit[e])
      BY <1>5, <2>4 DEF SetPolicy, Target
    <3> QED
      BY <1>2, <2>1, <2>2, <2>3, <2>4, <3>1, PolicyWritten, EditMoves
  <2>5. CASE ~ Live(edit[e].id)
    <3>1. UNCHANGED <<mcpPolicy, chosenFor>>
      BY <1>5, <2>5 DEF SetPolicy, Target
    <3>2. PoliciesAreLive'
      BY <1>2, <2>1, <3>1 DEF PoliciesAreLive, Live
    <3> QED
      BY <1>2, <2>1, <2>3, <3>1, <3>2, EditMoves
  <2> QED
    BY <2>4, <2>5
<1> QED
  BY <1>3, <1>4, <1>5 DEF EditStep

LEMMA AccessRevoked ==
  ASSUME AccessInv, NEW c \in Clients, Revoke(c)
  PROVE  AccessInv'
<1>1. /\ consent' = [consent EXCEPT ![c] = NoConsent]
      /\ tokens' = [tokens EXCEPT ![c] = tokens[c] \ {"refresh"}]
      /\ UNCHANGED <<screen, edit, granted, deaths>>
      /\ mcpPolicy' = [id \in Consents |-> IF id = consent[c] THEN NoPolicy ELSE mcpPolicy[id]]
      /\ chosenFor' = [id \in Consents |-> IF id = consent[c] THEN NoConsent ELSE chosenFor[id]]
  BY DEF Revoke
<1>2. /\ consent \in [Clients -> Consents \cup {NoConsent}]
      /\ mcpPolicy \in [Consents -> Policies \cup {NoPolicy}]
      /\ chosenFor \in [Consents -> Consents \cup {NoConsent}]
      /\ granted \in 0 .. MaxConsents
  BY DEF AccessInv, AccessTypeOK
<1>3. /\ consent' \in [Clients -> Consents \cup {NoConsent}] /\ consent'[c] = NoConsent
      /\ \A d \in Clients \ {c} : consent'[d] = consent[d]
  BY <1>1, <1>2 DEF NoConsent
<1>4. AccessTypeOK'
  BY <1>1, <1>2, <1>3 DEF AccessInv, AccessTypeOK, Tokens
<1>5. OneEach'
  BY <1>1, <1>2, <1>3 DEF AccessInv, OneEach, NoConsent
<1>6. \A id \in Consents : Live(id) /\ id # consent[c] <=> Live(id)'
  BY <1>2, <1>3 DEF Live, AccessInv, OneEach
<1>7. PoliciesAreLive'
  BY <1>1, <1>6 DEF AccessInv, PoliciesAreLive, Overtaken, NoConsent
<1>8. ASSUME NEW s \in Screens PROVE ScreenKnows(s)'
  <2>1. ScreenKnows(s)
    BY DEF AccessInv
  <2> QED
    BY <1>1, <1>6, <2>1 DEF ScreenKnows
<1>9. \A e \in Edits : EditKnows(e)'
  BY <1>1 DEF AccessInv, EditKnows
<1>10. ASSUME NEW d \in Clients PROVE IsSaved(d)'
  <2>1. CASE d = c
    BY <1>3, <2>1 DEF IsSaved
  <2>2. CASE d # c /\ consent[d] # NoConsent
    <3>1. consent'[d] = consent[d] /\ consent[d] # consent[c] /\ consent[d] \in Consents
      BY <1>2, <1>3, <2>2 DEF AccessInv, OneEach
    <3>2. mcpPolicy'[consent'[d]] = mcpPolicy[consent[d]]
      BY <1>1, <3>1
    <3>3. IsSaved(d)
      BY DEF AccessInv
    <3> QED
      BY <1>1, <3>1, <3>2, <3>3 DEF IsSaved, Saves
  <2>3. CASE d # c /\ consent[d] = NoConsent
    BY <1>3, <2>3 DEF IsSaved
  <2> QED
    BY <2>1, <2>2, <2>3
<1> QED
  BY <1>1, <1>4, <1>5, <1>7, <1>8, <1>9, <1>10 DEF AccessInv

\* Nothing above depends on the tokens, or on the bound for deaths.
LEMMA TokensChange ==
  ASSUME AccessInv, tokens' \in [Clients -> SUBSET Tokens], deaths' \in 0 .. MaxDeaths,
         UNCHANGED <<consent, mcpPolicy, screen, edit, granted, chosenFor>>
  PROVE  AccessInv'
BY DEF AccessInv, AccessTypeOK, OneEach, PoliciesAreLive, ScreenKnows, EditKnows,
       IsSaved, Saves, Live

LEMMA AccessSteps ==
  ASSUME AccessInv, AccessNext
  PROVE  AccessInv'
<1>1. ASSUME NEW s \in Screens, ScreenStep(s) PROVE AccessInv'
  BY <1>1, ConsentAccepted, ScreenLooks, ScreenSaves DEF ScreenStep
<1>2. ASSUME NEW c \in Clients, TokenExpires(c) PROVE AccessInv'
  BY <1>2, TokensChange DEF TokenExpires, AccessInv, AccessTypeOK
<1>3. ASSUME NEW c \in Clients, NEW by \in {"code", "refresh"}, IssueTokens(c, by)
      PROVE  AccessInv'
  <2>1. tokens' \in [Clients -> SUBSET Tokens]
    BY <1>3 DEF IssueTokens, AccessInv, AccessTypeOK, Tokens
  <2> QED
    BY <1>3, <2>1, TokensChange DEF IssueTokens, AccessInv, AccessTypeOK
<1> QED
  BY <1>1, <1>2, <1>3, EditSteps, AccessRevoked DEF AccessNext

-----------------------------------------------------------------------------
(* Requests: the invariant.                                                *)

Fields == {"at", "by", "policy", "ask", "answer", "gone"}

\* A request that is served asks for something there is; a client that was
\* turned away asked for anything, and has its answer.
WellAsked(q) ==
  \/ q = Free
  \/ /\ q.at # "free" /\ Fields \subseteq DOMAIN q /\ q.by \in Clients \cup {Operator}
     /\ \/ q.ask \in Ask
        \/ q.at = "answered" /\ q.ask = [op |-> "any"] /\ q.policy = NoPolicy

\* What an answer may tell of.
MayTell(q, code, boxes, messages) ==
  /\ \A m \in boxes \ q.policy.mailboxIds :
       code = "mailbox_forbidden" /\ m = q.ask.content.from
  /\ messages # {} => q.policy.canRead
  /\ messages \cap q.gone = {}

\* What a handler has checked by the time it makes its next call.
ScopeKept(q) ==
  q.at # "free" /\ q.policy # NoPolicy =>
    /\ q.policy = OperatorPolicy \/ q.ask.op \in Tools
    /\ q.at = "answered" => MayTell(q, q.answer.code, q.answer.boxes, q.answer.mail)
    /\ q.at \in {"reread", "body", "archive"} => q.policy.canRead
    /\ q.at = "list" /\ q.ask.op = "listMessages" => q.policy.canRead
    /\ q.at = "archive" =>
         MailboxOf[q.ask.mail] \in q.policy.mailboxIds /\ q.ask.mail \notin q.gone
    /\ q.at = "unusable" => q.ask.content.from \in q.policy.mailboxIds

\* What was deleted before a request came in is deleted while it is served.
Deleted == {x \in Messages : mail[x] = "deleted"}

GoneInv ==
  /\ mail = [x \in Messages |-> mail[x]]
  /\ \A r \in Requests : request[r].at # "free" => request[r].gone \subseteq Deleted

DeletedStays == mail' = [x \in Messages |-> mail'[x]] /\ Deleted \subseteq Deleted'

RequestInv ==
  /\ request = [r \in Requests |-> request[r]]
  /\ \A r \in Requests : WellAsked(request[r]) /\ ScopeKept(request[r])
  /\ GoneInv

OneRow == \A j, k \in jobs : j.by = k.by /\ j.id = k.id => j = k

JobsInv == jobs \subseteq Job /\ IsFiniteSet(jobs) /\ OneRow

\* An accepted submission has its row.
Accepted(q) ==
  q.at = "answered" /\ q.ask.op = "submitMessage" /\ q.answer.code = "ok" =>
    \E j \in jobs : j.by = q.by /\ j.id = q.ask.id /\ j.content = q.ask.content

AcceptedInv == \A r \in Requests : Accepted(request[r])

\* A forwarding that is about to be set has been registered.
ForwardInv ==
  /\ forward = [m \in Mailboxes |-> forward[m]] /\ ForwardsToRegistered
  /\ \A r \in Requests :
       request[r].at = "set" /\ request[r].ask.op = "setForwarding" =>
         request[r].ask.to \in registered

\* The rows of the command line client's submission.
CliJobs == JobsOf(Operator, cli.id, cli.content)

\* It waits for the request with that submission.
CliWaits ==
  cli.at = "wait" =>
    /\ cli.on \in Requests /\ request[cli.on].at # "free" /\ request[cli.on].by = Operator
    /\ request[cli.on].ask = [op |-> "submitMessage", id |-> cli.id, content |-> cli.content]

\* It has no answer that leaves room for a job.
Unsent ==
  \/ cli.at = "send"
  \/ cli.at = "wait" /\ ~ (/\ request[cli.on].at = "answered"
                           /\ request[cli.on].answer.code \in {"ok", "failed"})
  \/ cli.at = "done" /\ cli.outcome = "refused"

\* An operator's submission that is served is the one the client waits for, or
\* one it has given up.
InFlight ==
  \A r \in Requests :
    request[r].at \notin {"free", "answered"}
      /\ request[r].by = Operator /\ request[r].ask.op = "submitMessage" =>
      (cli.at = "wait" /\ cli.on = r) \/ request[r].ask.id \in cli.missed

CliInv ==
  /\ cli.at \in {"idle", "send", "wait", "done"}
  /\ cli.at \in {"send", "wait"} => cli.id \in RequestIds /\ cli.content \in Contents
  /\ CliWaits /\ InFlight
  /\ Unsent /\ cli.id \notin cli.missed => CliJobs \subseteq cli.known
  /\ cli.at = "done" /\ cli.outcome = "ok" => CliJobs # {}

IInv == AccessInv /\ RequestInv /\ JobsInv /\ AcceptedInv /\ ForwardInv /\ CliInv

-----------------------------------------------------------------------------
(* A handler's steps.                                                      *)

LEMMA AskedFor ==
  ASSUME NEW ask \in Ask
  PROVE  /\ ask.op \in BoxOps \cup {"setForwarding"} => ask.box \in Mailboxes
         /\ ask.op \in MailOps => ask.mail \in Messages
         /\ ask.op = "submitMessage" => ask.id \in RequestIds /\ ask.content \in Contents
         /\ ask.op # "any"
BY DEF Ask, BoxOps, MailOps, ReadOps

\* The request goes on as it was admitted, and the others as they were.
Continues(r) ==
  /\ request' = [q \in Requests |-> request'[q]]
  /\ \A q \in Requests \ {r} : request'[q] = request[q]
  /\ WellAsked(request'[r]) /\ request'[r].at # "free"
  /\ request'[r].by = request[r].by /\ request'[r].policy = request[r].policy
  /\ request'[r].ask = request[r].ask /\ request'[r].gone = request[r].gone

Served(r) == request[r].at \notin {"free", "answered"}

LEMMA Replies ==
  ASSUME RequestInv, NEW r \in Requests, request[r].at # "free",
         NEW code, NEW boxes, NEW messages, Answer(r, code, boxes, messages),
         request[r].policy # NoPolicy => MayTell(request[r], code, boxes, messages)
  PROVE  /\ Continues(r) /\ ScopeKept(request'[r])
         /\ request'[r].at = "answered" /\ request'[r].answer.code = code
<1> DEFINE answer == [code |-> code, boxes |-> boxes, mail |-> messages]
<1>1. /\ WellAsked(request[r]) /\ ScopeKept(request[r]) /\ request[r] # Free
      /\ Fields \subseteq DOMAIN request[r]
  BY DEF RequestInv, WellAsked, Free
<1>2. /\ request' = [q \in Requests |-> request'[q]]
      /\ \A q \in Requests \ {r} : request'[q] = request[q]
      /\ request'[r] = [request[r] EXCEPT !.at = "answered", !.answer = answer]
  BY DEF RequestInv, Answer
<1>3. /\ DOMAIN request'[r] = DOMAIN request[r] /\ request'[r].at = "answered"
      /\ request'[r].by = request[r].by /\ request'[r].policy = request[r].policy
      /\ request'[r].ask = request[r].ask /\ request'[r].answer = answer
      /\ request'[r].gone = request[r].gone
  BY <1>1, <1>2 DEF Fields
<1>4. WellAsked(request'[r])
  BY <1>1, <1>3 DEF WellAsked
<1>5. ScopeKept(request'[r])
  BY <1>1, <1>3 DEF ScopeKept, MayTell
<1> QED
  BY <1>2, <1>3, <1>4, <1>5 DEF Continues

\* An answer that tells of mailboxes of the policy, and of no message.
LEMMA Names ==
  ASSUME RequestInv, NEW r \in Requests, request[r].at # "free",
         NEW code, NEW boxes, Answer(r, code, boxes, {}),
         request[r].policy # NoPolicy => boxes \subseteq Scope(r)
  PROVE  /\ Continues(r) /\ ScopeKept(request'[r])
         /\ request'[r].at = "answered" /\ request'[r].answer.code = code
<1>1. request[r].policy # NoPolicy => MayTell(request[r], code, boxes, {})
  BY DEF MayTell, Scope
<1> QED
  BY <1>1, Replies

GoesTo(r, stage) ==
  \/ GoTo(r, stage)
  \/ \E to : request' = [request EXCEPT ![r] = [@ EXCEPT !.at = stage, !.to = to]]

LEMMA GoesOn ==
  ASSUME RequestInv, NEW r \in Requests, Served(r), NEW stage, GoesTo(r, stage),
         stage \notin {"free", "answered"},
         stage \in {"reread", "body", "archive"} => CanRead(r),
         stage = "list" /\ request[r].ask.op = "listMessages" => CanRead(r),
         stage = "archive" => /\ MailboxOf[request[r].ask.mail] \in Scope(r)
                              /\ request[r].ask.mail \notin request[r].gone,
         stage = "unusable" => request[r].ask.content.from \in Scope(r)
  PROVE  Continues(r) /\ ScopeKept(request'[r]) /\ request'[r].at = stage
<1>1. /\ WellAsked(request[r]) /\ ScopeKept(request[r]) /\ request[r] # Free
      /\ Fields \subseteq DOMAIN request[r]
  <2>1. request[r].at # "free"
    BY DEF Served
  <2> QED
    BY <2>1 DEF RequestInv, WellAsked, Free
<1>2. /\ request' = [q \in Requests |-> request'[q]]
      /\ \A q \in Requests \ {r} : request'[q] = request[q]
      /\ \/ request'[r] = [request[r] EXCEPT !.at = stage]
         \/ \E to : request'[r] = [request[r] EXCEPT !.at = stage, !.to = to]
  BY DEF RequestInv, GoesTo, GoTo
<1>3. /\ DOMAIN request'[r] = DOMAIN request[r] /\ request'[r].at = stage
      /\ request'[r].by = request[r].by /\ request'[r].policy = request[r].policy
      /\ request'[r].ask = request[r].ask /\ request'[r].gone = request[r].gone
  BY <1>1, <1>2 DEF Fields
<1>4. WellAsked(request'[r])
  BY <1>1, <1>3 DEF WellAsked, Served
<1>5. ScopeKept(request'[r])
  <2> SUFFICES ASSUME request[r].policy # NoPolicy PROVE ScopeKept(request'[r])
    BY <1>3 DEF ScopeKept
  <2>1. request[r].policy = OperatorPolicy \/ request[r].ask.op \in Tools
    BY <1>1 DEF ScopeKept, Served
  <2> QED
    BY <1>3, <2>1 DEF ScopeKept, Scope, CanRead
<1> QED
  BY <1>2, <1>3, <1>4, <1>5 DEF Continues

LEMMA GoneStays ==
  ASSUME GoneInv, NEW r \in Requests, request[r].at # "free", Continues(r), DeletedStays
  PROVE  GoneInv'
BY DEF GoneInv, DeletedStays, Continues

\* A handler that stores no job and accepts no submission.
LEMMA Handled ==
  ASSUME IInv, NEW r \in Requests, Served(r), Continues(r), ScopeKept(request'[r]),
         UNCHANGED <<accessVars, jobs, cli>>, ForwardInv', DeletedStays,
         request[r].ask.op = "submitMessage" /\ request'[r].at = "answered" =>
           request'[r].answer.code # "ok"
  PROVE  IInv'
<1>1. AccessInv'
  BY DEF IInv, AccessInv, AccessTypeOK, OneEach, PoliciesAreLive, ScreenKnows, EditKnows,
         IsSaved, Saves, Live, accessVars
<1>2. RequestInv'
  BY GoneStays DEF IInv, RequestInv, Continues, Served
<1>3. JobsInv' /\ AcceptedInv'
  BY DEF IInv, JobsInv, OneRow, AcceptedInv, Accepted, Continues
<1>4. CliWaits'
  BY DEF IInv, CliInv, CliWaits, Continues, Served
<1>5. InFlight'
  BY DEF IInv, CliInv, InFlight, Continues, Served
<1>6. Unsent' => Unsent
  BY DEF Unsent, Continues, Served, IInv, CliInv, CliWaits
<1> QED
  BY <1>1, <1>2, <1>3, <1>4, <1>5, <1>6 DEF IInv, CliInv, CliJobs, JobsOf

LEMMA MailStays == RequestInv /\ UNCHANGED mail => DeletedStays
BY DEF RequestInv, GoneInv, DeletedStays, Deleted

LEMMA ForwardStays ==
  ASSUME ForwardInv, NEW r \in Requests, Continues(r), UNCHANGED forward,
         registered \subseteq registered',
         request'[r].at = "set" /\ request[r].ask.op = "setForwarding" =>
           request[r].ask.to \in registered'
  PROVE  ForwardInv'
BY DEF ForwardInv, ForwardsToRegistered, Continues

LEMMA Refuses ==
  ASSUME RequestInv, NEW r \in Requests, request[r].at # "free", NEW code, Refuse(r, code)
  PROVE  /\ Continues(r) /\ ScopeKept(request'[r])
         /\ request'[r].at = "answered" /\ request'[r].answer.code = code
BY Names DEF Refuse

LEMMA TellsOfMail ==
  ASSUME RequestInv, NEW r \in Requests, request[r].at # "free",
         NEW messages, AnswerMail(r, messages),
         request[r].policy # NoPolicy =>
           /\ CanRead(r)
           /\ \A x \in messages : MailboxOf[x] \in Scope(r) /\ x \notin request[r].gone
  PROVE  Continues(r) /\ ScopeKept(request'[r]) /\ request'[r].at = "answered"
<1> DEFINE boxes == {MailboxOf[x] : x \in messages}
<1>1. request[r].policy # NoPolicy =>
        boxes \subseteq Scope(r) /\ CanRead(r) /\ messages \cap request[r].gone = {}
  OBVIOUS
<1>2. Answer(r, "ok", boxes, messages)
  BY DEF AnswerMail
<1> HIDE DEF boxes
<1>3. request[r].policy # NoPolicy => MayTell(request[r], "ok", boxes, messages)
  BY <1>1 DEF MayTell, Scope, CanRead
<1> QED
  BY <1>2, <1>3, Replies

\* What the store's queries find.
LEMMA Seen ==
  ASSUME RequestInv, NEW r \in Requests, request[r].at # "free"
  PROVE  \A x \in Visible(r) : MailboxOf[x] \in Scope(r) /\ x \notin request[r].gone
BY DEF RequestInv, GoneInv, Deleted, Visible

\* A step of an operation other than a submission.
Turns(r) ==
  /\ Served(r) /\ Continues(r) /\ ScopeKept(request'[r])
  /\ request[r].ask.op \notin {"submitMessage", "setForwarding"}

LEMMA Turned ==
  ASSUME IInv, NEW r \in Requests, Turns(r),
         UNCHANGED <<accessVars, jobs, cli>>, UNCHANGED <<forward, registered>>, DeletedStays
  PROVE  IInv'
BY ForwardStays, Handled DEF Turns, IInv

\* What a request that is served has been found to be allowed.
LEMMA FoundAllowed ==
  ASSUME RequestInv, NEW r \in Requests, Served(r)
  PROVE  /\ request[r].at # "free" /\ request[r].ask \in Ask
         /\ request[r].policy # NoPolicy =>
              /\ request[r].ask.op \notin Tools =>
                   request[r].policy = OperatorPolicy /\ Scope(r) = Mailboxes
              /\ request[r].at \in {"reread", "body", "archive"} => CanRead(r)
              /\ request[r].at = "list" /\ request[r].ask.op = "listMessages" => CanRead(r)
              /\ request[r].at = "archive" => /\ MailboxOf[request[r].ask.mail] \in Scope(r)
                                              /\ request[r].ask.mail \notin request[r].gone
              /\ request[r].at = "unusable" => request[r].ask.content.from \in Scope(r)
<1>1. request[r].at \notin {"free", "answered"} /\ WellAsked(request[r]) /\ ScopeKept(request[r])
  BY DEF Served, RequestInv
<1>2. request[r].at # "free" /\ request[r].ask \in Ask
  BY <1>1 DEF WellAsked, Free
<1>3. ASSUME request[r].policy # NoPolicy, request[r].ask.op \notin Tools
      PROVE  request[r].policy = OperatorPolicy /\ Scope(r) = Mailboxes
  <2>1. request[r].policy = OperatorPolicy
    BY <1>1, <1>3 DEF ScopeKept
  <2>2. OperatorPolicy.mailboxIds = Mailboxes
    BY DEF OperatorPolicy
  <2> QED
    BY <2>1, <2>2 DEF Scope
<1>4. ASSUME request[r].policy # NoPolicy
      PROVE  /\ request[r].at \in {"reread", "body", "archive"} => CanRead(r)
             /\ request[r].at = "list" /\ request[r].ask.op = "listMessages" => CanRead(r)
             /\ request[r].at = "archive" => /\ MailboxOf[request[r].ask.mail] \in Scope(r)
                                             /\ request[r].ask.mail \notin request[r].gone
             /\ request[r].at = "unusable" => request[r].ask.content.from \in Scope(r)
  BY <1>1, <1>4 DEF ScopeKept, Scope, CanRead
<1> QED
  BY <1>2, <1>3, <1>4

LEMMA Lists ==
  ASSUME RequestInv, NEW r \in Requests,
         ListMailboxes(r) \/ ListSendingIdentities(r) \/ ListThreads(r)
  PROVE  Turns(r)
<1>1. Served(r) /\ request[r].ask.op \in {"listMailboxes", "listSendingIdentities", "listThreads"}
      /\ request[r].at # "free"
  BY DEF ListMailboxes, ListSendingIdentities, ListThreads, At, Serves, Served
<1>2. CASE \E code : Refuse(r, code)
  BY <1>1, <1>2, Refuses DEF Turns
<1>3. CASE \E boxes : Answer(r, "ok", boxes, {}) /\ boxes \subseteq Scope(r)
  BY <1>1, <1>3, Names DEF Turns
<1>4. CASE CanRead(r) /\ AnswerMail(r, Visible(r))
  <2>1. \A x \in Visible(r) : MailboxOf[x] \in Scope(r) /\ x \notin request[r].gone
    BY <1>1, Seen
  <2> QED
    BY <1>1, <1>4, <2>1, TellsOfMail DEF Turns
<1> QED
  BY <1>2, <1>3, <1>4 DEF ListMailboxes, ListSendingIdentities, ListThreads

LEMMA ReadsThread ==
  ASSUME RequestInv, NEW r \in Requests, ReadThread(r)
  PROVE  Turns(r)
<1>1. Served(r) /\ request[r].ask.op = "getThread" /\ request[r].at # "free"
  BY DEF ReadThread, At, Serves, Served
<1>2. CASE \E code : Refuse(r, code)
  BY <1>1, <1>2, Refuses DEF Turns
<1>3. CASE CanRead(r) /\ \E x \in Visible(r) : AnswerMail(r, {x})
  BY <1>1, <1>3, Seen, TellsOfMail DEF Turns
<1> QED
  BY <1>2, <1>3 DEF ReadThread, GetThread

LEMMA MarksThread ==
  ASSUME RequestInv, NEW r \in Requests, SetThreadReadState(r)
  PROVE  Turns(r)
<1>1. Served(r) /\ request[r].ask.op \in {"markThreadRead", "markThreadUnread"}
      /\ request[r].at # "free"
  BY DEF SetThreadReadState, Serves, Served
<1>2. CASE \E code : Refuse(r, code)
  BY <1>1, <1>2, Refuses DEF Turns
<1>3. CASE request[r].at = "reread" /\ \E x \in Visible(r) : AnswerMail(r, {x})
  <2>1. request[r].policy # NoPolicy => CanRead(r)
    BY <1>1, <1>3, FoundAllowed
  <2> QED
    BY <1>1, <1>3, <2>1, Seen, TellsOfMail DEF Turns
<1>4. CASE CanRead(r) /\ GoTo(r, "reread")
  <2>1. GoesTo(r, "reread")
    BY <1>4 DEF GoesTo
  <2>2. Continues(r) /\ ScopeKept(request'[r])
    BY <1>1, <1>4, <2>1, GoesOn
  <2> QED
    BY <1>1, <2>2 DEF Turns
<1> QED
  BY <1>2, <1>3, <1>4 DEF SetThreadReadState, GetThread

LEMMA DeletesThread ==
  ASSUME RequestInv, NEW r \in Requests, SoftDeleteVisibleThread(r)
  PROVE  Turns(r)
<1>1. Served(r) /\ request[r].ask.op = "softDeleteThread" /\ request[r].at # "free"
  BY DEF SoftDeleteVisibleThread, At, Serves, Served
<1> QED
  BY <1>1, Refuses, Names DEF SoftDeleteVisibleThread, Turns

LEMMA ListsMessages ==
  ASSUME RequestInv, NEW r \in Requests, ListMessages(r)
  PROVE  Turns(r)
<1>1. Served(r) /\ request[r].ask.op = "listMessages" /\ request[r].at # "free"
  BY DEF ListMessages, Serves, Served
<1>2. CASE \E code : Refuse(r, code)
  BY <1>1, <1>2, Refuses DEF Turns
<1>3. CASE CanRead(r) /\ GoTo(r, "list")
  <2>1. GoesTo(r, "list")
    BY <1>3 DEF GoesTo
  <2>2. Continues(r) /\ ScopeKept(request'[r])
    BY <1>1, <1>3, <2>1, GoesOn
  <2> QED
    BY <1>1, <2>2 DEF Turns
<1>4. CASE request[r].at = "list" /\
           \E m : AnswerMail(r, {x \in Visible(r) : MailboxOf[x] = m})
  <2>1. PICK m : AnswerMail(r, {x \in Visible(r) : MailboxOf[x] = m})
    BY <1>4
  <2>2. request[r].policy # NoPolicy => CanRead(r)
    BY <1>1, <1>4, FoundAllowed
  <2>3. \A x \in {x \in Visible(r) : MailboxOf[x] = m} :
          MailboxOf[x] \in Scope(r) /\ x \notin request[r].gone
    BY <1>1, Seen
  <2> QED
    BY <1>1, <2>1, <2>2, <2>3, TellsOfMail DEF Turns
<1> QED
  BY <1>2, <1>3, <1>4 DEF ListMessages

LEMMA GetsMessage ==
  ASSUME RequestInv, NEW r \in Requests, GetMessage(r)
  PROVE  Turns(r)
<1>1. Served(r) /\ request[r].ask.op = "getMessage" /\ request[r].at # "free"
  BY DEF GetMessage, Serves, Served
<1>2. CASE \E code : Refuse(r, code)
  BY <1>1, <1>2, Refuses DEF Turns
<1>3. CASE CanRead(r) /\ \E stage \in {"body", "none"} : GoTo(r, stage)
  BY <1>1, <1>3, GoesOn DEF Turns, GoesTo
<1>4. CASE request[r].at = "body" /\ \E x \in Visible(r) : AnswerMail(r, {x})
  <2>1. request[r].policy # NoPolicy => CanRead(r)
    BY <1>1, <1>4, FoundAllowed
  <2> QED
    BY <1>1, <1>4, <2>1, Seen, TellsOfMail DEF Turns
<1> QED
  BY <1>2, <1>3, <1>4 DEF GetMessage

LEMMA ReadsArchive ==
  ASSUME RequestInv, NEW r \in Requests, ReadMessageSource(r) \/ ReadAttachment(r)
  PROVE  Turns(r)
<1> DEFINE x == request[r].ask.mail
<1>1. Served(r) /\ request[r].ask.op \in {"readMessageSource", "readAttachment"}
      /\ request[r].at # "free"
  BY DEF ReadMessageSource, ReadAttachment, Serves, Served
<1>2. CASE \E code : Refuse(r, code)
  BY <1>1, <1>2, Refuses DEF Turns
<1>3. CASE CanRead(r) /\ x \in Visible(r) /\ GoTo(r, "archive")
  <2>1. MailboxOf[x] \in Scope(r) /\ x \notin request[r].gone
    BY <1>1, <1>3, Seen
  <2> QED
    BY <1>1, <1>3, <2>1, GoesOn DEF Turns, GoesTo
<1>4. CASE x \in Visible(r) /\ Answer(r, "no_archived_source", {MailboxOf[x]}, {})
  <2>1. {MailboxOf[x]} \subseteq Scope(r)
    BY <1>4 DEF Visible
  <2> QED
    BY <1>1, <1>4, <2>1, Names DEF Turns
<1>5. CASE request[r].at = "archive" /\ AnswerMail(r, {x})
  <2>1. request[r].policy # NoPolicy =>
          CanRead(r) /\ MailboxOf[x] \in Scope(r) /\ x \notin request[r].gone
    BY <1>1, <1>5, FoundAllowed
  <2> QED
    BY <1>1, <1>5, <2>1, TellsOfMail DEF Turns
<1> QED
  BY <1>2, <1>3, <1>4, <1>5 DEF ReadMessageSource, ReadAttachment, ReadArchive

LEMMA ReadsKeep == \A r \in Requests : IInv /\ Reads(r) => IInv'
<1> SUFFICES ASSUME NEW r \in Requests, IInv, Reads(r) PROVE IInv'
  OBVIOUS
<1>1. RequestInv
  BY DEF IInv
<1>2. Turns(r)
  <2>1. CASE ReadJobs(r)
    <3>1. Served(r) /\ request[r].ask.op \in {"getJob", "listJobs"} /\ request[r].at # "free"
          /\ \E code : Refuse(r, code)
      BY <2>1 DEF ReadJobs, GetOutboundJob, ListOutboundJobs, At, Serves, Served
    <3> QED
      BY <1>1, <3>1, Refuses DEF Turns
  <2> QED
    BY <1>1, <2>1, Lists, ReadsThread, ListsMessages, GetsMessage, ReadsArchive DEF Reads
<1>3. Keeps
  BY DEF Reads, ListMailboxes, ListSendingIdentities, ListThreads, ReadThread, ListMessages,
         GetMessage, ReadMessageSource, ReadAttachment, ReadJobs
<1> QED
  BY <1>1, <1>2, <1>3, MailStays, Turned DEF Keeps, storeVars

LEMMA MailboxChanged ==
  ASSUME RequestInv, NEW r \in Requests, ChangeMailbox(r)
  PROVE  Turns(r)
<1> DEFINE m == request[r].ask.box
<1>1. Served(r) /\ request[r].at # "free"
      /\ request[r].ask.op \in {"createAddress", "resume", "pause", "retireAddress"}
  BY DEF ChangeMailbox, Serves, Served
<1>2. request[r].policy # NoPolicy => {m} \subseteq Scope(r)
  BY <1>1, FoundAllowed, AskedFor DEF Tools, BoxOps
<1>3. Answer(r, "ok", {m}, {}) \/ \E code : Refuse(r, code)
  BY DEF ChangeMailbox
<1> QED
  BY <1>1, <1>2, <1>3, Refuses, Names DEF Turns

LEMMA ForwardingSet ==
  ASSUME IInv, NEW r \in Requests, SetForwarding(r)
  PROVE  IInv'
<1> DEFINE m == request[r].ask.box
           to == request[r].ask.to
<1>1. /\ Served(r) /\ request[r].at # "free" /\ request[r].ask.op = "setForwarding"
      /\ UNCHANGED <<accessVars, jobs, cli>> /\ RequestInv /\ DeletedStays
  BY MailStays DEF SetForwarding, Serves, Served, IInv
<1>2. registered \subseteq registered'
  BY DEF SetForwarding, Ensure
<1>3. CASE UNCHANGED forward /\ \E code : Refuse(r, code)
  BY <1>1, <1>2, <1>3, Refuses, ForwardStays, Handled DEF IInv
<1>4. CASE UNCHANGED forward /\ \E stage \in {"list", "create"} : GoTo(r, stage)
  BY <1>1, <1>2, <1>4, GoesOn, ForwardStays, Handled DEF GoesTo, IInv
<1>5. CASE UNCHANGED forward /\ to \in registered' /\ GoTo(r, "set")
  <2>1. GoesTo(r, "set")
    BY <1>5 DEF GoesTo
  <2>2. Continues(r) /\ ScopeKept(request'[r]) /\ request'[r].at = "set"
    BY <1>1, <2>1, GoesOn
  <2>3. ForwardInv'
    BY <1>2, <1>5, <2>2, ForwardStays DEF IInv
  <2> QED
    BY <1>1, <2>2, <2>3, Handled
<1>6. CASE /\ request[r].at = "set" /\ forward' = [forward EXCEPT ![m] = to]
           /\ Answer(r, "ok", {m}, {}) /\ UNCHANGED registered
  <2>1. request[r].policy # NoPolicy => {m} \subseteq Scope(r)
    BY <1>1, FoundAllowed, AskedFor DEF Tools
  <2>2. Continues(r) /\ ScopeKept(request'[r]) /\ request'[r].at = "answered"
    BY <1>1, <1>6, <2>1, Names
  <2>3. to \in registered
    BY <1>1, <1>6 DEF IInv, ForwardInv
  <2>4. ForwardInv'
    BY <1>6, <2>2, <2>3 DEF IInv, ForwardInv, ForwardsToRegistered, Continues
  <2> QED
    BY <1>1, <2>2, <2>4, Handled
<1> QED
  BY <1>3, <1>4, <1>5, <1>6 DEF SetForwarding, Ensure, Registered

LEMMA ForwardingRemoved ==
  ASSUME IInv, NEW r \in Requests, RemoveForwarding(r)
  PROVE  IInv'
<1> DEFINE m == request[r].ask.box
<1>1. /\ Served(r) /\ request[r].at # "free" /\ request[r].ask.op = "removeForwarding"
      /\ UNCHANGED <<accessVars, jobs, cli>> /\ UNCHANGED registered /\ RequestInv
      /\ DeletedStays
  BY MailStays DEF RemoveForwarding, Serves, Served, IInv
<1>2. CASE UNCHANGED forward /\ \E code : Refuse(r, code)
  BY <1>1, <1>2, Refuses, ForwardStays, Handled DEF IInv
<1>3. CASE forward' = [forward EXCEPT ![m] = NoDestination] /\ Answer(r, "ok", {m}, {})
  <2>1. request[r].policy # NoPolicy => {m} \subseteq Scope(r)
    BY <1>1, FoundAllowed, AskedFor DEF Tools, BoxOps
  <2>2. Continues(r) /\ ScopeKept(request'[r]) /\ request'[r].at = "answered"
    BY <1>1, <1>3, <2>1, Names
  <2>3. ForwardInv'
    BY <1>1, <1>3, <2>2 DEF IInv, ForwardInv, ForwardsToRegistered, Continues
  <2> QED
    BY <1>1, <2>2, <2>3, Handled
<1> QED
  BY <1>2, <1>3 DEF RemoveForwarding

LEMMA WritesKeep == \A r \in Requests : IInv /\ Writes(r) => IInv'
<1> SUFFICES ASSUME NEW r \in Requests, IInv, Writes(r) PROVE IInv'
  OBVIOUS
<1>1. RequestInv
  BY DEF IInv
<1>2. CASE SetThreadReadState(r) \/ SoftDeleteVisibleThread(r) \/ ChangeMailbox(r)
  <2>1. Turns(r)
    BY <1>1, <1>2, MarksThread, DeletesThread, MailboxChanged
  <2>2. UNCHANGED <<accessVars, jobs, cli>> /\ UNCHANGED <<forward, registered>>
    BY <1>2 DEF SetThreadReadState, SoftDeleteVisibleThread, ChangeMailbox
  <2>3. DeletedStays
    <3>1. UNCHANGED mail \/ \E x \in Visible(r) : \E to : mail' = [mail EXCEPT ![x] = to]
      BY <1>2 DEF SetThreadReadState, SoftDeleteVisibleThread, ChangeMailbox
    <3> QED
      BY <1>1, <3>1, MailStays DEF RequestInv, GoneInv, DeletedStays, Deleted, Visible
  <2> QED
    BY <2>1, <2>2, <2>3, Turned
<1> QED
  BY <1>2, ForwardingSet, ForwardingRemoved DEF Writes

-----------------------------------------------------------------------------
(* Submissions.                                                            *)

\* A step of a submission that is not accepted, or not yet.
SubmitTurns(r) ==
  /\ Continues(r) /\ ScopeKept(request'[r])
  /\ request'[r].at = "answered" => request'[r].answer.code # "ok"

LEMMA CheckedTurns ==
  ASSUME RequestInv, NEW r \in Requests, Served(r), request[r].ask.op = "submitMessage",
         NEW to, Checked(r, to)
  PROVE  SubmitTurns(r)
<1> DEFINE flaw == request[r].ask.content.flaw
<1>1. request[r].at # "free" /\ flaw \in Flaws \cup {"none"}
  BY FoundAllowed, AskedFor, OperationsAssumption
<1>2. CASE flaw # "none"
  BY <1>1, <1>2, Refuses DEF Checked, Flaws, SubmitTurns
<1>3. CASE flaw = "none"
  <2>1. GoesTo(r, "submit")
    BY <1>3 DEF Checked, GoesTo
  <2> QED
    BY <2>1, GoesOn DEF SubmitTurns
<1> QED
  BY <1>2, <1>3

LEMMA SubmissionPrepared ==
  ASSUME RequestInv, NEW r \in Requests,
         PrepareOutbound(r) \/ UnusableSender(r) \/ ReadReplyParent(r)
           \/ ResolveSubmitRecipients(r)
  PROVE  SubmitTurns(r)
<1> DEFINE content == request[r].ask.content
<1>1. Served(r) /\ request[r].at # "free" /\ request[r].ask.op = "submitMessage"
  BY DEF PrepareOutbound, UnusableSender, ReadReplyParent, ResolveSubmitRecipients, At,
         Serves, Served
<1>2. CASE \E code : Refuse(r, code) /\ code # "ok"
  BY <1>1, <1>2, Refuses DEF SubmitTurns
<1>3. CASE \E to : Checked(r, to)
  BY <1>1, <1>3, CheckedTurns
<1>4. CASE \E stage \in {"parent", "recipients"} : GoTo(r, stage)
  BY <1>1, <1>4, GoesOn DEF GoesTo, SubmitTurns
<1>5. CASE GoTo(r, "unusable") /\ content.from \in Scope(r)
  <2>1. GoesTo(r, "unusable")
    BY <1>5 DEF GoesTo
  <2> QED
    BY <1>1, <1>5, <2>1, GoesOn DEF SubmitTurns
<1>6. CASE /\ request[r].at = "unusable"
           /\ \E code : Answer(r, code, {content.from}, {}) /\ code # "ok"
  <2>1. request[r].policy # NoPolicy => {content.from} \subseteq Scope(r)
    BY <1>1, <1>6, FoundAllowed
  <2> QED
    BY <1>1, <1>6, <2>1, Names DEF SubmitTurns
<1>7. CASE PrepareOutbound(r)
  <2>1. CASE Answer(r, "mailbox_forbidden", {content.from}, {})
    <3>1. MayTell(request[r], "mailbox_forbidden", {content.from}, {})
      BY DEF MayTell
    <3> QED
      BY <1>1, <2>1, <3>1, Replies DEF SubmitTurns
  <2> QED
    BY <1>2, <1>3, <1>4, <1>5, <1>7, <2>1 DEF PrepareOutbound
<1>8. CASE UnusableSender(r)
  BY <1>2, <1>6, <1>8 DEF UnusableSender, At
<1>9. CASE ReadReplyParent(r)
  BY <1>2, <1>4, <1>9 DEF ReadReplyParent
<1>10. CASE ResolveSubmitRecipients(r)
  BY <1>2, <1>3, <1>10 DEF ResolveSubmitRecipients
<1> QED
  BY <1>7, <1>8, <1>9, <1>10

\* A submission is answered: accepted with its job, or not, or nobody knows.
LEMMA SubmissionAnswered ==
  ASSUME IInv, NEW r \in Requests, request[r].at # "free",
         Continues(r), ScopeKept(request'[r]), request'[r].at = "answered",
         AccessInv', JobsInv', UNCHANGED <<forward, registered>>, UNCHANGED cli,
         UNCHANGED mail,
         jobs \subseteq jobs', jobs' \subseteq jobs \cup {NewJob(r)},
         jobs' # jobs => Served(r) /\ request[r].ask.op = "submitMessage"
                         /\ request'[r].answer.code = "ok",
         request[r].ask.op = "submitMessage" /\ request'[r].answer.code = "ok" =>
           \E j \in jobs' : /\ j.by = request[r].by /\ j.id = request[r].ask.id
                            /\ j.content = request[r].ask.content,
         request[r].at = "answered" => request'[r].answer.code = "failed"
  PROVE  IInv'
<1>1. RequestInv'
  BY GoneStays, MailStays DEF IInv, RequestInv, Continues
<1>2. ForwardInv'
  BY ForwardStays DEF IInv
<1>3. CliWaits'
  BY DEF IInv, CliInv, CliWaits, Continues
<1>4. InFlight'
  BY DEF IInv, CliInv, InFlight, Continues
<1>5. Unsent' => Unsent /\ ~ (cli.at = "wait" /\ cli.on = r /\ request'[r].answer.code = "ok")
  BY DEF Unsent, Continues, IInv, CliInv, CliWaits
<1>6. ASSUME Unsent', cli.id \notin cli.missed PROVE CliJobs' \subseteq cli.known
  <2>1. CliJobs \subseteq cli.known
    BY <1>5, <1>6 DEF IInv, CliInv
  <2>2. ASSUME jobs' # jobs, NewJob(r) \in CliJobs' PROVE FALSE
    <3>1. request[r].by = Operator /\ request[r].ask.id = cli.id
      BY <2>2 DEF CliJobs, JobsOf, NewJob
    <3>2. (cli.at = "wait" /\ cli.on = r) \/ request[r].ask.id \in cli.missed
      BY <2>2, <3>1 DEF IInv, CliInv, InFlight, Served
    <3> QED
      BY <1>5, <1>6, <2>2, <3>1, <3>2
  <2> QED
    BY <2>1, <2>2 DEF CliJobs, JobsOf
<1>7. AcceptedInv'
  BY DEF IInv, AcceptedInv, Accepted, Continues
<1>8. cli.at = "done" /\ cli.outcome = "ok" => CliJobs' # {}
  <2>1. CliJobs \subseteq CliJobs'
    BY DEF CliJobs, JobsOf
  <2> QED
    BY <2>1 DEF IInv, CliInv
<1>9. CliInv'
  BY <1>3, <1>4, <1>6, <1>8 DEF IInv, CliInv
<1> QED
  BY <1>1, <1>2, <1>7, <1>9 DEF IInv

LEMMA SubmissionStored ==
  ASSUME IInv, NEW r \in Requests, SubmitOutbound(r)
  PROVE  IInv'
<1>1. /\ Served(r) /\ request[r].at \notin {"free", "answered"} /\ RequestInv /\ JobsInv
      /\ request[r].ask.op = "submitMessage" /\ UNCHANGED accessVars
      /\ UNCHANGED <<forward, registered>> /\ UNCHANGED cli /\ UNCHANGED mail
  BY DEF SubmitOutbound, At, Serves, Served, IInv
<1>2. NewJob(r) \in Job
  <2>1. request[r].ask \in Ask /\ request[r].by \in Clients \cup {Operator}
    BY <1>1, FoundAllowed DEF RequestInv, WellAsked, Free
  <2>2. request[r].ask.id \in RequestIds /\ request[r].ask.content \in Contents
    BY <1>1, <2>1, AskedFor
  <2>3. Cardinality(jobs) \in Nat
    BY <1>1, FS_CardinalityType DEF JobsInv
  <2> QED
    BY <2>1, <2>2, <2>3 DEF NewJob, SubmissionFingerprint, Job
<1>3. AccessInv'
  BY <1>1 DEF IInv, AccessInv, AccessTypeOK, OneEach, PoliciesAreLive, ScreenKnows, EditKnows,
         IsSaved, Saves, Live, accessVars
<1> DEFINE Stored == \E j \in jobs' : /\ j.by = request[r].by /\ j.id = request[r].ask.id
                                      /\ j.content = request[r].ask.content
<1>4. CASE UNCHANGED jobs /\ \E code : Refuse(r, code) /\ (code = "ok" => Stored)
  <2>1. JobsInv'
    BY <1>1, <1>4 DEF JobsInv, OneRow
  <2>2. PICK code : Refuse(r, code) /\ (code = "ok" => Stored)
    BY <1>4
  <2>3. Continues(r) /\ ScopeKept(request'[r]) /\ request'[r].at = "answered"
        /\ request'[r].answer.code = code
    BY <1>1, <2>2, Refuses
  <2> QED
    BY <1>1, <1>3, <1>4, <2>1, <2>2, <2>3, SubmissionAnswered
<1>5. CASE Existing(r) = {} /\ Answer(r, "ok", {}, {}) /\ jobs' = jobs \cup {NewJob(r)}
  <2>1. \A j \in jobs : ~ (j.by = NewJob(r).by /\ j.id = NewJob(r).id)
    BY <1>5 DEF Existing, NewJob
  <2>2. JobsInv'
    <3>1. jobs' \subseteq Job /\ IsFiniteSet(jobs')
      BY <1>1, <1>2, <1>5, FS_AddElement DEF JobsInv
    <3>2. OneRow'
      BY <1>1, <1>5, <2>1 DEF JobsInv, OneRow
    <3> QED
      BY <3>1, <3>2 DEF JobsInv
  <2>3. Continues(r) /\ ScopeKept(request'[r]) /\ request'[r].at = "answered"
        /\ request'[r].answer.code = "ok"
    BY <1>1, <1>5, Names
  <2>4. Stored
    <3>1. /\ NewJob(r) \in jobs' /\ NewJob(r).by = request[r].by
          /\ NewJob(r).id = request[r].ask.id /\ NewJob(r).content = request[r].ask.content
      BY <1>5 DEF NewJob, SubmissionFingerprint
    <3> QED
      BY <3>1
  <2> QED
    BY <1>1, <1>3, <1>5, <2>2, <2>3, <2>4, SubmissionAnswered
<1>6. ASSUME UNCHANGED jobs, NEW j \in Existing(r), j.content = SubmissionFingerprint(r)
      PROVE  Stored
  BY <1>6 DEF Existing, SubmissionFingerprint
<1> QED
  BY <1>4, <1>5, <1>6 DEF SubmitOutbound

LEMMA SubmitsKeep == \A r \in Requests : IInv /\ Submits(r) => IInv'
<1> SUFFICES ASSUME NEW r \in Requests, IInv, Submits(r), ~ SubmitOutbound(r) PROVE IInv'
  BY SubmissionStored
<1>1. RequestInv /\ SubmitTurns(r)
  BY SubmissionPrepared DEF IInv, Submits
<1>2. /\ Served(r) /\ Keeps /\ request[r].ask.op = "submitMessage"
  BY DEF Submits, PrepareOutbound, UnusableSender, ReadReplyParent, ResolveSubmitRecipients,
         At, Serves, Served
<1>3. ForwardInv'
  BY <1>1, <1>2, ForwardStays DEF IInv, Keeps, storeVars, SubmitTurns
<1> QED
  BY <1>1, <1>2, <1>3, MailStays, Handled DEF SubmitTurns, Keeps, storeVars

LEMMA FailuresKeep == \A r \in Requests : IInv /\ RequestFails(r) => IInv'
<1> SUFFICES ASSUME NEW r \in Requests, IInv, RequestFails(r) PROVE IInv'
  OBVIOUS
<1>1. /\ request[r].at # "free" /\ Refuse(r, "failed") /\ deaths' = deaths + 1
      /\ deaths < MaxDeaths /\ RequestInv /\ JobsInv /\ AccessInv
      /\ UNCHANGED <<consent, mcpPolicy, tokens, screen, edit, granted, chosenFor>>
      /\ UNCHANGED <<forward, registered>> /\ UNCHANGED cli /\ UNCHANGED jobs
      /\ UNCHANGED mail
  BY DEF RequestFails, storeVars, IInv
<1>2. Continues(r) /\ ScopeKept(request'[r]) /\ request'[r].at = "answered"
      /\ request'[r].answer.code = "failed"
  BY <1>1, Refuses
<1>3. AccessInv'
  <2>1. deaths' \in 0 .. MaxDeaths /\ tokens \in [Clients -> SUBSET Tokens]
    BY <1>1, AccessAssumption DEF AccessInv, AccessTypeOK
  <2> QED
    BY <1>1, <2>1, TokensChange
<1>4. JobsInv'
  BY <1>1 DEF JobsInv, OneRow
<1> QED
  BY <1>1, <1>2, <1>3, <1>4, SubmissionAnswered

-----------------------------------------------------------------------------
(* Admission, and the command line client.                                 *)

\* A request that comes or goes, when no client waits for it.
\* What it is then: it has no answer to a submission, and knows what is gone.
Fresh(q) ==
  /\ WellAsked(q) /\ ScopeKept(q) /\ q.at # "set"
  /\ q.at = "answered" => q.ask.op # "submitMessage"
  /\ q.at # "free" => q.gone \subseteq Deleted

LEMMA Comes ==
  ASSUME RequestInv, ForwardInv, AcceptedInv, NEW r \in Requests,
         request' = [request EXCEPT ![r] = request'[r]], Fresh(request'[r]),
         UNCHANGED <<forward, registered>>, UNCHANGED mail, UNCHANGED jobs
  PROVE  /\ RequestInv' /\ ForwardInv' /\ AcceptedInv'
         /\ \A q \in Requests \ {r} : request'[q] = request[q]
<1>1. /\ request' = [q \in Requests |-> request'[q]]
      /\ \A q \in Requests \ {r} : request'[q] = request[q]
  BY DEF RequestInv
<1>2. GoneInv'
  BY <1>1 DEF RequestInv, GoneInv, Deleted, Fresh
<1>3. RequestInv'
  BY <1>1, <1>2 DEF RequestInv, Fresh
<1>4. ForwardInv'
  BY <1>1 DEF ForwardInv, ForwardsToRegistered, Fresh
<1>5. AcceptedInv'
  BY <1>1 DEF AcceptedInv, Accepted, Fresh
<1> QED
  BY <1>1, <1>3, <1>4, <1>5

LEMMA AdmittedWell ==
  ASSUME NEW r \in Requests, request = [q \in Requests |-> request[q]],
         NEW by \in Clients \cup {Operator}, NEW policy, NEW ask \in Ask,
         policy = OperatorPolicy \/ ask.op \in Tools, Admit(r, by, policy, ask)
  PROVE  /\ request' = [request EXCEPT ![r] = request'[r]]
         /\ request'[r].at = "begin" /\ request'[r].by = by /\ request'[r].ask = ask
         /\ Fresh(request'[r])
<1> DEFINE known == IF ask.op = "submitMessage" THEN jobs ELSE {}
           made == [at |-> "begin", by |-> by, policy |-> policy, ask |-> ask,
                    answer |-> NoAnswer, to |-> {}, known |-> known, gone |-> Deleted]
<1>1. request' = [request EXCEPT ![r] = made]
  BY DEF Admit, Deleted
<1>2. request'[r] = made
  BY <1>1
<1>3. /\ DOMAIN made = {"at", "by", "policy", "ask", "answer", "to", "known", "gone"}
      /\ made.at = "begin" /\ made.by = by /\ made.policy = policy /\ made.ask = ask
      /\ made.gone = Deleted
  OBVIOUS
<1> HIDE DEF made
<1>4. WellAsked(made)
  BY <1>3 DEF WellAsked, Fields
<1>5. ScopeKept(made)
  BY <1>3 DEF ScopeKept
<1>6. Fresh(made)
  BY <1>3, <1>4, <1>5 DEF Fresh
<1> QED
  BY <1>1, <1>2, <1>3, <1>6

\* Whoever is admitted, or has got an answer, is not the client's concern.
LEMMA CliStays ==
  ASSUME CliInv, NEW r \in Requests, UNCHANGED cli, UNCHANGED jobs,
         cli.at = "wait" => cli.on # r,
         \A q \in Requests \ {r} : request'[q] = request[q],
         request'[r].at \notin {"free", "answered"} =>
           ~ (request'[r].by = Operator /\ request'[r].ask.op = "submitMessage")
  PROVE  CliInv'
<1>1. CliWaits'
  BY DEF CliInv, CliWaits
<1>2. InFlight'
  BY DEF CliInv, InFlight
<1>3. Unsent' => Unsent
  BY DEF CliInv, CliWaits, Unsent
<1> QED
  BY <1>1, <1>2, <1>3 DEF CliInv, CliJobs, JobsOf

LEMMA AccessStays == AccessInv /\ UNCHANGED accessVars => AccessInv'
BY DEF AccessInv, AccessTypeOK, OneEach, PoliciesAreLive, ScreenKnows, EditKnows,
       IsSaved, Saves, Live, accessVars

ComesOrGoes(r) ==
  /\ request' = [request EXCEPT ![r] = request'[r]] /\ Fresh(request'[r])
  /\ request'[r].at \notin {"free", "answered"} =>
       ~ (request'[r].by = Operator /\ request'[r].ask.op = "submitMessage")

LEMMA AdmissionKeeps == \A r \in Requests : IInv /\ Admission(r) => IInv'
<1> SUFFICES ASSUME NEW r \in Requests, IInv, Admission(r) PROVE IInv'
  OBVIOUS
<1>1. /\ RequestInv /\ ForwardInv /\ AcceptedInv /\ CliInv
      /\ UNCHANGED cli /\ UNCHANGED jobs /\ UNCHANGED mail
      /\ UNCHANGED <<forward, registered>> /\ request = [q \in Requests |-> request[q]]
  BY DEF IInv, RequestInv, Admission, OperatorAsks, ClientAsks, ClientIsTurnedAway,
         Delivered, Keeps, storeVars
<1>2. AccessInv' /\ JobsInv'
  <2>1. UNCHANGED accessVars
    BY DEF Admission, OperatorAsks, ClientAsks, ClientIsTurnedAway, Delivered, Keeps
  <2> QED
    BY <1>1, <2>1, AccessStays DEF IInv, JobsInv, OneRow
<1>3. ComesOrGoes(r)
  <2>1. ASSUME NEW ask \in Ask, OperatorAsks(r, ask) PROVE ComesOrGoes(r)
    <3>1. Admit(r, Operator, OperatorPolicy, ask) /\ ask.op # "submitMessage"
      BY <2>1 DEF OperatorAsks, CliCommands, ConsolePages, MailboxPages, MailPages, ComposePages
    <3> QED
      BY <1>1, <3>1, AdmittedWell DEF ComesOrGoes
  <2>2. ASSUME NEW c \in Clients, NEW ask \in Ask, ClientAsks(r, c, ask) PROVE ComesOrGoes(r)
    <3>1. Admit(r, c, McpGrant(c).policy, ask) /\ ask.op \in Tools /\ c # Operator
      BY <2>2, OperationsAssumption DEF ClientAsks
    <3> QED
      BY <1>1, <3>1, AdmittedWell DEF ComesOrGoes
  <2>3. ASSUME NEW c \in Clients, ClientIsTurnedAway(r, c) PROVE ComesOrGoes(r)
    <3>1. PICK code : request' = [request EXCEPT ![r] =
                        [at |-> "answered", by |-> c, policy |-> NoPolicy, ask |-> [op |-> "any"],
                         answer |-> [NoAnswer EXCEPT !.code = code], known |-> {},
                         gone |-> {}]]
      BY <2>3 DEF ClientIsTurnedAway
    <3> DEFINE made == [at |-> "answered", by |-> c, policy |-> NoPolicy, ask |-> [op |-> "any"],
                        answer |-> [NoAnswer EXCEPT !.code = code], known |-> {},
                        gone |-> {}]
    <3>2. request'[r] = made /\ request' = [request EXCEPT ![r] = made]
      BY <1>1, <3>1
    <3>3. /\ DOMAIN made = {"at", "by", "policy", "ask", "answer", "known", "gone"}
          /\ made.at = "answered" /\ made.by = c /\ made.policy = NoPolicy
          /\ made.ask = [op |-> "any"] /\ made.gone = {}
      OBVIOUS
    <3> HIDE DEF made
    <3> QED
      BY <3>2, <3>3 DEF ComesOrGoes, Fresh, WellAsked, ScopeKept, Fields
  <2>4. ASSUME Delivered(r) PROVE ComesOrGoes(r)
    <3>1. request' = [request EXCEPT ![r] = Free] /\ request'[r] = Free
      BY <1>1, <2>4 DEF Delivered
    <3>2. Free.at = "free"
      BY DEF Free
    <3> QED
      BY <3>1, <3>2 DEF ComesOrGoes, Fresh, WellAsked, ScopeKept
  <2> QED
    BY <2>1, <2>2, <2>3, <2>4 DEF Admission
<1>4. cli.at = "wait" => cli.on # r
  BY <1>1 DEF Admission, OperatorAsks, ClientAsks, ClientIsTurnedAway, Delivered, Free,
              CliInv, CliWaits
<1>5. RequestInv' /\ ForwardInv' /\ AcceptedInv' /\ \A q \in Requests \ {r} : request'[q] = request[q]
  BY <1>1, <1>3, Comes DEF ComesOrGoes
<1>6. CliInv'
  BY <1>1, <1>3, <1>4, <1>5, CliStays DEF ComesOrGoes
<1> QED
  BY <1>2, <1>5, <1>6 DEF IInv

LEMMA CliRunsWell ==
  ASSUME IInv, NEW id \in RequestIds, NEW content \in Contents, CliRuns(id, content)
  PROVE  IInv'
<1>1. /\ cli.at \in {"idle", "done"} /\ cli'.at = "send" /\ cli'.id = id
      /\ cli'.content = content /\ cli'.missed = cli.missed /\ cli'.known = jobs
      /\ UNCHANGED accessVars /\ UNCHANGED <<jobs, forward, registered, request, mail>>
  BY DEF CliRuns, storeVars
<1>2. CliInv'
  BY <1>1 DEF IInv, CliInv, CliWaits, InFlight, Unsent, CliJobs, JobsOf
<1>3. AccessInv'
  BY <1>1, AccessStays DEF IInv
<1>4. RequestInv' /\ JobsInv' /\ AcceptedInv' /\ ForwardInv'
  BY <1>1 DEF IInv, RequestInv, GoneInv, Deleted, JobsInv, OneRow, AcceptedInv, Accepted,
                  ForwardInv, ForwardsToRegistered
<1> QED
  BY <1>2, <1>3, <1>4 DEF IInv

LEMMA CliSendsWell ==
  ASSUME IInv, NEW r \in Requests, CliSends(r)
  PROVE  IInv'
<1> DEFINE ask == [op |-> "submitMessage", id |-> cli.id, content |-> cli.content]
<1>1. /\ RequestInv /\ ForwardInv /\ CliInv /\ JobsInv
      /\ cli.at = "send" /\ request[r] = Free /\ Admit(r, Operator, OperatorPolicy, ask)
      /\ UNCHANGED accessVars /\ UNCHANGED jobs /\ UNCHANGED <<forward, registered>>
      /\ UNCHANGED mail /\ AcceptedInv
      /\ cli'.at = "wait" /\ cli'.on = r /\ cli'.id = cli.id /\ cli'.content = cli.content
      /\ cli'.missed = cli.missed /\ cli'.known = cli.known
  BY DEF CliSends, storeVars, IInv
<1>2. ask \in Ask
  BY <1>1 DEF CliInv, Ask
<1>3. /\ request' = [request EXCEPT ![r] = request'[r]]
      /\ request'[r].at = "begin" /\ request'[r].by = Operator /\ request'[r].ask = ask
      /\ Fresh(request'[r])
  BY <1>1, <1>2, AdmittedWell DEF RequestInv
<1>4. RequestInv' /\ ForwardInv' /\ AcceptedInv' /\ \A q \in Requests \ {r} : request'[q] = request[q]
  BY <1>1, <1>3, Comes
<1>5. CliWaits'
  BY <1>1, <1>3 DEF CliWaits, Free
<1>6. InFlight'
  BY <1>1, <1>4 DEF CliInv, InFlight
<1>7. cli.id \notin cli.missed => CliJobs \subseteq cli.known
  BY <1>1 DEF CliInv, Unsent
<1>8. CliInv'
  BY <1>1, <1>5, <1>6, <1>7 DEF CliInv, CliJobs, JobsOf
<1>9. AccessInv' /\ JobsInv'
  BY <1>1, AccessStays DEF IInv, JobsInv, OneRow
<1> QED
  BY <1>4, <1>8, <1>9 DEF IInv

LEMMA CliHearsWell ==
  ASSUME IInv, CliHears
  PROVE  IInv'
<1> DEFINE r == cli.on
<1>1. /\ RequestInv /\ ForwardInv /\ CliInv /\ JobsInv
      /\ cli.at = "wait" /\ r \in Requests /\ request[r].at = "answered"
      /\ request' = [request EXCEPT ![r] = Free]
      /\ UNCHANGED accessVars /\ UNCHANGED jobs /\ UNCHANGED <<forward, registered>>
      /\ UNCHANGED mail /\ AcceptedInv
      /\ cli'.at = "done" /\ cli'.id = cli.id /\ cli'.content = cli.content
      /\ cli'.missed = cli.missed /\ cli'.known = cli.known
      /\ cli'.outcome = Outcome(request[r].answer)
  BY DEF CliHears, Ends, storeVars, IInv, CliInv, CliWaits
<1>2. request'[r] = Free /\ request' = [request EXCEPT ![r] = request'[r]] /\ Free.at = "free"
  BY <1>1 DEF RequestInv, Free
<1>3. RequestInv' /\ ForwardInv' /\ AcceptedInv' /\ \A q \in Requests \ {r} : request'[q] = request[q]
  <2> HIDE DEF r
  <2>1. Fresh(request'[r])
    BY <1>2 DEF Fresh, WellAsked, ScopeKept
  <2> QED
    BY <1>1, <1>2, <2>1, Comes
<1>4. InFlight'
  BY <1>1, <1>2, <1>3 DEF CliInv, InFlight
<1>5. cli'.outcome = "ok" => CliJobs # {}
  <2> HIDE DEF r
  <2>1. /\ request[r].by = Operator
        /\ request[r].ask = [op |-> "submitMessage", id |-> cli.id, content |-> cli.content]
    BY <1>1 DEF CliInv, CliWaits, r
  <2>2. Outcome(request[r].answer) = "ok" => request[r].answer.code = "ok"
    BY DEF Outcome
  <2> QED
    BY <1>1, <2>1, <2>2 DEF AcceptedInv, Accepted, CliJobs, JobsOf
<1>6. cli'.outcome = "refused" /\ cli.id \notin cli.missed => CliJobs \subseteq cli.known
  BY <1>1 DEF Outcome, CliInv, Unsent
<1>7. CliInv'
  BY <1>1, <1>4, <1>5, <1>6 DEF CliInv, CliJobs, JobsOf, CliWaits, Unsent
<1>8. AccessInv' /\ JobsInv'
  BY <1>1, AccessStays DEF IInv, JobsInv, OneRow
<1> QED
  BY <1>3, <1>7, <1>8 DEF IInv

LEMMA CliLosesWell ==
  ASSUME IInv, CliLosesConnection
  PROVE  IInv'
<1>1. /\ CliInv /\ cli.at \in {"send", "wait"}
      /\ UNCHANGED accessVars /\ UNCHANGED <<jobs, forward, registered, request, mail>>
      /\ cli'.at \in {"send", "done"} /\ cli'.id = cli.id /\ cli'.content = cli.content
      /\ cli'.missed = cli.missed \cup {cli.id} /\ cli'.known = cli.known
      /\ cli'.at = "done" => cli'.outcome = "unknown"
  BY DEF CliLosesConnection, storeVars, IInv
<1>2. InFlight'
  <2>1. cli.at = "wait" => request[cli.on].ask.id = cli.id
    BY <1>1 DEF CliInv, CliWaits
  <2> QED
    BY <1>1, <2>1 DEF CliInv, InFlight
<1>3. CliInv'
  BY <1>1, <1>2 DEF CliInv, CliWaits, Unsent, CliJobs, JobsOf
<1>4. AccessInv'
  BY <1>1, AccessStays DEF IInv
<1>5. RequestInv' /\ JobsInv' /\ AcceptedInv' /\ ForwardInv'
  BY <1>1 DEF IInv, RequestInv, GoneInv, Deleted, JobsInv, OneRow, AcceptedInv, Accepted,
                  ForwardInv, ForwardsToRegistered
<1> QED
  BY <1>3, <1>4, <1>5 DEF IInv

LEMMA NothingAsked ==
  ASSUME IInv, AccessInv', UNCHANGED <<jobs, forward, registered, request, cli>>, DeletedStays
  PROVE  IInv'
<1>1. RequestInv' /\ JobsInv' /\ AcceptedInv' /\ ForwardInv'
  <2>1. GoneInv'
    BY DEF IInv, RequestInv, GoneInv, DeletedStays
  <2> QED
    BY <2>1 DEF IInv, RequestInv, JobsInv, OneRow, AcceptedInv, Accepted, ForwardInv,
                ForwardsToRegistered
<1>2. CliInv'
  BY DEF IInv, CliInv, CliWaits, InFlight, Unsent, CliJobs, JobsOf
<1> QED
  BY <1>1, <1>2 DEF IInv

-----------------------------------------------------------------------------
LEMMA Start == Init => IInv
<1> SUFFICES ASSUME Init PROVE IInv
  OBVIOUS
<1>1. AccessInv
  BY AccessStart DEF Init
<1>2. RequestInv
  BY DEF Init, RequestInv, GoneInv, WellAsked, ScopeKept, Free
<1>3. JobsInv /\ AcceptedInv /\ ForwardInv
  BY FS_EmptySet DEF Init, JobsInv, OneRow, AcceptedInv, Accepted, ForwardInv,
                     ForwardsToRegistered, Free
<1>4. CliInv
  BY DEF Init, CliInv, CliWaits, InFlight, Unsent, Quiet, Free
<1> QED
  BY <1>1, <1>2, <1>3, <1>4 DEF IInv

LEMMA Step == IInv /\ [Next]_vars => IInv'
<1> SUFFICES ASSUME IInv, [Next]_vars PROVE IInv'
  OBVIOUS
<1>1. CASE UNCHANGED vars
  BY <1>1, AccessStays, MailStays, NothingAsked DEF vars, storeVars, IInv
<1>2. CASE AccessNext /\ UNCHANGED <<storeVars, request, cli, lost>>
  BY <1>2, AccessSteps, MailStays, NothingAsked DEF storeVars, IInv
<1>3. CASE \E r \in Requests :
             Admission(r) \/ Reads(r) \/ Writes(r) \/ Submits(r) \/ RequestFails(r)
  BY <1>3, AdmissionKeeps, ReadsKeep, WritesKeep, SubmitsKeep, FailuresKeep
<1>4. CASE CliStep
  BY <1>4, CliRunsWell, CliSendsWell, CliHearsWell, CliLosesWell DEF CliStep
<1>5. CASE \E x \in Messages : Arrives(x)
  <2>1. DeletedStays
    BY <1>5 DEF Arrives, IInv, RequestInv, GoneInv, DeletedStays, Deleted
  <2> QED
    BY <1>5, <2>1, AccessStays, NothingAsked DEF Arrives, IInv
<1> QED
  BY <1>1, <1>2, <1>3, <1>4, <1>5 DEF Next

LEMMA Always == Spec => []IInv
BY Start, Step, PTL DEF Spec

-----------------------------------------------------------------------------
(* What the operator and the clients can rely on.                          *)

\* Consents, policies, tokens, screens and edits keep their types.
THEOREM AccessTypeCorrect == Spec => []AccessTypeOK
<1>1. IInv => AccessTypeOK
  BY DEF IInv, AccessInv
<1> QED
  BY <1>1, Always, PTL

\* A client's policy was chosen for its consent (PolicyIsForItsConsent), however
\* many screens, saves and revocations overlap; but for a screen whose consent
\* was revoked before it looked it up, which saves for the one granted since.
THEOREM PoliciesAreForTheirConsents == Spec => []PolicyIsForItsConsent
<1>1. IInv => PolicyIsForItsConsent
  BY DEF IInv, AccessInv, AccessTypeOK, PoliciesAreLive, PolicyIsForItsConsent, McpGrant
<1> QED
  BY <1>1, Always, PTL

\* A consent without a policy is still being saved, or its Worker died
\* (NoConsentLeftWithoutPolicy).
THEOREM ConsentsAreSaved == Spec => []NoConsentLeftWithoutPolicy
<1>1. ASSUME AccessInv, NEW c \in Clients, McpGrant(c).kind = "no_policy"
      PROVE  \E s \in Screens :
               /\ screen[s] # Idle /\ screen[s].client = c
               /\ \/ screen[s].at = "find"
                  \/ screen[s].at \in {"row", "write"} /\ screen[s].id = consent[c]
                  \/ screen[s].at = "failed" /\ screen[s].on = consent[c]
  <2>1. consent[c] # NoConsent /\ mcpPolicy[consent[c]] = NoPolicy
    BY <1>1 DEF McpGrant
  <2> QED
    BY <1>1, <2>1 DEF AccessInv, IsSaved, Saves
<1>2. IInv => NoConsentLeftWithoutPolicy
  BY <1>1 DEF IInv, NoConsentLeftWithoutPolicy
<1> QED
  BY <1>2, Always, PTL

\* Answers keep to the policy the request was admitted with, but for the refusal
\* to send from another mailbox, and tell of no mail that was gone when the
\* request came in (AnswersStayInScope).
THEOREM AnswersKeepToTheirScope == Spec => []AnswersStayInScope
<1>1. IInv => AnswersStayInScope
  BY DEF IInv, RequestInv, ScopeKept, MayTell, AnswersStayInScope
<1> QED
  BY <1>1, Always, PTL

\* A request id stands for one row of its requester, and what is accepted has
\* its own (OneJobPerRequestId).
THEOREM RequestIdsHaveOneJob == Spec => []OneJobPerRequestId
<1>1. IInv => OneJobPerRequestId
  BY DEF IInv, JobsInv, OneRow, AcceptedInv, Accepted, JobsOf, OneJobPerRequestId
<1> QED
  BY <1>1, Always, PTL

\* The command line client reports what became of its submission
\* (CliTellsTheTruth), whichever connections and answers were lost.
THEOREM ReportsAreTrue == Spec => []CliTellsTheTruth
<1>1. IInv => CliTellsTheTruth
  BY DEF IInv, CliInv, Unsent, CliJobs, CliTellsTheTruth
<1> QED
  BY <1>1, Always, PTL

\* Mailboxes forward to what is registered (ForwardsToRegistered).
THEOREM ForwardingIsRegistered == Spec => []ForwardsToRegistered
<1>1. IInv => ForwardsToRegistered
  BY DEF IInv, ForwardInv
<1> QED
  BY <1>1, Always, PTL
=============================================================================
