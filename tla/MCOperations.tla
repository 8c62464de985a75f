---------------------------- MODULE MCOperations ----------------------------
(***************************************************************************)
(* Operations for TLC: two mailboxes, two messages, one MCP client.        *)
(***************************************************************************)
EXTENDS Operations

CONSTANTS work, home, friend, stranger, client, operator, s1, s2, e1, r1, r2,
          question, reply

MCMailboxes == {work, home}
MCMailboxOf == [x \in {question, reply} |-> IF x = question THEN work ELSE home]

Form(box, canRead, sendMode, recipients) ==
  [mailboxes |-> {box}, canRead |-> canRead, sendMode |-> sendMode,
   recipients |-> recipients, preapproved |-> {}]

\* Three policies, one of them for the mailbox that cannot send, and a list with
\* an entry that is no address.
MCForms ==
  {Form(work, TRUE, "allow", {friend}), Form(work, FALSE, "deny", {friend}),
   Form(home, FALSE, "allow", {friend}), Form(work, TRUE, "allow", {friend, Invalid})}

MCParticipants ==
  [x \in {question, reply} |->
     IF x = question
     THEN [from |-> {friend}, replyTo |-> {}, to |-> {work}, cc |-> {home, stranger}]
     ELSE [from |-> {home}, replyTo |-> {}, to |-> {work}, cc |-> {}]]

Compose(from, to, flaw) ==
  [from |-> from, parent |-> NoMessage, mode |-> "none", to |-> to, flaw |-> flaw]
Reply(mode) ==
  [from |-> work, parent |-> question, mode |-> mode, to |-> {}, flaw |-> "none"]

MCContents ==
  {Compose(work, {friend}, "none"), Compose(home, {stranger}, "html_unsafe"),
   Reply("reply"), Reply("reply-all")}

-----------------------------------------------------------------------------
(* Bounds the instance: the parts that do not touch each other's state are  *)
(* explored one beside the other, each with the others at rest.             *)

ScreensRest ==
  /\ \A s \in Screens : screen[s] = Idle
  /\ \A e \in Edits : edit[e] = Idle
AccessRests ==
  /\ ScreensRest /\ granted <= 1
  /\ \A c \in Clients :
       tokens[c] = CASE granted = 0 -> {}
                     [] granted > 0 /\ consent[c] = NoConsent -> {"access"}
                     [] OTHER -> {"access", "refresh"}

MailboxesRest ==
  \A m \in Mailboxes : mailbox[m] = "active" /\ forward[m] = NoDestination
MailRests == \A x \in Messages : mail[x] = "none"
SubmissionsRest == jobs = {} /\ cli = Quiet
AllFree == \A r \in Requests : request[r] = Free
Asks(r, ops) == request[r] = Free \/ request[r].ask.op \in ops

\* Consents and clients, with the answers to clients that are turned away.
AccessRegion ==
  /\ MailboxesRest /\ MailRests /\ registered = {} /\ SubmissionsRest
  /\ Asks(r1, {"any"}) /\ request[r2] = Free
  /\ \/ ScreensRest /\ granted <= 1
     \/ /\ AllFree /\ \A c \in Clients : tokens[c] \subseteq {"code"}
        /\ Cardinality({s \in Screens : screen[s] # Idle})
             + Cardinality({e \in Edits : edit[e] # Idle}) < 3

\* Reading, beside a deletion or a mailbox that is paused or retired.
ReadRegion ==
  /\ AccessRests /\ SubmissionsRest /\ registered = {} /\ deaths = 0
  /\ mailbox[home] = "active"
  /\ mail[reply] \in {"none", "unread"} /\ (mail[reply] = "none" => AllFree)
  /\ request[r1] = Free \/
       request[r1].ask.op \in (Tools \ {"submitMessage"}) \cup {"listJobs", "readAttachment"}
  /\ Asks(r2, {"softDeleteThread", "pause", "retireAddress"})

\* Forwarding and mailboxes.
ForwardRegion ==
  /\ AccessRests /\ granted = 0 /\ MailRests /\ SubmissionsRest
  /\ mailbox[home] = "active"
  /\ Asks(r1, {"setForwarding", "removeForwarding"})
  /\ Asks(r2, {"setForwarding", "retireAddress", "createAddress", "resume"})

\* Submitting, by a client, or by the operator's command line client.
SubmitRegion ==
  /\ AccessRests /\ registered = {} /\ mailbox[home] = "active"
  /\ mail[reply] = "none" /\ mail[question] \in {"none", "unread"}
  /\ Asks(r1, {"submitMessage"}) /\ Asks(r2, {"submitMessage", "pause", "getJob"})
  /\ cli # Quiet => granted = 0 /\ cli.content.mode # "reply-all"
  /\ request[r2] # Free /\ request[r2].ask.op = "submitMessage" =>
       request[r2].ask.content.mode # "reply-all"

Region == AccessRegion \/ ReadRegion \/ ForwardRegion \/ SubmitRegion
=============================================================================
