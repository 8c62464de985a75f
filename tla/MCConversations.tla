--------------------------- MODULE MCConversations ---------------------------
(***************************************************************************)
(* Conversations for TLC.  Messages 1 to 4 show how messages link; they    *)
(* are in a mailbox that no reader of the instance sees.  Messages 5 to 7  *)
(* show how readers see and change them.                                   *)
(***************************************************************************)
EXTENDS Conversations, TLC

CONSTANTS a, b, c

Plain(own, parent) == [own |-> own, inReplyTo |-> parent, references |-> {}]
Joins == [own |-> NoId, inReplyTo |-> NoId, references |-> {a, b}]
Mailbox(m) == IF m <= 4 THEN "unread" ELSE IF m = 6 THEN "other" ELSE "mine"
MCMailboxOf == [m \in Messages |-> Mailbox(m)]
MCHeadersOf ==
  [m \in Messages \ Outgoing |->
     CASE m = 1  -> {Plain(a, b), Plain(b, NoId), Joins}
       [] m = 2  -> {Plain(a, NoId), Plain(b, a), Plain(NoId, b), Joins}
       [] m = 3  -> {Plain(NoId, a), Plain(NoId, b)}
       [] m = 5  -> {Plain(NoId, NoId), Plain(NoId, c)}
       [] m = 6  -> {Plain(NoId, c)}]
MCReceivedAt == [m \in Messages \ Outgoing |-> IF m = 5 THEN 1 .. MaxTime ELSE {1}]

All == {"mine", "other"}
AllScopes == {{"mine"}, All}
Over(list) == [list |-> list, scope |-> All, handle |-> 5, direction |-> "any",
               mailbox |-> "any", since |-> 1, unread |-> FALSE]
MCQueries ==
  {Over("threads"), [Over("threads") EXCEPT !.scope = {"mine"}], Over("thread"),
   [Over("messages") EXCEPT !.unread = TRUE, !.mailbox = "mine"],
   [Over("messages") EXCEPT !.direction = "inbound", !.since = 2]}

Linking == Stored(message) \subseteq 1 .. 4 /\ walk.at = "off" /\ \A m \in Stored(message) : message[m].own # c
\* Only the arriving messages are marked read, and only while nobody walks,
\* or while the unread are walked.
Reading ==
  LET stored == Stored(message) IN
  /\ stored \subseteq 5 .. 7
  /\ 7 \in stored => message[7].own = NoId /\ message[7].job # "in_flight"
  /\ \A m \in stored : message[m].read => 7 \notin stored
  /\ walk.at # "off" =>
       IF walk.query.list = "messages" THEN 7 \notin stored
       ELSE \A m \in stored : ~message[m].read
LinkingOrReading == Linking \/ Reading
=============================================================================
