---------------------------- MODULE Conversations ----------------------------
(***************************************************************************)
(* The messages of the account and the conversations they form.            *)
(*                                                                         *)
(* A message mentions Message-IDs: its own, the one it replies to and      *)
(* those it references.  Messages that share one belong to one thread; the *)
(* thread's id is the id of its oldest message.  Threads only merge: when  *)
(* a message arrives, and when an outbound message that has been sent      *)
(* learns its own Message-ID.                                              *)
(*                                                                         *)
(* Readers see the live messages of their scope, a set of mailboxes, and   *)
(* walk every list page by page, while mail keeps arriving and others read *)
(* and delete.  Message ids are numbers: the lists only compare them.      *)
(***************************************************************************)
EXTENDS Naturals, FiniteSets

CONSTANTS
  Messages,   \* ids of messages
  Ids,        \* Message-IDs
  NoId,
  Mailboxes,
  Scopes,     \* sets of mailboxes that a reader may see; "all" is Mailboxes
  Outgoing,   \* the messages that are submitted; the others arrive
  MailboxOf,  \* the mailbox of a message
  HeadersOf,  \* the Message-IDs that an arriving message may mention
  ReceivedAt, \* the instants at which it may have been received
  Queries,    \* lists that are walked
  PageLimit,  \* QUERY_PAGE_MAX
  MaxTime,    \* bound: instants at which mail arrives
  NoMessage,
  NoCursor

Header == [own : Ids \cup {NoId}, inReplyTo : Ids \cup {NoId}, references : SUBSET Ids]
Unthreaded == [own |-> NoId, inReplyTo |-> NoId, references |-> {}]
Jobs == {"none", "ready", "in_flight", "settled"}
Message == [thread : Messages, mailbox : Mailboxes, direction : {"inbound", "outbound"},
            own : Ids \cup {NoId}, inReplyTo : Ids \cup {NoId}, references : SUBSET Ids,
            occurred : 1 .. MaxTime, created : 1 .. MaxTime,
            read : BOOLEAN, deleted : BOOLEAN, job : Jobs]

\* One query for each list; the fields that a list does not filter by are unused.
Query == [list : {"messages", "threads", "thread"}, scope : Scopes, handle : Messages,
          direction : {"any", "inbound", "outbound"}, mailbox : Mailboxes \cup {"any"},
          since : 1 .. MaxTime, unread : BOOLEAN]
Cursor == [at : 1 .. MaxTime, id : Messages]

ASSUME ConversationsAssumption ==
  /\ Messages \subseteq Nat /\ IsFiniteSet(Messages)
  /\ NoId \notin Ids /\ "any" \notin Mailboxes
  /\ Scopes \subseteq SUBSET Mailboxes
  /\ Outgoing \subseteq Messages /\ MailboxOf \in [Messages -> Mailboxes]
  /\ HeadersOf \in [Messages \ Outgoing -> SUBSET Header]
  /\ ReceivedAt \in [Messages \ Outgoing -> SUBSET (1 .. MaxTime)]
  /\ Queries \subseteq Query
  /\ PageLimit \in Nat \ {0} /\ MaxTime \in Nat \ {0}
  /\ NoMessage \notin Message /\ NoCursor \notin Cursor

VARIABLES
  message, \* the table of messages
  walk,    \* a reader's walk over the pages of a list
  by       \* history: the scope of the reader who made the last change, or {}

vars == <<message, walk, by>>

-----------------------------------------------------------------------------
(* What the statements select. *)

Stored(store) == {m \in Messages : store[m] # NoMessage}
Live(store) == {m \in Stored(store) : ~store[m].deleted}

\* `WHERE deleted_at IS NULL AND mailbox_id IN scope`.
InScope(store, scope) == {m \in Live(store) : store[m].mailbox \in scope}

OfThread(store, thread) == {m \in Stored(store) : store[m].thread = thread}

Mentions(header) == ({header.own, header.inReplyTo} \cup header.references) \ {NoId}

\* ORDER BY occurred_at, id, and ORDER BY created_at, id.
Earlier(store, m, n) ==
  \/ store[m].occurred < store[n].occurred
  \/ store[m].occurred = store[n].occurred /\ m < n
Older(store, m, n) ==
  \/ store[m].created < store[n].created
  \/ store[m].created = store[n].created /\ m < n

Last(store, S) == CHOOSE m \in S : \A n \in S \ {m} : Earlier(store, n, m)
Oldest(store, S) == CHOOSE m \in S : \A n \in S \ {m} : Older(store, m, n)

-----------------------------------------------------------------------------
(* Linking a message into the threads that share a Message-ID with it.     *)

\* A slip: only the owners of a Message-ID are looked for.
HitsOwners(store, m, id) == {n \in Stored(store) \ {m} : store[n].own = id}

\* The other messages that decide to which thread a Message-ID belongs: its
\* owners, or else those who reply to it, or else those who reference it.
Hits(store, m, id) ==
  LET others == Stored(store) \ {m}
      Owners == {n \in others : store[n].own = id}
      Replies == {n \in others : store[n].inReplyTo = id}
  IN IF Owners # {} THEN Owners
     ELSE IF Replies # {} THEN Replies
     ELSE {n \in others : id \in store[n].references}

\* LINKED_THREADS takes one hit for each Message-ID, and does not say which.
LinkedThreads(store, m) ==
  LET known == {id \in Mentions(store[m]) : Hits(store, m, id) # {}}
      Picks == {pick \in [known -> Stored(store)] : \A id \in known : pick[id] \in Hits(store, m, id)}
  IN {{store[m].thread} \cup {store[pick[id]].thread : id \in known} : pick \in Picks}

\* Slips the properties are there to catch; the specification uses none.
\* The rows whose id is a linked thread are moved, not those of that thread.
MergeFounders(store, linked) ==
  LET survivor == Oldest(store, linked \cap Stored(store))
  IN [n \in Messages |-> IF n \in Stored(store) \cap linked
                         THEN [store[n] EXCEPT !.thread = survivor] ELSE store[n]]

\* The newest thread takes the others in.
MergeIntoNewest(store, linked) ==
  LET founders == linked \cap Stored(store)
      survivor == CHOOSE m \in founders : \A n \in founders \ {m} : Older(store, n, m)
  IN [n \in Messages |-> IF n \in Stored(store) /\ store[n].thread \in linked
                         THEN [store[n] EXCEPT !.thread = survivor] ELSE store[n]]

\* The linked threads become the one whose founder is the oldest.
Merge(store, linked) ==
  LET survivor == Oldest(store, linked \cap Stored(store))
  IN [n \in Messages |-> IF n \in Stored(store) /\ store[n].thread \in linked
                         THEN [store[n] EXCEPT !.thread = survivor] ELSE store[n]]

\* linkThread.
LinkThread(store, m) == {Merge(store, linked) : linked \in LinkedThreads(store, m)}

-----------------------------------------------------------------------------
(* Reading. *)

\* Any message id, also a deleted one's, stands for the thread it is in now,
\* if the reader can see something of it.
ResolveThread(store, handle, scope) ==
  LET threads == {store[m].thread : m \in Stored(store) \cap {handle}}
  IN {t \in threads : \E m \in InScope(store, scope) : store[m].thread = t}

ThreadMessages(store, q) ==
  UNION {OfThread(store, t) \cap InScope(store, q.scope) : t \in ResolveThread(store, q.handle, q.scope)}

ListMessages(store, q) ==
  {m \in InScope(store, q.scope) :
     /\ q.direction \in {"any", store[m].direction}
     /\ q.mailbox \in {"any", store[m].mailbox}
     /\ store[m].occurred >= q.since
     /\ q.unread => store[m].direction = "inbound" /\ ~store[m].read}

\* A slip: the newest message is looked for outside the scope too.
HeadsOfAll(store, q) ==
  {m \in InScope(store, q.scope) :
     ~\E n \in OfThread(store, store[m].thread) \cap Live(store) : Earlier(store, m, n)}

\* A thread is listed where its newest message that the reader sees is.
ThreadHeads(store, q) ==
  {m \in InScope(store, q.scope) :
     ~\E n \in OfThread(store, store[m].thread) \cap InScope(store, q.scope) : Earlier(store, m, n)}

Rows(store, q) ==
  CASE q.list = "messages" -> ListMessages(store, q)
    [] q.list = "threads"  -> ThreadHeads(store, q)
    [] q.list = "thread"   -> ThreadMessages(store, q)

\* A thread is read oldest first, the other lists newest first.
Precedes(store, q, m, n) ==
  IF q.list = "thread" THEN Earlier(store, m, n) ELSE Earlier(store, n, m)

\* A slip: positions are compared by their instants only.
BeyondInstant(store, q, cursor) ==
  IF cursor = NoCursor THEN Rows(store, q)
  ELSE {m \in Rows(store, q) : IF q.list = "thread" THEN store[m].occurred > cursor.at
                                ELSE store[m].occurred < cursor.at}

\* `occurred_at < at OR (occurred_at = at AND id < cursor)`, or > for a thread.
Beyond(store, q, cursor) ==
  IF cursor = NoCursor THEN Rows(store, q)
  ELSE {m \in Rows(store, q) :
          LET t == store[m].occurred IN
          IF q.list = "thread" THEN t > cursor.at \/ (t = cursor.at /\ m > cursor.id)
          ELSE t < cursor.at \/ (t = cursor.at /\ m < cursor.id)}

\* The first `limit` rows beyond the cursor.
Page(store, q, cursor, limit) ==
  LET rows == Beyond(store, q, cursor)
  IN {m \in rows : Cardinality({n \in rows : Precedes(store, q, n, m)}) < limit}

\* A slip: the cursor forgets the id that breaks ties.
NextInstant(store, q, cursor) ==
  LET page == Page(store, q, cursor, PageLimit)
      last == CHOOSE m \in page : \A n \in page \ {m} : Precedes(store, q, n, m)
  IN IF page = Page(store, q, cursor, PageLimit + 1) THEN NoCursor ELSE [at |-> store[last].occurred]

\* One row more than the page tells whether another page follows.
NextCursor(store, q, cursor) ==
  LET page == Page(store, q, cursor, PageLimit)
      last == CHOOSE m \in page : \A n \in page \ {m} : Precedes(store, q, n, m)
  IN IF page = Page(store, q, cursor, PageLimit + 1) THEN NoCursor
     ELSE [at |-> store[last].occurred, id |-> last]

\* loadThreadStats, for one thread of a page.
MessageCount(store, thread, scope) == Cardinality(OfThread(store, thread) \cap InScope(store, scope))
UnreadCount(store, thread, scope) ==
  Cardinality({m \in OfThread(store, thread) \cap InScope(store, scope) :
                 store[m].direction = "inbound" /\ ~store[m].read})

\* The message a summary names as its parent.
Parent(store, m) ==
  LET owners == {n \in Stored(store) \ {m} : store[n].own # NoId /\ store[n].own = store[m].inReplyTo}
  IN IF owners = {} THEN {} ELSE {Oldest(store, owners)}

\* The messages that each of the four reads of one message finds.
GetMessageSummary(store, scope) == {m \in Messages : store[m] # NoMessage /\ ~store[m].deleted /\ store[m].mailbox \in scope}
GetMessageBody(store, scope) == {m \in Stored(store) : ~store[m].deleted /\ store[m].mailbox \in scope}
GetStoredAttachment(store, scope) == {m \in Stored(store) : ~store[m].deleted /\ store[m].mailbox \in scope}
GetMessageSource(store, scope) == {m \in Stored(store) : ~store[m].deleted /\ store[m].mailbox \in scope}

-----------------------------------------------------------------------------
(* Writing. *)

NoWalk == [at |-> "off"]
Walk(q) == [at |-> "on", query |-> q, cursor |-> NoCursor, seen |-> {}, steady |-> Rows(message, q)]

\* A change of the table; rows that leave the walked list are not steady.
Writes(new, scope) ==
  /\ message' = new
  /\ by' = scope
  /\ walk' = IF walk.at = "off" THEN walk
             ELSE [walk EXCEPT !.steady = @ \cap Rows(new, walk.query)]

\* Messages are written in the order of the clock.
Instants == {t \in 1 .. MaxTime : \A m \in Stored(message) : message[m].created <= t}

\* writeThreadedMail: the message starts a thread of its own and is then linked.
WriteThreadedMail(m, direction, header, occurred, now) ==
  LET row == [thread |-> m, mailbox |-> MailboxOf[m], direction |-> direction,
              own |-> header.own, inReplyTo |-> header.inReplyTo, references |-> header.references,
              occurred |-> occurred, created |-> now, read |-> FALSE, deleted |-> FALSE,
              job |-> IF direction = "outbound" THEN "ready" ELSE "none"]
  IN /\ m \notin Stored(message)
     /\ \E new \in LinkThread([message EXCEPT ![m] = row], m) : Writes(new, {})

\* acceptInbound: indexed now, received any time before.
AcceptInbound(m) ==
  /\ m \notin Outgoing
  /\ \E header \in HeadersOf[m], now \in Instants : \E received \in ReceivedAt[m] \cap 1 .. now :
       WriteThreadedMail(m, "inbound", header, received, now)

\* submitOutbound of a new message.
Compose(m) ==
  /\ m \in Outgoing
  /\ \E now \in Instants :
       WriteThreadedMail(m, "outbound", Unthreaded, now, now)

\* A reply's headers.  The oldest references are dropped until the rest fit;
\* a parent that did not know its own Message-ID when it was read gives none.
ReplyHeaders(parent) ==
  LET row == message[parent]
      threaded == {[own |-> NoId, inReplyTo |-> row.own, references |-> kept \cup {row.own}] :
                     kept \in SUBSET row.references}
  IN IF row.own = NoId THEN {Unthreaded}
     ELSE IF row.direction = "outbound" THEN threaded \cup {Unthreaded} ELSE threaded

\* submitOutbound of a reply; the parent was read before, and may be deleted by now.
Reply(m) ==
  /\ m \in Outgoing
  /\ \E now \in Instants, parent \in Stored(message) : \E header \in ReplyHeaders(parent) :
       WriteThreadedMail(m, "outbound", header, now, now)

JobMoves(m, from, to) ==
  /\ m \in Stored(message) /\ message[m].job = from
  /\ Writes([message EXCEPT ![m].job = to], {})

\* claimJob.
Claim(m) == JobMoves(m, "ready", "in_flight")

\* completeAttempt: not accepted, or accepted without a Message-ID.
Settle(m) == JobMoves(m, "in_flight", "settled")

\* completeAttempt: accepted.  Only now the message has a Message-ID, which
\* others may have mentioned already.
Accepted(m, id) ==
  /\ m \in Stored(message) /\ message[m].job = "in_flight" /\ message[m].own = NoId
  /\ \E new \in LinkThread([message EXCEPT ![m].job = "settled", ![m].own = id], m) :
        Writes(new, {})

\* markThreadRead.
MarkThreadRead(handle, isRead, scope) ==
  LET thread == UNION {OfThread(message, t) \cap InScope(message, scope) :
                         t \in ResolveThread(message, handle, scope)}
      marked == {m \in thread : message[m].direction = "inbound"}
  IN /\ thread # {}
     /\ Writes([m \in Messages |-> IF m \in marked THEN [message[m] EXCEPT !.read = isRead]
                                   ELSE message[m]], scope)

\* Slips: deletion takes the whole thread, or leaves its undispatched mail ready.
WholeThread(store, handle, scope) ==
  UNION {OfThread(store, t) \cap Live(store) : t \in ResolveThread(store, handle, scope)}
KeepsReady(job) == job

\* What softDeleteThread takes.
Deletes(store, handle, scope) ==
  UNION {OfThread(store, t) \cap InScope(store, scope) : t \in ResolveThread(store, handle, scope)}

\* rejectUndispatched.
Rejected(job) == IF job = "ready" THEN "settled" ELSE job

\* softDeleteThread: mail that was not dispatched is rejected with it.
SoftDeleteThread(handle, scope) ==
  LET taken == Deletes(message, handle, scope)
  IN /\ taken # {}
     /\ Writes([m \in Messages |->
          IF m \notin taken THEN message[m]
          ELSE [message[m] EXCEPT !.deleted = TRUE,
                                  !.job = Rejected(@)]], scope)

-----------------------------------------------------------------------------
(* A reader's walk. *)

StartWalk(q) == walk.at = "off" /\ walk' = Walk(q) /\ by' = {} /\ UNCHANGED message

\* One request for a page.
NextPage ==
  LET page == Page(message, walk.query, walk.cursor, PageLimit)
      next == NextCursor(message, walk.query, walk.cursor)
  IN /\ walk.at = "on"
     /\ walk' = [walk EXCEPT !.seen = @ \cup page, !.cursor = next,
                             !.at = IF next = NoCursor THEN "done" ELSE "on"]
     /\ by' = {} /\ UNCHANGED message

EndWalk == walk.at = "done" /\ walk' = NoWalk /\ by' = {} /\ UNCHANGED message

Init ==
  /\ message = [m \in Messages |-> NoMessage]
  /\ walk = NoWalk
  /\ by = {}

Next ==
  \/ \E m \in Messages : AcceptInbound(m) \/ Compose(m) \/ Reply(m)
  \/ \E m \in Messages : Claim(m) \/ Settle(m)
  \/ \E m \in Messages, id \in Ids : Accepted(m, id)
  \/ \E handle \in Messages, isRead \in BOOLEAN, scope \in Scopes : MarkThreadRead(handle, isRead, scope)
  \/ \E handle \in Messages, scope \in Scopes : SoftDeleteThread(handle, scope)
  \/ \E q \in Queries : StartWalk(q)
  \/ NextPage \/ EndWalk

Spec == Init /\ [][Next]_vars

-----------------------------------------------------------------------------
(* Properties. *)

\* Every row, and every walk, has the shape of its table or request.
TypeOK ==
  /\ message \in [Messages -> Message \cup {NoMessage}]
  /\ by \subseteq Mailboxes
  /\ walk.at \in {"off", "on", "done"}
  /\ walk.at # "off" =>
       /\ walk.query \in Queries /\ walk.cursor \in Cursor \cup {NoCursor}
       /\ walk.seen \subseteq Messages /\ walk.steady \subseteq Messages

Shares(m, n) == Mentions(message[m]) \cap Mentions(message[n]) # {}
ClosedUnderSharing(S) == \A m \in S, n \in Stored(message) : Shares(m, n) => n \in S

\* In whatever order messages arrive and learn their Message-IDs, two are in
\* one thread exactly if a chain of shared Message-IDs joins them.
ThreadsAreComponents ==
  \A t \in {message[m].thread : m \in Stored(message)} :
     LET thread == OfThread(message, t)
     IN /\ ClosedUnderSharing(thread)
        /\ \A S \in SUBSET thread : t \in S /\ ClosedUnderSharing(S) => S = thread

\* A thread's id is the id of its oldest message: merges agree on it, and
\* every id ever given out for a thread is still a message of it.
FoundedByOldest ==
  \A m \in Stored(message) : message[m].thread = Oldest(message, OfThread(message, message[m].thread))

\* Messages that were together stay together: a handle that a client keeps
\* never loses the conversation it stood for.
NeverSplit ==
  \A m, n \in Stored(message) :
     message[m].thread = message[n].thread => (message[m].thread = message[n].thread)'
ThreadsNeverSplit == [][NeverSplit]_vars

\* A reader's request reads, deletes and rejects nothing outside its scope,
\* and nothing but a reader's request reads or deletes.
OnlyInScope ==
  \A m \in Stored(message) : message[m].mailbox \notin by' =>
     /\ message'[m].read = message[m].read
     /\ message'[m].deleted = message[m].deleted
     /\ by' # {} => message'[m].job = message[m].job
ScopeIsRespected == [][OnlyInScope]_vars

\* A walk over the pages of any list shows every row that was in the list all
\* along, whatever arrived, merged, was read or deleted between two pages.
WalksAreComplete == walk.at = "done" => walk.steady \subseteq walk.seen

\* What a deletion took will not be sent any more, unless it was already
\* handed to the provider.
DeletedIsNotReady == \A m \in Stored(message) : message[m].deleted => message[m].job # "ready"

\* The thread list, the pages of its threads, the counts it shows, the plain
\* list and the reads of one message agree on what a reader sees.  (A walk changes
\* none of it, so they are compared while nobody walks.)
ListsAgree == walk.at = "off" =>
  \A scope \in Scopes :
     LET q == [list |-> "messages", scope |-> scope, handle |-> 0, direction |-> "any",
               mailbox |-> "any", since |-> 1, unread |-> FALSE]
         heads == ThreadHeads(message, q)
         Below(h) == ThreadMessages(message, [q EXCEPT !.handle = h])
     IN /\ UNION {Below(h) : h \in heads} = ListMessages(message, q)
        /\ \A h, k \in heads : h # k => Below(h) \cap Below(k) = {}
        /\ \A h \in heads :
             LET thread == message[h].thread
             IN /\ MessageCount(message, thread, scope) = Cardinality(Below(h))
                /\ UnreadCount(message, thread, scope) =
                     Cardinality(Below(h) \cap ListMessages(message, [q EXCEPT !.unread = TRUE]))
        /\ \A found \in {GetMessageSummary(message, scope), GetMessageBody(message, scope),
                         GetMessageSource(message, scope), GetStoredAttachment(message, scope)} :
             found = ListMessages(message, q)
        /\ \A m \in ListMessages(message, q) : \A n \in Parent(message, m) :
             message[n].thread = message[m].thread
=============================================================================
