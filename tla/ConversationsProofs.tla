------------------------- MODULE ConversationsProofs -------------------------
(***************************************************************************)
(* Theorems about Conversations, for any messages, Message-IDs, mailboxes, *)
(* scopes and lists, and for pages of any length.                          *)
(***************************************************************************)
EXTENDS Conversations, FiniteSetTheorems, TLAPS

-----------------------------------------------------------------------------
(* Orders.                                                                 *)

Orders(R, S) ==
  /\ \A x \in S : <<x, x>> \notin R
  /\ \A x, y \in S : x = y \/ <<x, y>> \in R \/ <<y, x>> \in R
  /\ \A x, y, z \in S : <<x, y>> \in R /\ <<y, z>> \in R => <<x, z>> \in R

\* What comes before x in S.
Before(R, S, x) == {y \in S : <<y, x>> \in R}

\* What comes before an element of a finite set is finite.
LEMMA BeforeIsFinite ==
  ASSUME NEW R, NEW S, IsFiniteSet(S), NEW x
  PROVE  IsFiniteSet(Before(R, S, x)) /\ Cardinality(Before(R, S, x)) \in Nat
BY FS_Subset, FS_CardinalityType DEF Before

\* What comes earlier has less before it.
LEMMA EarlierHasLess ==
  ASSUME NEW R, NEW S, Orders(R, S), NEW x \in S, NEW y \in S, <<x, y>> \in R
  PROVE  Before(R, S, x) \subseteq Before(R, S, y) /\ Before(R, S, x) # Before(R, S, y)
BY DEF Orders, Before

\* A finite set that is not empty has a first element.
LEMMA FirstExists ==
  ASSUME NEW R, NEW S, IsFiniteSet(S), S # {}, Orders(R, S)
  PROVE  \E x \in S : \A y \in S \ {x} : <<x, y>> \in R
<1> DEFINE Befores == {Before(R, S, x) : x \in S}
           Inside == StrictSubsetOrdering(S)
<1>1. Befores \subseteq FiniteSubsetsOf(S) /\ Befores # {}
  <2>1. \A x \in S : Before(R, S, x) \in SUBSET S /\ IsFiniteSet(Before(R, S, x))
    BY BeforeIsFinite DEF Before
  <2> QED
    BY <2>1 DEF FiniteSubsetsOf
<1>2. IsWellFoundedOn(Inside, FiniteSubsetsOf(S))
  BY FS_StrictSubsetOrderingWellFounded
<1>3. PICK B \in Befores : \A C \in Befores : ~(<<C, B>> \in Inside)
  <2> HIDE DEF Befores, Inside
  <2> QED
    BY <1>1, <1>2, WFMin
<1>4. PICK x \in S : B = Before(R, S, x)
  BY <1>3
<1>5. ASSUME NEW y \in S \ {x}  PROVE <<x, y>> \in R
  <2>1. <<x, y>> \in R \/ <<y, x>> \in R
    BY DEF Orders
  <2>2. ~(<<y, x>> \in R)
    <3>1. SUFFICES ASSUME <<y, x>> \in R  PROVE FALSE
      OBVIOUS
    <3>2. Before(R, S, y) \subseteq B /\ Before(R, S, y) # B /\ B \subseteq S
      BY <3>1, <1>4, EarlierHasLess DEF Before
    <3>3. Before(R, S, y) \in Befores
      OBVIOUS
    <3>4. <<Before(R, S, y), B>> \in Inside
      BY <3>2 DEF StrictSubsetOrdering
    <3> QED
      BY <3>3, <3>4, <1>3
  <2> QED
    BY <2>1, <2>2
<1> QED
  BY <1>5

\* And a last one.
LEMMA LastExists ==
  ASSUME NEW R, NEW S, IsFiniteSet(S), S # {}, Orders(R, S)
  PROVE  \E x \in S : \A y \in S \ {x} : <<y, x>> \in R
<1> DEFINE Q == {p \in S \X S : <<p[2], p[1]>> \in R}
<1>1. Orders(Q, S)
  BY DEF Orders
<1>2. PICK x \in S : \A y \in S \ {x} : <<x, y>> \in Q
  <2> HIDE DEF Q
  <2> QED
    BY <1>1, FirstExists
<1> QED
  BY <1>2

\* The first k elements.
FirstOf(R, S, k) == {m \in S : Cardinality(Before(R, S, m)) < k}

\* The first k elements of a finite set come before the others.
LEMMA FirstComeFirst ==
  ASSUME NEW R, NEW S, IsFiniteSet(S), Orders(R, S), NEW k \in Nat,
         NEW m \in FirstOf(R, S, k), NEW n \in S \ FirstOf(R, S, k)
  PROVE  <<m, n>> \in R
<1>1. m \in S /\ n \in S /\ m # n /\ Cardinality(Before(R, S, m)) < k /\ ~(Cardinality(Before(R, S, n)) < k)
  BY DEF FirstOf
<1>2. SUFFICES ASSUME <<n, m>> \in R  PROVE FALSE
  BY <1>1 DEF Orders
<1>3. Before(R, S, n) \in SUBSET Before(R, S, m)
  BY <1>1, <1>2, EarlierHasLess
<1>4. Cardinality(Before(R, S, n)) <= Cardinality(Before(R, S, m))
  BY <1>3, BeforeIsFinite, FS_Subset
<1> QED
  BY <1>1, <1>4, BeforeIsFinite

\* If the first k + 1 elements are the first k, there are no others: the row
\* that NextCursor reads beyond its page tells whether rows are left.
LEMMA FirstAreAll ==
  ASSUME NEW R, NEW S, IsFiniteSet(S), Orders(R, S), NEW k \in Nat \ {0},
         FirstOf(R, S, k) = FirstOf(R, S, k + 1)
  PROVE  FirstOf(R, S, k) = S
<1> DEFINE first == FirstOf(R, S, k)
<1>1. first \subseteq S /\ IsFiniteSet(first) /\ IsFiniteSet(S \ first)
  <2>1. first \in SUBSET S /\ S \ first \in SUBSET S
    BY DEF FirstOf
  <2> HIDE DEF first
  <2> QED
    BY <2>1, FS_Subset
<1>2. SUFFICES ASSUME S \ first # {}  PROVE FALSE
  BY <1>1
<1>3. PICK x \in S \ first : \A y \in (S \ first) \ {x} : <<x, y>> \in R
  <2>1. Orders(R, S \ first)
    BY <1>1 DEF Orders
  <2> HIDE DEF first
  <2> QED
    BY <1>1, <1>2, <2>1, FirstExists
\* All that comes before the first of the others is among the first k.
<1>4. Before(R, S, x) \in SUBSET first
  BY <1>3 DEF Orders, Before
\* The first k are no more than k: all but the last come before it.
<1>5. Cardinality(first) \in Nat /\ Cardinality(first) <= k
  <2>1. CASE first = {}
    BY <2>1, FS_EmptySet
  <2>2. CASE first # {}
    <3>1. PICK z \in first : \A y \in first \ {z} : <<y, z>> \in R
      <4>1. Orders(R, first)
        BY <1>1 DEF Orders
      <4> HIDE DEF first
      <4> QED
        BY <1>1, <2>2, <4>1, LastExists
    <3>2. first \ {z} \in SUBSET Before(R, S, z) /\ Cardinality(Before(R, S, z)) < k
      BY <1>1, <3>1 DEF Before, FirstOf
    <3> HIDE DEF first
    <3>3. Cardinality(first \ {z}) = Cardinality(first) - 1 /\ Cardinality(first) \in Nat
      BY <1>1, <3>1, FS_RemoveElement, FS_CardinalityType
    <3>4. Cardinality(first \ {z}) <= Cardinality(Before(R, S, z)) /\ Cardinality(Before(R, S, z)) \in Nat
      BY <3>2, BeforeIsFinite, FS_Subset
    <3> QED
      BY <3>2, <3>3, <3>4
  <2> QED
    BY <2>1, <2>2
<1>6. Cardinality(Before(R, S, x)) \in Nat /\ Cardinality(Before(R, S, x)) <= Cardinality(first)
  <2> HIDE DEF first
  <2> QED
    BY <1>1, <1>4, BeforeIsFinite, FS_Subset
<1>7. x \in FirstOf(R, S, k + 1)
  <2> HIDE DEF first
  <2>1. Cardinality(Before(R, S, x)) < k + 1
    BY <1>5, <1>6
  <2> QED
    BY <1>3, <2>1 DEF FirstOf
<1> QED
  BY <1>3, <1>7

-----------------------------------------------------------------------------
(* The table of messages.                                                  *)

Tables == [Messages -> Message \cup {NoMessage}]

\* A stored message's columns have their types.
LEMMA StoredRows ==
  ASSUME NEW store \in Tables, NEW m \in Stored(store)
  PROVE  /\ m \in Messages /\ m \in Nat /\ store[m] \in Message
         /\ store[m].thread \in Messages
         /\ store[m].own \in Ids \cup {NoId} /\ store[m].inReplyTo \in Ids \cup {NoId}
         /\ store[m].references \subseteq Ids
         /\ store[m].occurred \in 1 .. MaxTime /\ store[m].created \in 1 .. MaxTime
         /\ store[m].occurred \in Nat /\ store[m].created \in Nat
         /\ store[m].direction \in {"inbound", "outbound"}
         /\ store[m].read \in BOOLEAN /\ store[m].deleted \in BOOLEAN
         /\ store[m].mailbox \in Mailboxes /\ store[m].job \in Jobs
<1>1. m \in Messages /\ m \in Nat /\ store[m] \in Message
  BY ConversationsAssumption DEF Stored, Tables
<1>2. /\ store[m].thread \in Messages
      /\ store[m].own \in Ids \cup {NoId} /\ store[m].inReplyTo \in Ids \cup {NoId}
      /\ store[m].references \subseteq Ids
      /\ store[m].occurred \in 1 .. MaxTime /\ store[m].created \in 1 .. MaxTime
      /\ store[m].direction \in {"inbound", "outbound"}
      /\ store[m].read \in BOOLEAN /\ store[m].deleted \in BOOLEAN
      /\ store[m].mailbox \in Mailboxes /\ store[m].job \in Jobs
  BY <1>1 DEF Message
<1>3. store[m].occurred \in Nat /\ store[m].created \in Nat
  BY <1>2, ConversationsAssumption
<1> QED
  BY <1>1, <1>2, <1>3

\* Messages are finitely many.
LEMMA StoredAreFinite ==
  ASSUME NEW store, NEW S, S \subseteq Stored(store)
  PROVE  S \subseteq Messages /\ IsFiniteSet(S)
BY ConversationsAssumption, FS_Subset DEF Stored

\* ORDER BY created_at, id tells any two messages apart.
LEMMA OldestIsFirst ==
  ASSUME NEW store \in Tables, NEW S, S \subseteq Stored(store), S # {}
  PROVE  Oldest(store, S) \in S /\ \A n \in S \ {Oldest(store, S)} : Older(store, Oldest(store, S), n)
<1> DEFINE R == {p \in S \X S : Older(store, p[1], p[2])}
<1>1. \A m \in S : store[m].created \in Nat /\ m \in Nat
  BY StoredRows
<1>2. Orders(R, S)
  BY <1>1 DEF Orders, Older
<1>3. IsFiniteSet(S)
  BY StoredAreFinite
<1>4. PICK x \in S : \A y \in S \ {x} : <<x, y>> \in R
  <2> HIDE DEF R
  <2> QED
    BY <1>2, <1>3, FirstExists
<1>5. \A y \in S \ {x} : Older(store, x, y)
  BY <1>4
<1> QED
  BY <1>5 DEF Oldest

\* The order of creation is transitive
LEMMA OlderIsTransitive ==
  ASSUME NEW store \in Tables, NEW m \in Stored(store), NEW n \in Stored(store), NEW k \in Stored(store),
         Older(store, m, n), Older(store, n, k)
  PROVE  Older(store, m, k)
<1>1. \A x \in {m, n, k} : store[x].created \in Nat /\ x \in Nat
  BY StoredRows
<1> QED
  BY <1>1 DEF Older

\* and strict.
LEMMA OlderIsStrict ==
  ASSUME NEW store \in Tables, NEW m \in Stored(store), NEW n \in Stored(store), Older(store, m, n)
  PROVE  ~Older(store, n, m)
<1>1. \A x \in {m, n} : store[x].created \in Nat /\ x \in Nat
  BY StoredRows
<1> QED
  BY <1>1 DEF Older

-----------------------------------------------------------------------------
(* Threads: what every table satisfies.                                    *)

\* Each thread is founded by one of its messages, which is its oldest.
Founded(store) ==
  \A m \in Stored(store) :
    /\ store[m].thread \in Stored(store)
    /\ store[store[m].thread].thread = store[m].thread
    /\ m = store[m].thread \/ Older(store, store[m].thread, m)

Joined(store, m, n) == Mentions(store[m]) \cap Mentions(store[n]) # {}

\* Messages that share a Message-ID are in one thread, m left aside.
TogetherBut(store, m) ==
  \A n, k \in Stored(store) \ {m} : Joined(store, n, k) => store[n].thread = store[k].thread

Together(store) ==
  \A n, k \in Stored(store) : Joined(store, n, k) => store[n].thread = store[k].thread

\* No part of a thread can be told from the rest by its Message-IDs.
Whole(store, t, S) ==
  S \subseteq OfThread(store, t) /\ S # {}
  /\ (\A x \in S, y \in OfThread(store, t) : Joined(store, x, y) => y \in S)
  => S = OfThread(store, t)
Connected(store) == \A t \in Messages, S \in SUBSET Messages : Whole(store, t, S)

ThreadsInv(store) ==
  store \in Tables /\ Founded(store) /\ Together(store) /\ Connected(store)

\* What moving rows between threads leaves alone.
SameMail(store, new) ==
  /\ new \in Tables /\ Stored(new) = Stored(store)
  /\ \A n \in Stored(store) :
       /\ new[n].mailbox = store[n].mailbox /\ new[n].direction = store[n].direction
       /\ new[n].own = store[n].own /\ new[n].inReplyTo = store[n].inReplyTo
       /\ new[n].references = store[n].references
       /\ new[n].occurred = store[n].occurred /\ new[n].created = store[n].created

\* Sharing and age do not depend on the thread.
LEMMA SameJoins ==
  ASSUME NEW store, NEW new, SameMail(store, new), NEW m \in Stored(store), NEW n \in Stored(store)
  PROVE  /\ Joined(new, m, n) <=> Joined(store, m, n)
         /\ Older(new, m, n) <=> Older(store, m, n)
BY DEF SameMail, Joined, Mentions, Older

\* A change that leaves the threads alone keeps the invariant.
LEMMA SameThreads ==
  ASSUME NEW store, NEW new, ThreadsInv(store), SameMail(store, new),
         \A n \in Stored(store) : new[n].thread = store[n].thread
  PROVE  ThreadsInv(new)
<1>1. \A t \in Messages : OfThread(new, t) = OfThread(store, t) /\ OfThread(store, t) \subseteq Stored(store)
  BY DEF OfThread, SameMail
<1>2. Founded(new)
  BY SameJoins DEF ThreadsInv, Founded, SameMail
<1>3. Together(new)
  BY SameJoins DEF ThreadsInv, Together, SameMail
<1>4. ASSUME NEW t \in Messages, NEW S \in SUBSET Messages  PROVE Whole(new, t, S)
  BY <1>1, SameJoins DEF ThreadsInv, Connected, Whole
<1> QED
  BY <1>2, <1>3, <1>4 DEF ThreadsInv, SameMail, Connected
-----------------------------------------------------------------------------
(* Threads: linking.                                                       *)

\* A Message-ID's hits are other messages that mention it, and some if any do.
LEMMA HitsMention ==
  ASSUME NEW store \in Tables, NEW m \in Stored(store), NEW id \in Mentions(store[m])
  PROVE  /\ Hits(store, m, id) \subseteq Stored(store) \ {m}
         /\ \A p \in Hits(store, m, id) : id \in Mentions(store[p])
         /\ \A n \in Stored(store) \ {m} : id \in Mentions(store[n]) => Hits(store, m, id) # {}
<1>1. id # NoId
  BY DEF Mentions
<1> QED
  BY <1>1 DEF Hits, Mentions

\* The threads that are linked: the message's own, and those of messages that
\* share a Message-ID with it, none of these forgotten.
Links(store, m, linked) ==
  /\ store[m].thread \in linked /\ linked \subseteq Stored(store)
  /\ \A t \in linked :
       /\ store[t].thread = t
       /\ t = store[m].thread
          \/ \E p \in Stored(store) \ {m} : Joined(store, m, p) /\ store[p].thread = t
  /\ \A n \in Stored(store) \ {m} : Joined(store, m, n) => store[n].thread \in linked

\* Whichever hit is picked for a Message-ID, all threads that share one with
\* the message are linked: the hits of an id are in one thread.
LEMMA LinkedThreadsLink ==
  ASSUME NEW store \in Tables, NEW m \in Stored(store), Founded(store), TogetherBut(store, m),
         NEW linked \in LinkedThreads(store, m)
  PROVE  Links(store, m, linked)
<1> DEFINE known == {id \in Mentions(store[m]) : Hits(store, m, id) # {}}
<1>1. PICK pick \in [known -> Stored(store)] :
        /\ \A id \in known : pick[id] \in Hits(store, m, id)
        /\ linked = {store[m].thread} \cup {store[pick[id]].thread : id \in known}
  BY DEF LinkedThreads
<1>2. \A id \in known : /\ pick[id] \in Stored(store) \ {m}
                        /\ id \in Mentions(store[pick[id]]) /\ id \in Mentions(store[m])
  BY <1>1, HitsMention
<1>3. store[m].thread \in linked
  BY <1>1
<1>4. linked \subseteq Stored(store) /\ \A t \in linked : store[t].thread = t
  BY <1>1, <1>2 DEF Founded
<1>5. ASSUME NEW t \in linked, t # store[m].thread
      PROVE  \E p \in Stored(store) \ {m} : Joined(store, m, p) /\ store[p].thread = t
  <2>1. PICK id \in known : t = store[pick[id]].thread
    BY <1>1, <1>5
  <2> QED
    BY <2>1, <1>2 DEF Joined
<1>6. ASSUME NEW n \in Stored(store) \ {m}, Joined(store, m, n)  PROVE store[n].thread \in linked
  <2>1. PICK id \in Mentions(store[m]) : id \in Mentions(store[n])
    BY <1>6 DEF Joined
  <2>2. id \in known
    BY <2>1, HitsMention
  <2>3. Joined(store, n, pick[id]) /\ store[pick[id]].thread \in linked
    BY <2>1, <2>2, <1>1, <1>2 DEF Joined
  <2> QED
    BY <2>2, <2>3, <1>2 DEF TogetherBut
<1> QED
  BY <1>3, <1>4, <1>5, <1>6 DEF Links

\* What a merge does to the table.
Merges(store, linked, new) ==
  LET survivor == Oldest(store, linked)
  IN /\ SameMail(store, new)
     /\ survivor \in linked /\ \A t \in linked \ {survivor} : Older(store, survivor, t)
     /\ \A n \in Stored(store) :
          new[n].thread = IF store[n].thread \in linked THEN survivor ELSE store[n].thread

\* Nor does it change what was read, deleted or sent.
KeepsMarks(store, new) ==
  \A n \in Stored(store) :
    new[n].read = store[n].read /\ new[n].deleted = store[n].deleted /\ new[n].job = store[n].job

\* Merge moves the linked threads to their oldest founder, and nothing else.
LEMMA MergeMerges ==
  ASSUME NEW store \in Tables, NEW linked, linked \subseteq Stored(store), linked # {}
  PROVE  Merges(store, linked, Merge(store, linked)) /\ KeepsMarks(store, Merge(store, linked))
<1> DEFINE survivor == Oldest(store, linked)
           new == Merge(store, linked)
<1>1. survivor \in linked /\ \A t \in linked \ {survivor} : Older(store, survivor, t)
  BY OldestIsFirst
<1>2. survivor \in Messages /\ linked \cap Stored(store) = linked
  BY <1>1 DEF Stored
<1> HIDE DEF survivor
<1>3. new = [n \in Messages |-> IF n \in Stored(store) /\ store[n].thread \in linked
                                THEN [store[n] EXCEPT !.thread = survivor] ELSE store[n]]
  BY <1>2 DEF Merge, survivor
<1> HIDE DEF new
<1>4. ASSUME NEW n \in Stored(store)
      PROVE  /\ new[n] \in Message
             /\ new[n].thread = IF store[n].thread \in linked THEN survivor ELSE store[n].thread
             /\ new[n].mailbox = store[n].mailbox /\ new[n].direction = store[n].direction
             /\ new[n].own = store[n].own /\ new[n].inReplyTo = store[n].inReplyTo
             /\ new[n].references = store[n].references
             /\ new[n].occurred = store[n].occurred /\ new[n].created = store[n].created
             /\ new[n].read = store[n].read /\ new[n].deleted = store[n].deleted
             /\ new[n].job = store[n].job
  <2>1. n \in Messages /\ store[n] \in Message
    BY StoredRows
  <2>2. [store[n] EXCEPT !.thread = survivor] \in Message
    BY <2>1, <1>2 DEF Message
  <2> QED
    BY <2>1, <2>2, <1>3 DEF Message
<1>5. \A n \in Messages \ Stored(store) : new[n] = NoMessage
  BY <1>3 DEF Stored
<1>6. new \in Tables /\ Stored(new) = Stored(store)
  <2>1. DOMAIN new = Messages /\ new = [n \in Messages |-> new[n]]
    BY <1>3
  <2>2. \A n \in Messages : new[n] \in Message \cup {NoMessage}
    BY <1>4, <1>5
  <2>3. new \in Tables
    BY <2>1, <2>2 DEF Tables
  <2>4. \A n \in Messages : new[n] # NoMessage <=> n \in Stored(store)
    BY <1>4, <1>5, ConversationsAssumption
  <2> QED
    BY <2>3, <2>4 DEF Stored
<1>7. KeepsMarks(store, new)
  BY <1>4 DEF KeepsMarks
<1>8. Merges(store, linked, new)
  BY <1>1, <1>4, <1>6 DEF Merges, SameMail, survivor
<1> QED
  BY <1>7, <1>8 DEF new

\* The survivor is the oldest message of the merged thread.
LEMMA MergedAreFounded ==
  ASSUME NEW store \in Tables, NEW m \in Stored(store), NEW linked, NEW new,
         Founded(store), Links(store, m, linked), Merges(store, linked, new)
  PROVE  Founded(new)
<1> DEFINE survivor == Oldest(store, linked)
<1>1. /\ survivor \in linked /\ survivor \in Stored(store) /\ store[survivor].thread = survivor
      /\ \A t \in linked \ {survivor} : Older(store, survivor, t)
      /\ Stored(new) = Stored(store) /\ SameMail(store, new)
      /\ \A n \in Stored(store) :
           new[n].thread = IF store[n].thread \in linked THEN survivor ELSE store[n].thread
  BY DEF Links, Merges, SameMail
<1> HIDE DEF survivor
<1>2. ASSUME NEW n \in Stored(store), store[n].thread \in linked
      PROVE  /\ new[n].thread \in Stored(new) /\ new[new[n].thread].thread = new[n].thread
             /\ n = new[n].thread \/ Older(new, new[n].thread, n)
  <2>1. new[n].thread = survivor /\ new[survivor].thread = survivor
    BY <1>1, <1>2
  <2>2. store[n].thread \in Stored(store) /\ (n = store[n].thread \/ Older(store, store[n].thread, n))
    BY DEF Founded
  <2>3. store[n].thread = survivor \/ Older(store, survivor, store[n].thread)
    BY <1>1, <1>2
  <2>4. n = survivor \/ Older(store, survivor, n)
    BY <2>2, <2>3, <1>1, OlderIsTransitive
  <2> QED
    BY <2>1, <2>4, <1>1, SameJoins
<1>3. ASSUME NEW n \in Stored(store), store[n].thread \notin linked
      PROVE  /\ new[n].thread \in Stored(new) /\ new[new[n].thread].thread = new[n].thread
             /\ n = new[n].thread \/ Older(new, new[n].thread, n)
  BY <1>1, <1>3, SameJoins DEF Founded
<1> QED
  BY <1>1, <1>2, <1>3 DEF Founded

\* After the merge also the linked message is with all it shares an id with.
LEMMA MergedAreTogether ==
  ASSUME NEW store \in Tables, NEW m \in Stored(store), NEW linked, NEW new,
         TogetherBut(store, m), Links(store, m, linked), Merges(store, linked, new)
  PROVE  Together(new)
<1>1. SUFFICES ASSUME NEW n \in Stored(store), NEW k \in Stored(store), Joined(store, n, k)
               PROVE  new[n].thread = new[k].thread
  BY SameJoins DEF Together, Merges, SameMail
<1>2. CASE n # m /\ k # m
  BY <1>1, <1>2 DEF TogetherBut, Merges
<1>3. CASE n = m
  BY <1>1, <1>3 DEF Links, Merges
<1>4. CASE k = m
  <2>1. Joined(store, k, n)
    BY <1>1 DEF Joined
  <2> QED
    BY <1>1, <1>4, <2>1 DEF Links, Merges
<1> QED
  BY <1>2, <1>3, <1>4

\* The merged thread hangs together: by the linked message.
LEMMA MergedAreConnected ==
  ASSUME NEW store \in Tables, NEW m \in Stored(store), NEW linked, NEW new,
         Connected(store), Links(store, m, linked), Merges(store, linked, new)
  PROVE  Connected(new)
<1> DEFINE survivor == Oldest(store, linked)
<1>1. /\ survivor \in linked /\ linked \subseteq Stored(store) /\ linked \subseteq Messages
      /\ Stored(new) = Stored(store) /\ SameMail(store, new) /\ Stored(store) \subseteq Messages
      /\ \A n \in Stored(store) :
           new[n].thread = IF store[n].thread \in linked THEN survivor ELSE store[n].thread
  BY DEF Links, Merges, SameMail, Stored
<1> HIDE DEF survivor
<1>2. SUFFICES ASSUME NEW t \in Messages, NEW S \in SUBSET Messages,
                      S \subseteq OfThread(new, t), S # {},
                      \A x \in S, y \in OfThread(new, t) : Joined(new, x, y) => y \in S
               PROVE  OfThread(new, t) \subseteq S
  <2>1. ASSUME NEW t \in Messages, NEW S \in SUBSET Messages  PROVE Whole(new, t, S)
    BY <1>2 DEF Whole
  <2> QED
    BY <2>1 DEF Connected
<1>3. \A u \in Messages : OfThread(new, u) \subseteq Stored(store) /\ OfThread(store, u) \subseteq Stored(store)
  BY <1>1 DEF OfThread
<1>4. \A x \in S, y \in OfThread(new, t) : Joined(store, x, y) => y \in S
  BY <1>1, <1>2, <1>3, SameJoins
\* A thread of the old table that S meets is inside S.
<1>5. ASSUME NEW u \in Messages, OfThread(store, u) \subseteq OfThread(new, t),
             NEW x \in S, x \in OfThread(store, u)
      PROVE  OfThread(store, u) \subseteq S
  <2> DEFINE P == S \cap OfThread(store, u)
  <2>1. P \in SUBSET Messages /\ P \subseteq OfThread(store, u) /\ P # {}
    BY <1>5
  <2>2. \A p \in P, y \in OfThread(store, u) : Joined(store, p, y) => y \in P
    BY <1>4, <1>5
  <2>3. P = OfThread(store, u)
    BY <2>1, <2>2 DEF Connected, Whole
  <2> QED
    BY <2>3
<1>6. CASE t # survivor
  <2>1. OfThread(new, t) \subseteq OfThread(store, t)
    BY <1>1, <1>6 DEF OfThread
  <2>2. t \notin linked
    BY <1>1, <1>2, <1>6 DEF OfThread
  <2>3. OfThread(store, t) \subseteq OfThread(new, t)
    BY <1>1, <2>2 DEF OfThread
  <2>4. OfThread(store, t) \subseteq S
    BY <1>2, <1>5, <2>1, <2>3
  <2> QED
    BY <2>1, <2>4
<1>7. CASE t = survivor
  <2>1. \A n \in OfThread(new, t) : store[n].thread \in linked
    BY <1>1, <1>7 DEF OfThread
  <2>2. \A u \in linked : OfThread(store, u) \subseteq OfThread(new, t)
    BY <1>1, <1>7 DEF OfThread
  <2>3. \A n \in Stored(store) : n \in OfThread(store, store[n].thread)
    BY DEF OfThread
  <2>4. m \in OfThread(new, t) /\ store[m].thread \in linked
    BY <2>2, <2>3 DEF Links
  <2>5. ASSUME NEW x \in S, NEW u \in linked, store[x].thread = u  PROVE OfThread(store, u) \subseteq S
    <3>1. x \in OfThread(store, u) /\ u \in Messages
      BY <1>1, <1>2, <1>3, <2>3, <2>5
    <3> QED
      BY <3>1, <1>5, <2>2
  \* Each linked thread holds the message, or one that shares an id with it.
  <2>6. m \in S
    <3>1. PICK x \in S : x \in Stored(store) /\ store[x].thread \in linked
      BY <1>2, <1>3, <2>1
    <3>2. OfThread(store, store[x].thread) \subseteq S
      BY <2>5, <3>1
    <3>3. CASE store[x].thread = store[m].thread
      BY <2>3, <3>2, <3>3
    <3>4. CASE store[x].thread # store[m].thread
      <4>1. PICK p \in Stored(store) : Joined(store, m, p) /\ store[p].thread = store[x].thread
        BY <3>1, <3>4 DEF Links
      <4>2. p \in S /\ Joined(store, p, m)
        BY <4>1, <2>3, <3>2 DEF Joined
      <4> QED
        BY <4>2, <1>4, <2>4
    <3> QED
      BY <3>3, <3>4
  <2>7. ASSUME NEW u \in linked  PROVE OfThread(store, u) \subseteq S
    <3>1. CASE u = store[m].thread
      BY <2>5, <2>6, <3>1
    <3>2. CASE u # store[m].thread
      <4>1. PICK p \in Stored(store) : Joined(store, m, p) /\ store[p].thread = u
        BY <3>2 DEF Links
      <4>2. p \in S
        BY <4>1, <1>4, <2>2, <2>3, <2>6
      <4> QED
        BY <4>1, <4>2, <2>5
    <3> QED
      BY <3>1, <3>2
  <2> QED
    BY <2>1, <2>3, <2>7, <1>3
<1> QED
  BY <1>6, <1>7

\* Linking a message keeps the invariant, if only this message was unlinked.
LEMMA LinkingKeeps ==
  ASSUME NEW store \in Tables, NEW m \in Stored(store), NEW new \in LinkThread(store, m),
         Founded(store), TogetherBut(store, m), Connected(store)
  PROVE  ThreadsInv(new) /\ SameMail(store, new) /\ KeepsMarks(store, new)
         /\ \E linked : Merges(store, linked, new)
<1>1. PICK linked \in LinkedThreads(store, m) : new = Merge(store, linked)
  BY DEF LinkThread
<1>2. Links(store, m, linked)
  BY LinkedThreadsLink
<1>3. Merges(store, linked, new) /\ KeepsMarks(store, new)
  BY <1>1, <1>2, MergeMerges DEF Links
<1> QED
  BY <1>2, <1>3, MergedAreFounded, MergedAreTogether, MergedAreConnected
     DEF ThreadsInv, Merges, SameMail

-----------------------------------------------------------------------------
(* Threads: each step keeps them.                                          *)

\* A message that arrives is in a thread of its own until it is linked.
LEMMA NewRow ==
  ASSUME NEW store, ThreadsInv(store), NEW m \in Messages \ Stored(store),
         NEW row \in Message, row.thread = m, NEW base \in Tables,
         base[m] = row, \A n \in Messages \ {m} : base[n] = store[n]
  PROVE  /\ m \in Stored(base)
         /\ Stored(base) = Stored(store) \cup {m}
         /\ \A n \in Stored(store) : base[n] = store[n]
         /\ Founded(base) /\ TogetherBut(base, m) /\ Connected(base)
<1>1. Stored(base) = Stored(store) \cup {m} /\ m \in Stored(base) /\ m \notin Stored(store)
  <2>1. row # NoMessage
    BY ConversationsAssumption
  <2> QED
    BY <2>1 DEF Stored
<1>2. \A n \in Stored(store) : base[n] = store[n] /\ n # m /\ n \in Messages
  BY DEF Stored
<1>3. Founded(base)
  BY <1>1, <1>2 DEF ThreadsInv, Founded, Older
<1>4. TogetherBut(base, m)
  BY <1>1, <1>2 DEF ThreadsInv, Together, TogetherBut, Joined
<1>5. OfThread(base, m) = {m}
  BY <1>1, <1>2 DEF ThreadsInv, Founded, OfThread
<1>6. \A t \in Messages \ {m} : OfThread(base, t) = OfThread(store, t)
  BY <1>1, <1>2 DEF OfThread
<1>7. ASSUME NEW t \in Messages, NEW S \in SUBSET Messages  PROVE Whole(base, t, S)
  <2>1. CASE t = m
    BY <1>5, <2>1 DEF Whole
  <2>2. CASE t # m
    <3>1. OfThread(base, t) = OfThread(store, t) /\ OfThread(store, t) \subseteq Stored(store)
      BY <1>6, <2>2 DEF OfThread
    <3>2. \A x, y \in OfThread(store, t) : Joined(base, x, y) <=> Joined(store, x, y)
      BY <3>1, <1>2 DEF Joined
    <3> QED
      BY <3>1, <3>2 DEF ThreadsInv, Connected, Whole
  <2> QED
    BY <2>1, <2>2
<1> QED
  BY <1>1, <1>2, <1>3, <1>4, <1>7 DEF Connected

\* A message that learns its Message-ID shares more than before.
LEMMA NewId ==
  ASSUME NEW store, ThreadsInv(store), NEW m \in Stored(store), NEW id \in Ids, store[m].own = NoId
  PROVE  LET base == [store EXCEPT ![m].job = "settled", ![m].own = id]
         IN /\ base \in Tables /\ Stored(base) = Stored(store)
            /\ \A n \in Stored(store) \ {m} : base[n] = store[n]
            /\ base[m] = [store[m] EXCEPT !.job = "settled", !.own = id]
            /\ Founded(base) /\ TogetherBut(base, m) /\ Connected(base)
<1> DEFINE base == [store EXCEPT ![m].job = "settled", ![m].own = id]
<1>1. m \in Messages /\ store[m] \in Message /\ store \in Tables
  BY StoredRows DEF ThreadsInv
<1>2. [store[m] EXCEPT !.job = "settled", !.own = id] \in Message
  BY <1>1 DEF Message, Jobs
<1>3. base = [store EXCEPT ![m] = [store[m] EXCEPT !.job = "settled", !.own = id]]
  BY <1>1 DEF Tables, Message
<1>4. base \in Tables /\ base[m] = [store[m] EXCEPT !.job = "settled", !.own = id]
      /\ \A n \in Messages \ {m} : base[n] = store[n]
  BY <1>1, <1>2, <1>3 DEF Tables
<1> HIDE DEF base
<1>5. /\ base[m].thread = store[m].thread /\ base[m].created = store[m].created /\ base[m] # NoMessage
      /\ base[m].own = id /\ base[m].inReplyTo = store[m].inReplyTo
      /\ base[m].references = store[m].references
  BY <1>1, <1>2, <1>4, ConversationsAssumption DEF Message
<1>6. Stored(base) = Stored(store) /\ Stored(store) \subseteq Messages
  BY <1>4, <1>5 DEF Stored
<1>7. \A n \in Stored(store) :
        /\ base[n].thread = store[n].thread /\ base[n].created = store[n].created
        /\ Mentions(store[n]) \subseteq Mentions(base[n])
  BY <1>4, <1>5, <1>6, ConversationsAssumption DEF Mentions
<1>8. Founded(base)
  BY <1>6, <1>7 DEF ThreadsInv, Founded, Older
<1>9. TogetherBut(base, m)
  BY <1>4, <1>6, <1>7 DEF ThreadsInv, Together, TogetherBut, Joined
<1>10. ASSUME NEW t \in Messages, NEW S \in SUBSET Messages  PROVE Whole(base, t, S)
  <2>1. OfThread(base, t) = OfThread(store, t) /\ OfThread(store, t) \subseteq Stored(store)
    BY <1>6, <1>7 DEF OfThread
  <2>2. \A x, y \in OfThread(store, t) : Joined(store, x, y) => Joined(base, x, y)
    BY <2>1, <1>7 DEF Joined
  <2> QED
    BY <2>1, <2>2 DEF ThreadsInv, Connected, Whole
<1> QED
  BY <1>4, <1>6, <1>8, <1>9, <1>10 DEF Connected, base
\* What a change may not do: take a message away, move it in a list, part it
\* from its conversation, or mark one outside the scope of its reader.
Kept(store, new) ==
  /\ Stored(store) \subseteq Stored(new)
  /\ \A n \in Stored(store) : new[n].occurred = store[n].occurred
  /\ \A m, n \in Stored(store) : store[m].thread = store[n].thread => new[m].thread = new[n].thread
MarksOnly(store, new, scope) ==
  \A m \in Stored(store) : store[m].mailbox \notin scope =>
    /\ new[m].read = store[m].read /\ new[m].deleted = store[m].deleted
    /\ scope # {} => new[m].job = store[m].job

\* What was deleted is not waiting to be dispatched.
Rejects(store) == \A m \in Stored(store) : store[m].deleted => store[m].job # "ready"

Change(store, new, scope) ==
  /\ ThreadsInv(new) /\ Kept(store, new) /\ MarksOnly(store, new, scope)
  /\ Rejects(store) => Rejects(new)
Changed == \E new, scope : scope \in SUBSET Mailboxes /\ Change(message, new, scope) /\ Writes(new, scope)

\* writeThreadedMail.
LEMMA Arrives ==
  ASSUME ThreadsInv(message), NEW m \in Messages, NEW direction \in {"inbound", "outbound"},
         NEW header \in Header, NEW occurred \in 1 .. MaxTime, NEW now \in 1 .. MaxTime,
         WriteThreadedMail(m, direction, header, occurred, now)
  PROVE  Changed
<1> DEFINE row == [thread |-> m, mailbox |-> MailboxOf[m], direction |-> direction,
                   own |-> header.own, inReplyTo |-> header.inReplyTo, references |-> header.references,
                   occurred |-> occurred, created |-> now, read |-> FALSE, deleted |-> FALSE,
                   job |-> IF direction = "outbound" THEN "ready" ELSE "none"]
           base == [message EXCEPT ![m] = row]
<1>1. row \in Message /\ row.thread = m
  BY ConversationsAssumption DEF Message, Header, Jobs
<1>2. m \notin Stored(message)
  BY DEF WriteThreadedMail
<1>3. PICK new \in LinkThread(base, m) : Writes(new, {})
  BY DEF WriteThreadedMail
<1> HIDE DEF row
<1>4. base \in Tables /\ base[m] = row /\ \A n \in Messages \ {m} : base[n] = message[n]
  BY <1>1 DEF ThreadsInv, Tables
<1> HIDE DEF base
<1>5. /\ m \in Stored(base) /\ Stored(base) = Stored(message) \cup {m}
      /\ \A n \in Stored(message) : base[n] = message[n]
      /\ Founded(base) /\ TogetherBut(base, m) /\ Connected(base)
  <2>1. m \in Messages \ Stored(message)
    BY <1>2
  <2> QED
    BY <2>1, <1>1, <1>4, NewRow
<1>6. PICK linked : ThreadsInv(new) /\ SameMail(base, new) /\ KeepsMarks(base, new) /\ Merges(base, linked, new)
  BY <1>3, <1>4, <1>5, LinkingKeeps
<1>7. Kept(message, new)
  BY <1>5, <1>6 DEF Kept, SameMail, Merges
<1>8. MarksOnly(message, new, {})
  BY <1>5, <1>6 DEF MarksOnly, KeepsMarks
<1>9. Rejects(message) => Rejects(new)
  <2>1. ~base[m].deleted
    BY <1>4 DEF row
  <2> QED
    BY <1>5, <1>6, <2>1 DEF Rejects, KeepsMarks, SameMail
<1> QED
  BY <1>3, <1>6, <1>7, <1>8, <1>9 DEF Changed, Change

\* completeAttempt, of a message that was accepted.
LEMMA Learns ==
  ASSUME ThreadsInv(message), NEW m \in Messages, NEW id \in Ids, Accepted(m, id)
  PROVE  Changed
<1> DEFINE base == [message EXCEPT ![m].job = "settled", ![m].own = id]
<1>1. m \in Stored(message) /\ message[m].own = NoId /\ message[m] \in Message
  BY StoredRows DEF Accepted, ThreadsInv
<1>2. PICK new \in LinkThread(base, m) : Writes(new, {})
  BY DEF Accepted
<1>3. /\ base \in Tables /\ Stored(base) = Stored(message)
      /\ \A n \in Stored(message) \ {m} : base[n] = message[n]
      /\ base[m] = [message[m] EXCEPT !.job = "settled", !.own = id]
      /\ Founded(base) /\ TogetherBut(base, m) /\ Connected(base)
  BY <1>1, NewId
<1> HIDE DEF base
<1>4. \A n \in Stored(message) :
        /\ base[n].thread = message[n].thread /\ base[n].occurred = message[n].occurred
        /\ base[n].read = message[n].read /\ base[n].deleted = message[n].deleted
  <2>1. /\ base[m].thread = message[m].thread /\ base[m].occurred = message[m].occurred
        /\ base[m].read = message[m].read /\ base[m].deleted = message[m].deleted
    BY <1>1, <1>3 DEF Message
  <2> QED
    BY <2>1, <1>3
<1>5. PICK linked : ThreadsInv(new) /\ SameMail(base, new) /\ KeepsMarks(base, new) /\ Merges(base, linked, new)
  BY <1>1, <1>2, <1>3, LinkingKeeps
<1>6. Kept(message, new)
  BY <1>3, <1>4, <1>5 DEF Kept, SameMail, Merges
<1>7. MarksOnly(message, new, {})
  BY <1>3, <1>4, <1>5 DEF MarksOnly, KeepsMarks
<1>8. Rejects(message) => Rejects(new)
  <2>1. base[m].job = "settled"
    BY <1>1, <1>3 DEF Message
  <2> QED
    <3>1. Stored(new) = Stored(message) /\ new[m].job = "settled"
      BY <1>1, <1>3, <1>5, <2>1 DEF KeepsMarks, SameMail
    <3>2. \A n \in Stored(message) \ {m} :
            new[n].deleted = message[n].deleted /\ new[n].job = message[n].job
      BY <1>3, <1>5 DEF KeepsMarks
    <3> QED
      BY <3>1, <3>2 DEF Rejects
<1> QED
  BY <1>2, <1>5, <1>6, <1>7, <1>8 DEF Changed, Change

\* Rows that get other marks, and nothing else.
SameButMarks(row, new) ==
  /\ new \in Message
  /\ new.thread = row.thread /\ new.mailbox = row.mailbox /\ new.direction = row.direction
  /\ new.own = row.own /\ new.inReplyTo = row.inReplyTo /\ new.references = row.references
  /\ new.occurred = row.occurred /\ new.created = row.created
Remarked(store, new, taken) ==
  /\ taken \subseteq Stored(store)
  /\ new \in [Messages -> Message \cup {NoMessage}]
  /\ \A m \in Messages \ taken : new[m] = store[m]
  /\ \A m \in taken : SameButMarks(store[m], new[m])

\* Marks do not matter to the threads.
LEMMA RemarkedKeeps ==
  ASSUME NEW store, ThreadsInv(store), NEW new, NEW taken, Remarked(store, new, taken)
  PROVE  ThreadsInv(new) /\ Kept(store, new) /\ Stored(new) = Stored(store)
<1>1. ASSUME NEW n \in Stored(store)  PROVE n \in Messages /\ SameButMarks(store[n], new[n])
  BY StoredRows DEF ThreadsInv, Remarked, SameButMarks
<1>2. Stored(new) = Stored(store)
  <2>1. \A n \in Stored(store) : n \in Stored(new)
    BY <1>1, ConversationsAssumption DEF SameButMarks, Stored
  <2>2. \A n \in Messages \ Stored(store) : n \notin Stored(new)
    BY DEF Remarked, Stored
  <2> QED
    BY <2>1, <2>2 DEF Stored
<1>3. SameMail(store, new)
  BY <1>1, <1>2 DEF SameMail, SameButMarks, Tables, Remarked
<1>4. ThreadsInv(new)
  BY <1>1, <1>3, SameThreads DEF SameButMarks
<1> QED
  BY <1>1, <1>2, <1>4 DEF Kept, SameButMarks

\* claimJob, and completeAttempt without a Message-ID.
LEMMA MovesJob ==
  ASSUME ThreadsInv(message), NEW m \in Messages, NEW from, NEW to \in Jobs \ {"ready"}, JobMoves(m, from, to)
  PROVE  Changed
<1> DEFINE new == [message EXCEPT ![m].job = to]
<1>1. m \in Stored(message) /\ message[m] \in Message /\ Writes(new, {}) /\ message \in Tables
  BY StoredRows DEF JobMoves, ThreadsInv
<1>2. new \in Tables /\ new[m] = [message[m] EXCEPT !.job = to] /\ \A n \in Messages \ {m} : new[n] = message[n]
      /\ new[m] \in Message
  BY <1>1 DEF Tables, Message
<1> HIDE DEF new
<1>3. SameButMarks(message[m], new[m])
  BY <1>1, <1>2 DEF Message, SameButMarks
<1>4. Remarked(message, new, {m})
  BY <1>1, <1>2, <1>3 DEF Remarked, Tables
<1>5. ThreadsInv(new) /\ Kept(message, new) /\ Stored(new) = Stored(message)
  BY <1>4, RemarkedKeeps
<1>6. MarksOnly(message, new, {})
  BY <1>1, <1>2, StoredRows DEF MarksOnly, Message, ThreadsInv
<1>7. Rejects(message) => Rejects(new)
  <2>1. new[m].job # "ready"
    BY <1>1, <1>2 DEF Message
  <2>2. \A n \in Stored(message) \ {m} : new[n] = message[n]
    BY <1>2 DEF Stored
  <2> QED
    BY <1>5, <2>1, <2>2 DEF Rejects
<1> QED
  BY <1>1, <1>5, <1>6, <1>7 DEF Changed, Change

\* markThreadRead.
LEMMA MarksRead ==
  ASSUME ThreadsInv(message), NEW handle \in Messages, NEW isRead \in BOOLEAN, NEW scope \in Scopes,
         MarkThreadRead(handle, isRead, scope)
  PROVE  Changed
<1> DEFINE thread == UNION {OfThread(message, t) \cap InScope(message, scope) :
                              t \in ResolveThread(message, handle, scope)}
           marked == {m \in thread : message[m].direction = "inbound"}
           new == [m \in Messages |-> IF m \in marked THEN [message[m] EXCEPT !.read = isRead]
                                      ELSE message[m]]
<1>1. Writes(new, scope)
  BY DEF MarkThreadRead
<1>2. marked \subseteq InScope(message, scope) /\ InScope(message, scope) \subseteq Stored(message)
      /\ scope \in SUBSET Mailboxes
  BY ConversationsAssumption DEF InScope, Live
<1> HIDE DEF marked
<1>3. /\ \A m \in Messages \ marked : new[m] = message[m]
      /\ \A m \in marked : new[m] = [message[m] EXCEPT !.read = isRead] /\ message[m] \in Message
      /\ new = [m \in Messages |-> new[m]]
      /\ marked \subseteq Messages
  BY <1>2, StoredRows DEF ThreadsInv
<1> HIDE DEF new
<1>4. ASSUME NEW m \in marked
      PROVE  SameButMarks(message[m], new[m])
  <2>1. new[m] = [message[m] EXCEPT !.read = isRead] /\ message[m] \in Message
    BY <1>3
  <2> QED
    BY <2>1 DEF Message, SameButMarks
<1>5. Remarked(message, new, marked)
  <2>1. new \in [Messages -> Message \cup {NoMessage}]
    BY <1>3, <1>4 DEF ThreadsInv, Tables, SameButMarks
  <2> QED
    BY <1>2, <1>3, <1>4, <2>1 DEF Remarked
<1>6. ThreadsInv(new) /\ Kept(message, new) /\ Stored(new) = Stored(message)
  BY <1>5, RemarkedKeeps
<1>7. MarksOnly(message, new, scope)
  BY <1>2, <1>3 DEF MarksOnly, InScope, Stored
<1>8. Rejects(message) => Rejects(new)
  <2>1. \A m \in Stored(message) : new[m].deleted = message[m].deleted /\ new[m].job = message[m].job
    <3>1. ASSUME NEW m \in marked  PROVE new[m].deleted = message[m].deleted /\ new[m].job = message[m].job
      <4>1. new[m] = [message[m] EXCEPT !.read = isRead] /\ message[m] \in Message
        BY <1>3
      <4> QED
        BY <4>1 DEF Message
    <3> QED
      BY <1>3, <3>1 DEF Stored
  <2> QED
    BY <1>6, <2>1 DEF Rejects
<1> QED
  BY <1>1, <1>2, <1>6, <1>7, <1>8 DEF Changed, Change

\* softDeleteThread.
LEMMA TakesThread ==
  ASSUME ThreadsInv(message), NEW handle \in Messages, NEW scope \in Scopes,
         SoftDeleteThread(handle, scope)
  PROVE  Changed
<1> DEFINE taken == Deletes(message, handle, scope)
           new == [m \in Messages |-> IF m \notin taken THEN message[m]
                     ELSE [message[m] EXCEPT !.deleted = TRUE, !.job = Rejected(@)]]
<1>1. Writes(new, scope)
  BY DEF SoftDeleteThread
<1>2. taken \subseteq InScope(message, scope) /\ InScope(message, scope) \subseteq Stored(message)
      /\ scope \in SUBSET Mailboxes
  BY ConversationsAssumption DEF InScope, Live, Deletes
<1> HIDE DEF taken
<1>3. /\ \A m \in Messages \ taken : new[m] = message[m]
      /\ \A m \in taken : /\ new[m] = [message[m] EXCEPT !.deleted = TRUE, !.job = Rejected(message[m].job)]
                          /\ message[m] \in Message
      /\ new = [m \in Messages |-> new[m]]
      /\ taken \subseteq Messages
  BY <1>2, StoredRows DEF ThreadsInv, Message
<1> HIDE DEF new
<1>4. ASSUME NEW m \in taken
      PROVE  SameButMarks(message[m], new[m])
  <2>1. /\ message[m] \in Message /\ message[m].job \in Jobs
        /\ new[m] = [message[m] EXCEPT !.deleted = TRUE, !.job = Rejected(message[m].job)]
    BY <1>3 DEF Message
  <2>2. Rejected(message[m].job) \in Jobs
    BY <2>1 DEF Rejected, Jobs
  <2> QED
    BY <2>1, <2>2 DEF Message, SameButMarks
<1>5. Remarked(message, new, taken)
  <2>1. new \in [Messages -> Message \cup {NoMessage}]
    BY <1>3, <1>4 DEF ThreadsInv, Tables, SameButMarks
  <2> QED
    BY <1>2, <1>3, <1>4, <2>1 DEF Remarked
<1>6. ThreadsInv(new) /\ Kept(message, new) /\ Stored(new) = Stored(message)
  BY <1>5, RemarkedKeeps
<1>7. MarksOnly(message, new, scope)
  BY <1>2, <1>3 DEF MarksOnly, InScope, Stored
<1>8. Rejects(message) => Rejects(new)
  <2>1. ASSUME NEW m \in taken  PROVE new[m].job # "ready"
    <3>1. /\ message[m] \in Message
          /\ new[m] = [message[m] EXCEPT !.deleted = TRUE, !.job = Rejected(message[m].job)]
      BY <1>3
    <3>2. new[m].job = Rejected(message[m].job)
      BY <3>1 DEF Message
    <3> QED
      BY <3>2 DEF Rejected
  <2> QED
    BY <1>3, <1>6, <2>1 DEF Rejects, Stored
<1> QED
  BY <1>1, <1>2, <1>6, <1>7, <1>8 DEF Changed, Change
-----------------------------------------------------------------------------
(* Pages.                                                                  *)

\* Lists show stored messages.
LEMMA RowsAreStored ==
  ASSUME NEW store, NEW q \in Query
  PROVE  Rows(store, q) \subseteq Stored(store)
<1>1. InScope(store, q.scope) \subseteq Stored(store) /\ q.list \in {"messages", "threads", "thread"}
  BY DEF InScope, Live, Query
<1> QED
  BY <1>1 DEF Rows, ListMessages, ThreadHeads, ThreadMessages

\* The order of a list, on some of its rows.
OrderOf(store, q, S) == {p \in S \X S : Precedes(store, q, p[1], p[2])}

\* The order of a list tells any two of its rows apart.
LEMMA ListsAreOrdered ==
  ASSUME NEW store \in Tables, NEW q, NEW S, S \subseteq Stored(store)
  PROVE  Orders(OrderOf(store, q, S), S) /\ IsFiniteSet(S)
<1>1. \A m \in S : store[m].occurred \in Nat /\ m \in Nat
  BY StoredRows
<1>2. /\ \A m \in S : ~Earlier(store, m, m)
      /\ \A m, n \in S : m = n \/ Earlier(store, m, n) \/ Earlier(store, n, m)
      /\ \A m, n, k \in S : Earlier(store, m, n) /\ Earlier(store, n, k) => Earlier(store, m, k)
  BY <1>1 DEF Earlier
<1>3. /\ \A m \in S : ~Precedes(store, q, m, m)
      /\ \A m, n \in S : m = n \/ Precedes(store, q, m, n) \/ Precedes(store, q, n, m)
      /\ \A m, n, k \in S : Precedes(store, q, m, n) /\ Precedes(store, q, n, k) => Precedes(store, q, m, k)
  <2>1. CASE q.list = "thread"
    BY <1>2, <2>1 DEF Precedes
  <2>2. CASE q.list # "thread"
    BY <1>2, <2>2 DEF Precedes
  <2> QED
    BY <2>1, <2>2
<1>4. \A m, n \in S : <<m, n>> \in OrderOf(store, q, S) <=> Precedes(store, q, m, n)
  BY DEF OrderOf
<1> QED
  BY <1>3, <1>4, StoredAreFinite DEF Orders

\* A page is the first rows beyond its cursor.
LEMMA PageIsFirst ==
  ASSUME NEW store, NEW q, NEW cursor, NEW limit
  PROVE  Page(store, q, cursor, limit) =
           FirstOf(OrderOf(store, q, Beyond(store, q, cursor)), Beyond(store, q, cursor), limit)
<1> DEFINE rows == Beyond(store, q, cursor)
<1>1. \A m \in rows : {n \in rows : Precedes(store, q, n, m)} = Before(OrderOf(store, q, rows), rows, m)
  BY DEF OrderOf, Before
<1> HIDE DEF rows
<1>2. {m \in rows : Cardinality({n \in rows : Precedes(store, q, n, m)}) < limit} =
        FirstOf(OrderOf(store, q, rows), rows, limit)
  BY <1>1 DEF FirstOf
<1> QED
  BY <1>2 DEF Page, rows

\* The cursor of the next page leaves no row between the two pages, and there
\* is none only if no row is left.
LEMMA PagesAdjoin ==
  ASSUME NEW store \in Tables, NEW q \in Query, NEW cursor
  PROVE  LET rows == Beyond(store, q, cursor)
             page == Page(store, q, cursor, PageLimit)
             next == NextCursor(store, q, cursor)
         IN /\ page \subseteq Messages
            /\ next \in Cursor \cup {NoCursor}
            /\ IF next = NoCursor THEN page = rows
               ELSE \A n \in rows \ page : n \in Beyond(store, q, next)
<1> DEFINE rows == Beyond(store, q, cursor)
           R == OrderOf(store, q, rows)
           page == Page(store, q, cursor, PageLimit)
           more == Page(store, q, cursor, PageLimit + 1)
           last == CHOOSE m \in page : \A n \in page \ {m} : Precedes(store, q, n, m)
           next == NextCursor(store, q, cursor)
<1>1. rows \subseteq Rows(store, q) /\ rows \subseteq Stored(store) /\ Stored(store) \subseteq Messages
  BY RowsAreStored DEF Beyond, Stored
<1>2. PageLimit \in Nat \ {0} /\ NoCursor \notin Cursor
  BY ConversationsAssumption
<1>3. page = FirstOf(R, rows, PageLimit) /\ more = FirstOf(R, rows, PageLimit + 1) /\ page \subseteq rows
  BY PageIsFirst DEF FirstOf
<1>4. next = IF page = more THEN NoCursor ELSE [at |-> store[last].occurred, id |-> last]
  BY DEF NextCursor
<1> HIDE DEF rows, page, more, next
<1>5. Orders(R, rows) /\ IsFiniteSet(rows)
  BY <1>1, ListsAreOrdered
<1>6. CASE page = more
  <2>1. page = rows
    BY <1>2, <1>3, <1>5, <1>6, FirstAreAll
  <2> QED
    BY <1>1, <1>4, <1>6, <2>1 DEF rows, page, next
<1>7. CASE page # more
  <2>1. page # {}
    <3>1. SUFFICES ASSUME page = {}  PROVE FALSE
      OBVIOUS
    <3>2. PICK x \in rows : x \in more
      BY <1>3, <1>7, <3>1 DEF FirstOf
    <3>3. PICK y \in rows : \A z \in rows \ {y} : <<y, z>> \in R
      BY <1>5, <3>2, FirstExists
    <3>4. Before(R, rows, y) = {}
      BY <3>3, <1>5 DEF Before, Orders
    <3>5. y \in page
      BY <1>2, <1>3, <3>4, FS_EmptySet DEF FirstOf
    <3> QED
      BY <3>1, <3>5
  <2>2. last \in page /\ \A n \in page \ {last} : Precedes(store, q, n, last)
    <3>1. Orders(OrderOf(store, q, page), page) /\ IsFiniteSet(page)
      BY <1>1, <1>3, ListsAreOrdered
    <3>2. PICK x \in page : \A y \in page \ {x} : <<y, x>> \in OrderOf(store, q, page)
      BY <2>1, <3>1, LastExists
    <3>3. \A y \in page \ {x} : Precedes(store, q, y, x)
      BY <3>2 DEF OrderOf
    <3> QED
      BY <3>3
  <2> HIDE DEF last
  <2>3. last \in Stored(store) /\ last \in Messages /\ last \in Nat
        /\ store[last].occurred \in 1 .. MaxTime /\ store[last].occurred \in Nat
    BY <1>1, <1>3, <2>2, StoredRows
  <2>4. next = [at |-> store[last].occurred, id |-> last] /\ next \in Cursor /\ next # NoCursor
    BY <1>2, <1>4, <1>7, <2>3 DEF Cursor
  <2>5. ASSUME NEW n \in rows \ page  PROVE n \in Beyond(store, q, next)
    <3>1. Precedes(store, q, last, n)
      <4>1. <<last, n>> \in R
        BY <1>2, <1>3, <1>5, <2>2, FirstComeFirst
      <4> QED
        BY <4>1 DEF OrderOf
    <3>2. n \in Rows(store, q) /\ n \in Nat /\ store[n].occurred \in Nat
      BY <1>1, StoredRows
    <3>3. /\ next.at = store[last].occurred /\ next.id = last
      BY <2>4
    <3> HIDE DEF R
    <3>4. CASE q.list = "thread"
      BY <3>1, <3>2, <3>3, <3>4, <2>3, <2>4 DEF Precedes, Earlier, Beyond
    <3>5. CASE q.list # "thread"
      BY <3>1, <3>2, <3>3, <3>5, <2>3, <2>4 DEF Precedes, Earlier, Beyond
    <3> QED
      BY <3>4, <3>5
  <2> QED
    BY <1>1, <1>3, <2>4, <2>5 DEF rows, page, next
<1> QED
  BY <1>6, <1>7
-----------------------------------------------------------------------------
(* What a reader sees.                                                     *)

\* What a reader sees, and what a thread holds, is stored.
LEMMA ScopeIsStored ==
  ASSUME NEW store \in Tables, NEW scope
  PROVE  /\ InScope(store, scope) \subseteq Stored(store)
         /\ \A t : OfThread(store, t) \subseteq Stored(store)
BY DEF InScope, Live, OfThread

\* The list without filters.
LEMMA ListIsScope ==
  ASSUME NEW store \in Tables, NEW q, q.direction = "any", q.mailbox = "any", q.since = 1, q.unread = FALSE
  PROVE  ListMessages(store, q) = InScope(store, q.scope)
<1>1. \A m \in InScope(store, q.scope) : store[m].occurred >= 1
  BY ScopeIsStored, StoredRows
<1> QED
  BY <1>1 DEF ListMessages

\* A message that the reader sees stands for its thread.
LEMMA ThreadOfVisible ==
  ASSUME NEW store \in Tables, NEW q, q.handle \in InScope(store, q.scope)
  PROVE  ThreadMessages(store, q) = OfThread(store, store[q.handle].thread) \cap InScope(store, q.scope)
<1>1. ResolveThread(store, q.handle, q.scope) = {store[q.handle].thread}
  BY ScopeIsStored DEF ResolveThread
<1> QED
  BY <1>1 DEF ThreadMessages

\* Each thread that the reader sees has one head.
LEMMA HeadExists ==
  ASSUME NEW store \in Tables, NEW q, NEW m \in InScope(store, q.scope)
  PROVE  \E h \in ThreadHeads(store, q) : store[h].thread = store[m].thread
<1> DEFINE S == OfThread(store, store[m].thread) \cap InScope(store, q.scope)
           p == [list |-> "thread"]
           R == OrderOf(store, p, S)
<1>1. S \subseteq Stored(store) /\ m \in S
  BY ScopeIsStored DEF OfThread
<1>2. \A k, n \in S : <<k, n>> \in R <=> Earlier(store, k, n)
  BY DEF OrderOf, Precedes
<1>3. Orders(R, S) /\ IsFiniteSet(S)
  BY <1>1, ListsAreOrdered
<1>4. PICK h \in S : \A n \in S \ {h} : <<n, h>> \in R
  <2> HIDE DEF S, R
  <2> QED
    BY <1>1, <1>3, LastExists
<1>5. \A n \in S : ~Earlier(store, h, n)
  <2> HIDE DEF S, R
  <2> QED
    BY <1>2, <1>3, <1>4 DEF Orders
<1>6. store[h].thread = store[m].thread /\ h \in InScope(store, q.scope)
  BY DEF OfThread
<1> QED
  BY <1>5, <1>6 DEF ThreadHeads

\* Two heads are of two threads.
LEMMA HeadsDiffer ==
  ASSUME NEW store \in Tables, NEW q, NEW h \in ThreadHeads(store, q), NEW k \in ThreadHeads(store, q), h # k
  PROVE  store[h].thread # store[k].thread
<1>1. h \in InScope(store, q.scope) /\ k \in InScope(store, q.scope) /\ h \in Stored(store) /\ k \in Stored(store)
  BY ScopeIsStored DEF ThreadHeads
<1>2. \A m \in {h, k} : store[m].occurred \in Nat /\ m \in Nat
  BY <1>1, StoredRows
<1>3. Earlier(store, h, k) \/ Earlier(store, k, h)
  BY <1>2 DEF Earlier
<1> QED
  BY <1>1, <1>3 DEF ThreadHeads, OfThread

\* The parent a summary names is in the thread of the message.
LEMMA ParentIsTogether ==
  ASSUME NEW store \in Tables, Together(store), NEW m \in Stored(store), NEW n \in Parent(store, m)
  PROVE  store[n].thread = store[m].thread
<1> DEFINE owners == {k \in Stored(store) \ {m} : store[k].own # NoId /\ store[k].own = store[m].inReplyTo}
<1>1. owners # {} /\ n = Oldest(store, owners)
  BY DEF Parent
<1>2. n \in owners
  BY <1>1, OldestIsFirst
<1>3. Joined(store, n, m)
  BY <1>2 DEF Joined, Mentions
<1> QED
  BY <1>2, <1>3 DEF Together

-----------------------------------------------------------------------------
(* The invariant.                                                          *)

WalkType ==
  [at : {"on", "done"}, query : Queries, cursor : Cursor \cup {NoCursor},
   seen : SUBSET Messages, steady : SUBSET Messages]

\* What was in the list all along was seen, or is still beyond the cursor.
WalkKnows(store, w) ==
  /\ w \in WalkType
  /\ w.steady \subseteq Rows(store, w.query)
  /\ w.at = "on" => \A m \in w.steady : m \in w.seen \/ m \in Beyond(store, w.query, w.cursor)
  /\ w.at = "done" => w.steady \subseteq w.seen
WalkInv(store, w) == w = NoWalk \/ WalkKnows(store, w)

IInv ==
  ThreadsInv(message) /\ Rejects(message) /\ WalkInv(message, walk) /\ by \subseteq Mailboxes

\* A change keeps what a walk knows: its rows stay where they are in the list.
LEMMA ChangeKeepsWalk ==
  ASSUME NEW store, NEW new, NEW scope, ThreadsInv(store), Change(store, new, scope),
         NEW w, WalkKnows(store, w)
  PROVE  WalkKnows(new, [w EXCEPT !.steady = @ \cap Rows(new, w.query)])
<1> DEFINE v == [w EXCEPT !.steady = @ \cap Rows(new, w.query)]
<1>1. w \in WalkType /\ w.query \in Query
  BY ConversationsAssumption DEF WalkKnows, WalkType
<1>2. /\ v \in WalkType
      /\ v.at = w.at /\ v.query = w.query /\ v.cursor = w.cursor /\ v.seen = w.seen
      /\ v.steady = w.steady \cap Rows(new, w.query)
  BY <1>1 DEF WalkType
<1> HIDE DEF v
<1>3. ASSUME NEW m \in v.steady, m \in Beyond(store, w.query, w.cursor)
      PROVE  m \in Beyond(new, w.query, w.cursor)
  <2>1. m \in Stored(store) /\ m \in Rows(new, w.query)
    BY <1>1, <1>2, RowsAreStored DEF WalkKnows
  <2>2. new[m].occurred = store[m].occurred
    BY <2>1 DEF Change, Kept
  <2> QED
    BY <1>3, <2>1, <2>2 DEF Beyond
<1>4. WalkKnows(new, v)
  BY <1>2, <1>3 DEF WalkKnows
<1> QED
  BY <1>4 DEF v

\* A change of the table keeps the invariant.
LEMMA ChangeKeeps ==
  ASSUME IInv, Changed
  PROVE  IInv'
<1>1. PICK new, scope : scope \in SUBSET Mailboxes /\ Change(message, new, scope) /\ Writes(new, scope)
  BY DEF Changed
<1>2. message' = new /\ by' = scope /\ ThreadsInv(new) /\ Rejects(new)
  BY <1>1 DEF Writes, Change, IInv
<1>3. CASE walk = NoWalk
  <2>1. walk' = NoWalk
    BY <1>1, <1>3 DEF Writes, NoWalk
  <2> QED
    BY <1>1, <1>2, <2>1 DEF IInv, WalkInv
<1>4. CASE walk # NoWalk
  <2>1. WalkKnows(message, walk) /\ ThreadsInv(message) /\ walk.at # "off"
    BY <1>4 DEF IInv, WalkInv, WalkKnows, WalkType
  <2>2. WalkKnows(new, [walk EXCEPT !.steady = @ \cap Rows(new, walk.query)])
    BY <1>1, <2>1, ChangeKeepsWalk
  <2>3. walk' = [walk EXCEPT !.steady = @ \cap Rows(new, walk.query)]
    BY <1>1, <2>1 DEF Writes
  <2> QED
    BY <1>1, <1>2, <2>2, <2>3 DEF IInv, WalkInv
<1> QED
  BY <1>3, <1>4

\* So does the start of a walk
LEMMA StartKeeps ==
  ASSUME IInv, NEW q \in Queries, StartWalk(q)
  PROVE  IInv'
<1>1. walk' = Walk(q) /\ by' = {} /\ message' = message /\ q \in Query
  BY ConversationsAssumption DEF StartWalk
<1>2. Rows(message, q) \subseteq Messages
  BY <1>1, RowsAreStored DEF Stored
<1>3. Walk(q) \in WalkType /\ Walk(q).at = "on" /\ Walk(q).query = q /\ Walk(q).cursor = NoCursor
      /\ Walk(q).steady = Rows(message, q)
  BY <1>2 DEF Walk, WalkType
<1>4. WalkKnows(message, Walk(q))
  BY <1>3 DEF WalkKnows, Beyond
<1> QED
  BY <1>1, <1>4 DEF IInv, WalkInv

\* and each of its pages.
LEMMA PageKeeps ==
  ASSUME IInv, NextPage
  PROVE  IInv'
<1> DEFINE page == Page(message, walk.query, walk.cursor, PageLimit)
           next == NextCursor(message, walk.query, walk.cursor)
           rows == Beyond(message, walk.query, walk.cursor)
           new == [walk EXCEPT !.seen = @ \cup page, !.cursor = next,
                               !.at = IF next = NoCursor THEN "done" ELSE "on"]
<1>1. WalkKnows(message, walk) /\ walk.at = "on" /\ message \in Tables /\ walk.query \in Query
      /\ walk' = new /\ by' = {} /\ message' = message
  BY ConversationsAssumption DEF NextPage, IInv, WalkInv, WalkKnows, WalkType, NoWalk, ThreadsInv
<1>2. /\ page \subseteq Messages /\ next \in Cursor \cup {NoCursor}
      /\ IF next = NoCursor THEN page = rows
         ELSE \A n \in rows \ page : n \in Beyond(message, walk.query, next)
  BY <1>1, PagesAdjoin
<1> HIDE DEF page, next, rows
<1>3. /\ new \in WalkType /\ new.query = walk.query /\ new.cursor = next /\ new.steady = walk.steady
      /\ new.seen = walk.seen \cup page /\ new.at = IF next = NoCursor THEN "done" ELSE "on"
  BY <1>1, <1>2 DEF WalkKnows, WalkType
<1> HIDE DEF new
<1>4. \A m \in walk.steady : m \in walk.seen \/ m \in rows
  BY <1>1 DEF WalkKnows, rows
<1>5. WalkKnows(message, new)
  <2>1. new.steady \subseteq Rows(message, new.query)
    BY <1>1, <1>3 DEF WalkKnows
  <2>2. new.at = "on" => \A m \in new.steady : m \in new.seen \/ m \in Beyond(message, new.query, new.cursor)
    BY <1>2, <1>3, <1>4
  <2>3. new.at = "done" => new.steady \subseteq new.seen
    BY <1>2, <1>3, <1>4
  <2> QED
    BY <1>3, <2>1, <2>2, <2>3 DEF WalkKnows
<1> QED
  BY <1>1, <1>5 DEF IInv, WalkInv

\* A step writes the table or moves the walk.
LEMMA Steps ==
  ASSUME IInv, Next
  PROVE  \/ Changed
         \/ message' = message /\ by' = {} /\ ((\E q \in Queries : StartWalk(q)) \/ NextPage \/ EndWalk)
<1> USE DEF IInv
<1>0. message \in Tables /\ Instants \subseteq 1 .. MaxTime
  BY DEF ThreadsInv, Instants
<1>1. ASSUME NEW m \in Messages, AcceptInbound(m)  PROVE Changed
  <2>1. PICK header \in HeadersOf[m], now \in Instants : \E received \in ReceivedAt[m] \cap 1 .. now :
            WriteThreadedMail(m, "inbound", header, received, now)
    BY <1>1 DEF AcceptInbound
  <2>2. PICK received \in ReceivedAt[m] \cap 1 .. now :
            WriteThreadedMail(m, "inbound", header, received, now)
    BY <2>1
  <2>3. m \in Messages \ Outgoing /\ header \in Header /\ now \in 1 .. MaxTime /\ received \in 1 .. MaxTime
    BY <1>0, <1>1, <2>2, ConversationsAssumption DEF AcceptInbound
  <2> QED
    BY <2>2, <2>3, Arrives
<1>2. ASSUME NEW m \in Messages, Compose(m)  PROVE Changed
  <2>1. PICK now \in Instants : WriteThreadedMail(m, "outbound", Unthreaded, now, now)
    BY <1>2 DEF Compose
  <2>2. Unthreaded \in Header /\ now \in 1 .. MaxTime
    BY <1>0, <2>1 DEF Unthreaded, Header
  <2> QED
    BY <2>1, <2>2, Arrives
<1>3. ASSUME NEW m \in Messages, Reply(m)  PROVE Changed
  <2>1. PICK now \in Instants, parent \in Stored(message) :
            \E header \in ReplyHeaders(parent) : WriteThreadedMail(m, "outbound", header, now, now)
    BY <1>3 DEF Reply
  <2>2. PICK header \in ReplyHeaders(parent) : WriteThreadedMail(m, "outbound", header, now, now)
    BY <2>1
  <2>3. header \in Header
    <3>1. message[parent].own \in Ids \cup {NoId} /\ message[parent].references \subseteq Ids
      BY <1>0, <2>1, StoredRows
    <3>2. Unthreaded \in Header
      BY DEF Unthreaded, Header
    <3>3. message[parent].own # NoId =>
            \A kept \in SUBSET message[parent].references :
              [own |-> NoId, inReplyTo |-> message[parent].own,
               references |-> kept \cup {message[parent].own}] \in Header
      BY <3>1 DEF Header
    <3> QED
      BY <2>2, <3>2, <3>3 DEF ReplyHeaders
  <2>4. now \in 1 .. MaxTime
    BY <1>0, <2>1
  <2> QED
    BY <2>2, <2>3, <2>4, Arrives
<1>4. ASSUME NEW m \in Messages, Claim(m) \/ Settle(m)  PROVE Changed
  BY <1>4, MovesJob DEF Claim, Settle, Jobs
<1>5. ASSUME NEW handle \in Messages, NEW isRead \in BOOLEAN, NEW scope \in Scopes,
             MarkThreadRead(handle, isRead, scope)
      PROVE  Changed
  BY <1>5, MarksRead
<1>6. ASSUME NEW handle \in Messages, NEW scope \in Scopes, SoftDeleteThread(handle, scope)
      PROVE  Changed
  BY <1>6, TakesThread
<1>7. ASSUME NEW m \in Messages, NEW id \in Ids, Accepted(m, id)  PROVE Changed
  BY <1>7, Learns
<1>8. (\E q \in Queries : StartWalk(q)) \/ NextPage \/ EndWalk => message' = message /\ by' = {}
  BY DEF StartWalk, NextPage, EndWalk
<1> QED
  BY <1>1, <1>2, <1>3, <1>4, <1>5, <1>6, <1>7, <1>8 DEF Next

\* The invariant holds in the empty account
LEMMA Start == Init => IInv
<1>1. SUFFICES ASSUME Init  PROVE IInv
  OBVIOUS
<1>2. message \in Tables /\ Stored(message) = {}
  BY <1>1 DEF Init, Tables, Stored
<1>3. \A t \in Messages : OfThread(message, t) = {}
  BY <1>2 DEF OfThread
<1>4. Founded(message) /\ Together(message) /\ Connected(message)
  BY <1>2, <1>3 DEF Founded, Together, Connected, Whole
<1> QED
  BY <1>1, <1>2, <1>4 DEF Init, IInv, ThreadsInv, WalkInv, Rejects

\* and each step keeps it.
LEMMA Step == IInv /\ [Next]_vars => IInv'
<1>1. ASSUME IInv, Next  PROVE IInv'
  <2>1. CASE Changed
    BY <1>1, <2>1, ChangeKeeps
  <2>2. ASSUME NEW q \in Queries, StartWalk(q)  PROVE IInv'
    BY <1>1, <2>2, StartKeeps
  <2>3. CASE NextPage
    BY <1>1, <2>3, PageKeeps
  <2>4. CASE EndWalk
    BY <1>1, <2>4 DEF EndWalk, IInv, WalkInv
  <2> QED
    BY <1>1, <2>1, <2>2, <2>3, <2>4, Steps
<1>2. ASSUME IInv, UNCHANGED vars  PROVE IInv'
  BY <1>2 DEF vars, IInv, WalkInv
<1> QED
  BY <1>1, <1>2

\* The invariant: threads are founded, together and connected, what was deleted
\* is not ready, and a walk has seen, or has before it, all that stayed in its list.
THEOREM Invariance == Spec => []IInv
BY Start, Step, PTL DEF Spec
-----------------------------------------------------------------------------
(* What follows.                                                           *)

\* Every row and every walk has the shape of its table or request, so that no
\* thread, cursor or list refers to a message that does not exist.
THEOREM ConversationsTypeCorrect == Spec => []TypeOK
<1>1. IInv => TypeOK
  BY DEF IInv, ThreadsInv, Tables, WalkInv, WalkKnows, WalkType, NoWalk, TypeOK
<1> QED
  BY <1>1, Invariance, PTL

\* writeThreadedMail and completeAttempt link by whichever hit the query takes
\* for each Message-ID, and yet two messages are in one thread exactly if a
\* chain of shared Message-IDs joins them.
THEOREM ThreadsJoinWhatIsShared == Spec => []ThreadsAreComponents
<1>1. IInv => ThreadsAreComponents
  <2>1. SUFFICES ASSUME IInv, NEW k \in Stored(message)
                 PROVE  LET t == message[k].thread
                            thread == OfThread(message, t)
                        IN /\ ClosedUnderSharing(thread)
                           /\ \A S \in SUBSET thread : t \in S /\ ClosedUnderSharing(S) => S = thread
    BY DEF ThreadsAreComponents
  <2> DEFINE t == message[k].thread
             thread == OfThread(message, t)
  <2>2. thread \subseteq Stored(message) /\ thread \subseteq Messages /\ t \in Messages
    BY <2>1, StoredRows DEF OfThread, Stored, IInv, ThreadsInv
  <2>3. \A m, n \in Stored(message) : Shares(m, n) <=> Joined(message, m, n)
    BY DEF Shares, Joined
  <2>4. ClosedUnderSharing(thread)
    BY <2>1, <2>3 DEF ClosedUnderSharing, OfThread, IInv, ThreadsInv, Together
  <2>5. ASSUME NEW S \in SUBSET thread, t \in S, ClosedUnderSharing(S)  PROVE S = thread
    <3>1. Whole(message, t, S)
      BY <2>1, <2>2 DEF IInv, ThreadsInv, Connected
    <3>2. \A x \in S, y \in thread : Joined(message, x, y) => y \in S
      BY <2>2, <2>3, <2>5 DEF ClosedUnderSharing
    <3> QED
      BY <2>5, <3>1, <3>2 DEF Whole
  <2> QED
    BY <2>4, <2>5
<1> QED
  BY <1>1, Invariance, PTL

\* Every merge names the thread after its oldest message.
THEOREM ThreadsAreFounded == Spec => []FoundedByOldest
<1>1. IInv => FoundedByOldest
  <2>1. SUFFICES ASSUME IInv, NEW m \in Stored(message)
                 PROVE  message[m].thread = Oldest(message, OfThread(message, message[m].thread))
    BY DEF FoundedByOldest
  <2> DEFINE t == message[m].thread
             S == OfThread(message, t)
  <2>2. t \in S /\ S \subseteq Stored(message) /\ message \in Tables /\ \A n \in S : n = t \/ Older(message, t, n)
    BY <2>1 DEF IInv, ThreadsInv, Founded, OfThread
  <2> HIDE DEF t, S
  <2>3. Oldest(message, S) \in S /\ \A n \in S \ {Oldest(message, S)} : Older(message, Oldest(message, S), n)
    BY <2>2, OldestIsFirst
  <2>4. t = Oldest(message, S)
    BY <2>2, <2>3, OlderIsStrict
  <2> QED
    BY <2>4 DEF t, S
<1> QED
  BY <1>1, Invariance, PTL

\* No arrival, Message-ID, reading or deletion parts messages of one thread.
THEOREM NothingIsSplit == Spec => ThreadsNeverSplit
<1>1. IInv /\ [Next]_vars => NeverSplit
  <2>1. SUFFICES ASSUME IInv, [Next]_vars, NEW m \in Stored(message), NEW n \in Stored(message),
                        message[m].thread = message[n].thread
                 PROVE  message'[m].thread = message'[n].thread
    BY DEF NeverSplit
  <2>2. CASE Changed
    BY <2>1, <2>2 DEF Changed, Change, Kept, Writes
  <2>3. CASE message' = message
    BY <2>1, <2>3
  <2> QED
    BY <2>1, <2>2, <2>3, Steps DEF vars
<1> QED
  BY <1>1, Invariance, PTL DEF Spec, ThreadsNeverSplit

\* markThreadRead and softDeleteThread touch the mail of their reader's scope
\* only, and nothing else marks mail read or deleted.
THEOREM ReadersKeepToTheirScope == Spec => ScopeIsRespected
<1>1. IInv /\ [Next]_vars => OnlyInScope \/ UNCHANGED vars
  <2>1. SUFFICES ASSUME IInv, Next  PROVE OnlyInScope
    BY DEF vars
  <2>2. CASE Changed
    BY <2>2 DEF Changed, Change, MarksOnly, Writes, OnlyInScope
  <2>3. CASE message' = message
    BY <2>3 DEF OnlyInScope
  <2> QED
    BY <2>1, <2>2, <2>3, Steps
<1> QED
  BY <1>1, Invariance, PTL DEF Spec, ScopeIsRespected

\* softDeleteThread rejects what was not dispatched, and nothing that was
\* deleted is made ready again.
THEOREM DeletedIsNeverReady == Spec => []DeletedIsNotReady
<1>1. IInv => DeletedIsNotReady
  BY DEF IInv, Rejects, DeletedIsNotReady
<1> QED
  BY <1>1, Invariance, PTL

\* The cursor is a position, not a count: whatever changes between two pages,
\* no row that stays in the list is passed over.
THEOREM NoRowIsPassedOver == Spec => []WalksAreComplete
<1>1. IInv => WalksAreComplete
  BY DEF IInv, WalkInv, WalkKnows, NoWalk, WalksAreComplete
<1> QED
  BY <1>1, Invariance, PTL
\* The thread list, the pages of its threads, their counts, the plain list and
\* the four reads of one message each state their own filter, and agree; and the
\* parent a summary names is in the conversation that is shown.
THEOREM ReadersAgree == Spec => []ListsAgree
<1>1. ASSUME IInv  PROVE ListsAgree
  <2>1. SUFFICES ASSUME NEW scope \in Scopes
                 PROVE
     LET q == [list |-> "messages", scope |-> scope, handle |-> 0, direction |-> "any",
               mailbox |-> "any", since |-> 1, unread |-> FALSE]
         heads == ThreadHeads(message, q)
         Below(h) == ThreadMessages(message, [q EXCEPT !.handle = h])
     IN /\ UNION {Below(h) : h \in heads} = ListMessages(message, q)
        /\ \A h, k \in heads : h # k => Below(h) \cap Below(k) = {}
        /\ \A h \in heads :
             LET thread == message[h].thread
             IN /\ MessageCount(message, thread, scope) = Cardinality(Below(h))
                /\ UnreadCount(message, thread, scope) =
                     Cardinality(Below(h) \cap ListMessages(message, [q EXCEPT !.unread = TRUE]))
        /\ \A found \in {GetMessageSummary(message, scope), GetMessageBody(message, scope),
                         GetMessageSource(message, scope), GetStoredAttachment(message, scope)} :
             found = ListMessages(message, q)
        /\ \A m \in ListMessages(message, q) : \A n \in Parent(message, m) :
             message[n].thread = message[m].thread
    BY DEF ListsAgree
  <2> DEFINE q == [list |-> "messages", scope |-> scope, handle |-> 0, direction |-> "any",
                   mailbox |-> "any", since |-> 1, unread |-> FALSE]
             unread == [q EXCEPT !.unread = TRUE]
             heads == ThreadHeads(message, q)
             Below(h) == ThreadMessages(message, [q EXCEPT !.handle = h])
             seen == InScope(message, scope)
  <2>2. message \in Tables /\ Together(message) /\ seen \subseteq Stored(message)
    BY <1>1, ScopeIsStored DEF IInv, ThreadsInv
  <2>3. ListMessages(message, q) = seen
    <3>1. /\ q.direction = "any" /\ q.mailbox = "any" /\ q.since = 1
          /\ q.unread = FALSE /\ q.scope = scope
      OBVIOUS
    <3> HIDE DEF q
    <3> QED
      BY <2>2, <3>1, ListIsScope
  <2>4. heads \subseteq seen /\ q.scope = scope
    BY DEF ThreadHeads
  <2>5. \A h \in heads : Below(h) = OfThread(message, message[h].thread) \cap seen
    <3>1. ASSUME NEW h \in heads  PROVE Below(h) = OfThread(message, message[h].thread) \cap seen
      <4>1. [q EXCEPT !.handle = h].handle = h /\ [q EXCEPT !.handle = h].scope = scope
        OBVIOUS
      <4> QED
        BY <2>2, <2>4, <4>1, ThreadOfVisible
    <3> QED
      BY <3>1
  <2>6. \A m \in seen : \E h \in heads : message[h].thread = message[m].thread
    BY <2>2, <2>4, HeadExists
  <2>7. \A h, k \in heads : h # k => message[h].thread # message[k].thread
    BY <2>2, HeadsDiffer
  <2>8. ListMessages(message, unread) = {m \in seen : message[m].direction = "inbound" /\ ~message[m].read}
    <3>1. /\ unread.direction = "any" /\ unread.mailbox = "any" /\ unread.since = 1
          /\ unread.unread = TRUE /\ unread.scope = scope
      OBVIOUS
    <3>2. \A m \in seen : message[m].occurred >= 1
      BY <2>2, StoredRows
    <3> HIDE DEF unread
    <3> QED
      BY <3>1, <3>2 DEF ListMessages
  <2> HIDE DEF q, unread, heads, Below
  <2>9. UNION {Below(h) : h \in heads} = seen
    <3>1. \A h \in heads : Below(h) \subseteq seen
      BY <2>5
    <3>2. \A m \in seen : \E h \in heads : m \in Below(h)
      BY <2>2, <2>5, <2>6 DEF OfThread
    <3> QED
      BY <3>1, <3>2
  <2>10. \A h, k \in heads : h # k => Below(h) \cap Below(k) = {}
    BY <2>5, <2>7 DEF OfThread
  <2>11. ASSUME NEW h \in heads
         PROVE  /\ MessageCount(message, message[h].thread, scope) = Cardinality(Below(h))
                /\ UnreadCount(message, message[h].thread, scope) =
                     Cardinality(Below(h) \cap ListMessages(message, unread))
    <3>1. Below(h) = OfThread(message, message[h].thread) \cap seen
      BY <2>5
    <3>2. Below(h) \cap ListMessages(message, unread) =
            {m \in OfThread(message, message[h].thread) \cap seen :
               message[m].direction = "inbound" /\ ~message[m].read}
      BY <2>8, <3>1
    <3> QED
      BY <3>1, <3>2 DEF MessageCount, UnreadCount
  <2>12. \A found \in {GetMessageSummary(message, scope), GetMessageBody(message, scope),
                       GetMessageSource(message, scope), GetStoredAttachment(message, scope)} : found = seen
    BY DEF GetMessageSummary, GetMessageBody, GetMessageSource, GetStoredAttachment, InScope, Live, Stored
  <2>13. \A m \in seen : \A n \in Parent(message, m) : message[n].thread = message[m].thread
    BY <2>2, ParentIsTogether
  <2> QED
    BY <2>3, <2>9, <2>10, <2>11, <2>12, <2>13 DEF q, unread, heads, Below
<1> QED
  BY <1>1, Invariance, PTL

=============================================================================
