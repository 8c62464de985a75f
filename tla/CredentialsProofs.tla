-------------------------- MODULE CredentialsProofs --------------------------
(***************************************************************************)
(* Theorems about Credentials, for any number of processes and servers, of *)
(* sign-ins, rotations and faults, and for every stale age of the lock and *)
(* every patience with it.  What the lock protects holds up to the first   *)
(* lock that is taken from its process.                                    *)
(***************************************************************************)
EXTENDS Credentials, TLAPS

-----------------------------------------------------------------------------
(* The inductive invariant, up to the first lock taken from its process.   *)

Known == live \cup gone
Carried(p) == process[p].token
SignsIn(p) == Does(p, "login") /\ Carried(p) # NoToken

\* Who works under the lock made it.
OwnsLock(p) ==
  process[p].at \in Inside => lock # NoLock /\ lock.owner = p

\* Which places carry a token: a sign-in's from its approval to its write,
\* the file's from its reading to its end.
Placed(r) ==
  /\ r.at \in {"idle", "device", "read", "release"} => r.token = NoToken
  /\ r.at \in {"acquire", "break"} =>
       r.token \in (IF r.command = "login" THEN Tokens ELSE {NoToken})
  /\ r.at \in {"refresh", "revoke", "write", "remove"} => r.token \in Tokens
  /\ r.at \in {"read", "refresh", "revoke", "remove"} => r.command # "login"
  /\ r.at = "device" => r.command = "login"

\* What is being replaced or ended is what the file holds.
WorksOnFile(p) ==
  /\ process[p].at \in {"refresh", "revoke", "remove"} =>
       file # NoFile /\ Carried(p) = file.token
  /\ At(p, "write") /\ ~ Does(p, "login") =>
       file # NoFile /\ Carried(p)[1] = file.token[1]

\* A token that will be presented or written is known; one whose revocation
\* was answered is not accepted.
CarriesKnown(p) ==
  /\ Carried(p) # NoToken /\ ~ At(p, "remove") => Carried(p) \in Known
  /\ At(p, "remove") => Carried(p) \notin live

\* A sign-in that is not yet written is nobody else's.
SignInIsApart(p) ==
  SignsIn(p) =>
    /\ file # NoFile => file.token[1] # Carried(p)[1]
    /\ \A q \in Processes \ {p} :
         Carried(q) # NoToken => Carried(q)[1] # Carried(p)[1]

\* Nothing that is kept or carried belongs to a sign-in to come, or ended.
SignInsCounted ==
  /\ signedOut \subseteq 1 .. logins
  /\ file # NoFile => file.token[1] <= logins /\ file.token[1] \notin signedOut
  /\ \A p \in Processes : Carried(p) # NoToken =>
       Carried(p)[1] <= logins /\ Carried(p)[1] \notin signedOut

\* Only while one replaces or removes it may the file's token be unknown.
FileIsKnown ==
  (\A p \in Processes : process[p].at \notin {"write", "remove"}) =>
    (file # NoFile => file.token \in Known)

TokensInv ==
  /\ \A p \in Processes : WorksOnFile(p) /\ CarriesKnown(p) /\ SignInIsApart(p)
  /\ SignInsCounted
  /\ FileIsKnown

LockInv == (\A p \in Processes : OwnsLock(p)) /\ TokensInv

Typed == TypeOK /\ \A p \in Processes : Placed(process[p])

IInv == Typed /\ (Undisturbed => LockInv)

-----------------------------------------------------------------------------
(* Types.                                                                  *)

USE CredentialsAssumption

LEMMA NotRunningTyped == NotRunning \in Process
<1>1. (CHOOSE u \in Urls : TRUE) \in Urls
  OBVIOUS
<1> QED
  BY <1>1 DEF NotRunning, Process, Outside, Commands

LEMMA TypeStart == Init => Typed
<1> SUFFICES ASSUME Init PROVE Typed
  OBVIOUS
<1>1. Placed(NotRunning) /\ NotRunning.at = "idle"
  BY DEF NotRunning, Placed
<1>2. process \in [Processes -> Process] /\ \A p \in Processes : process[p] = NotRunning
  BY NotRunningTyped DEF Init
<1>3. \A n \in Nat : 0 \in 0 .. n
  OBVIOUS
<1>4. TypeOK
  BY <1>1, <1>2, <1>3 DEF Init, TypeOK
<1> QED
  BY <1>1, <1>2, <1>4 DEF Typed

Places == process \in [Processes -> Process] /\ \A p \in Processes : Placed(process[p])

\* The processes are in their places after a step of one, when it is.
LEMMA ProcessMoves ==
  ASSUME Typed, NEW p \in Processes, NEW new \in Process, Placed(new),
         process' = [process EXCEPT ![p] = new]
  PROVE  Places'
BY DEF Typed, TypeOK, Places

LEMMA ProcessCarries ==
  ASSUME Typed, NEW p \in Processes, NEW place \in Outside \cup Inside,
         NEW token \in Tokens \cup {NoToken}, Carries(p, place, token),
         Placed([process[p] EXCEPT !.at = place, !.token = token])
  PROVE  Places'
<1> DEFINE new == [process[p] EXCEPT !.at = place, !.token = token]
<1>1. new \in Process
  BY DEF Typed, TypeOK, Process
<1>2. process' = [process EXCEPT ![p] = new]
  BY DEF Carries
<1> QED
  BY <1>1, <1>2, ProcessMoves

LEMMA ProcessLeaves ==
  ASSUME Typed, NEW p \in Processes, Leaves(p)
  PROVE  Places'
<1>1. Placed([process[p] EXCEPT !.at = "release", !.token = NoToken])
  BY DEF Typed, TypeOK, Process, Placed
<1> QED
  BY <1>1, ProcessCarries DEF Leaves, Inside

LEMMA ProcessGoes ==
  ASSUME Typed, NEW p \in Processes, NEW place \in Outside \cup Inside, GoesTo(p, place),
         Placed([process[p] EXCEPT !.at = place])
  PROVE  Places'
<1> DEFINE new == [process[p] EXCEPT !.at = place]
<1>1. new \in Process
  BY DEF Typed, TypeOK, Process
<1>2. process' = [process EXCEPT ![p] = new]
  BY DEF GoesTo
<1> QED
  BY <1>1, <1>2, ProcessMoves

LEMMA ProcessEnds ==
  ASSUME Typed, NEW p \in Processes, Ends(p)
  PROVE  Places'
<1>1. Placed(NotRunning)
  BY DEF NotRunning, Placed
<1> QED
  BY <1>1, NotRunningTyped, ProcessMoves DEF Ends

LEMMA TypeStep == Typed /\ [Next]_vars => Typed'
<1> SUFFICES ASSUME Typed, [Next]_vars PROVE Typed'
  OBVIOUS
<1> DEFINE Rest ==
      /\ file \in File \cup {NoFile}
      /\ lock \in Lock \cup {NoLock}
      /\ live \subseteq Tokens /\ gone \subseteq Tokens
      /\ logins \in 0 .. MaxLogins
      /\ signedOut \subseteq 1 .. MaxLogins
      /\ raced \in BOOLEAN /\ overrun \in BOOLEAN
      /\ faults \in 0 .. MaxFaults
<1>a. Typed' <=> Rest' /\ Places'
  BY DEF Typed, TypeOK, Placed, Places
<1>b. Rest /\ Places
  BY DEF Typed, TypeOK, Placed, Places
<1>c. \A p \in Processes : process[p] \in Process /\ Placed(process[p])
  BY <1>b DEF Places
<1> SUFFICES Rest' /\ Places'
  BY <1>a
<1> USE DEF server, history, Faulty
<1>1. ASSUME NEW p \in Processes, NEW command \in Commands, NEW url \in Urls, Start(p, command, url) PROVE Rest' /\ Places'
  <2> DEFINE new == [at |-> IF command = "login" THEN "device" ELSE "acquire",
                    command |-> command, url |-> url, token |-> NoToken, waited |-> 0]
  <2>1. new \in Process /\ Placed(new)
    BY DEF Process, Outside, Placed, Commands
  <2>2. process' = [process EXCEPT ![p] = new]
    BY <1>1 DEF Start
  <2> HIDE DEF new
  <2>3. Places'
    BY <2>1, <2>2, ProcessMoves
  <2> QED
    BY <1>1, <1>b, <2>3 DEF Start
<1>2. ASSUME NEW p \in Processes, Approved(p) PROVE Rest' /\ Places'
  <2>1. <<logins + 1, 0>> \in Tokens
    BY <1>2, <1>b DEF Approved, Tokens
  <2>2. process[p].command = "login"
    BY <1>2, <1>c DEF Approved, At, Placed
  <2>3. Places'
    BY <1>2, <2>1, <2>2, <1>c, ProcessCarries DEF Approved, Outside, Placed, Process
  <2> QED
    BY <1>2, <1>b, <2>1, <2>3 DEF Approved
<1>3. ASSUME NEW p \in Processes, NotApproved(p) PROVE Rest' /\ Places'
  BY <1>3, <1>b, ProcessEnds DEF NotApproved
<1>4. ASSUME NEW p \in Processes, MakeLock(p) PROVE Rest' /\ Places'
  <2> DEFINE new == [process[p] EXCEPT
                    !.at = IF Does(p, "login") THEN "write" ELSE "read", !.waited = 0]
  <2>0. process[p] \in Process /\ process[p].at = "acquire" /\ Placed(process[p])
    BY <1>4, <1>c DEF MakeLock, Makes, At
  <2>1. new \in Process /\ Placed(new)
    <3>1. 0 \in 0 .. LockTimeout
      OBVIOUS
    <3>2. new \in Process
      BY <2>0, <3>1 DEF Process, Inside
    <3>3. Placed(new)
      <4>1. CASE Does(p, "login")
        BY <2>0, <4>1 DEF Does, Process, Placed
      <4>2. CASE ~ Does(p, "login")
        BY <2>0, <4>2 DEF Does, Process, Placed
      <4> QED
        BY <4>1, <4>2
    <3> QED
      BY <3>2, <3>3
  <2>2. process' = [process EXCEPT ![p] = new]
    BY <1>4 DEF MakeLock
  <2> HIDE DEF new
  <2>3. Places'
    BY <2>1, <2>2, ProcessMoves
  <2> QED
    BY <1>4, <1>b, <2>3 DEF MakeLock, Lock
<1>5. ASSUME NEW p \in Processes, FindStale(p) PROVE Rest' /\ Places'
  <2>1. Places'
    BY <1>5, <1>c, ProcessGoes DEF FindStale, Outside, Placed, Process, At
  <2> QED
    BY <1>5, <1>b, <2>1 DEF FindStale
<1>6. ASSUME NEW p \in Processes, LockNotAcquired(p) PROVE Rest' /\ Places'
  BY <1>6, <1>b, ProcessEnds DEF LockNotAcquired
<1>7. ASSUME NEW p \in Processes, BreakLock(p) PROVE Rest' /\ Places'
  <2>1. Places'
    BY <1>7, <1>c, ProcessGoes DEF BreakLock, Outside, Placed, Process, At
  <2> QED
    BY <1>7, <1>b, <2>1 DEF BreakLock
<1>8. ASSUME NEW p \in Processes, BreakFails(p) PROVE Rest' /\ Places'
  <2>1. Places'
    BY <1>8, <1>c, ProcessGoes DEF BreakFails, Outside, Placed, Process, At
  <2> QED
    BY <1>8, <1>b, <2>1 DEF BreakFails
<1>9. ASSUME NEW p \in Processes, ReadCredentials(p) PROVE Rest' /\ Places'
  <2>1. CASE Leaves(p)
    BY <1>9, <1>b, <2>1, ProcessLeaves DEF ReadCredentials
  <2>2. CASE ~ Leaves(p)
    <3>1. file.token \in Tokens /\ process[p].command # "login"
      BY <1>9, <1>b, <1>c, <2>2 DEF ReadCredentials, IsFor, File, At, Placed
    <3>2. PICK place \in {"refresh", "revoke"} : Carries(p, place, file.token)
      BY <1>9, <2>2 DEF ReadCredentials
    <3>3. Placed([process[p] EXCEPT !.at = place, !.token = file.token])
      BY <1>c, <3>1 DEF Process, Placed
    <3>4. Places'
      BY <3>1, <3>2, <3>3, ProcessCarries DEF Inside
    <3> QED
      BY <1>9, <1>b, <3>4 DEF ReadCredentials
  <2> QED
    BY <2>1, <2>2
<1>10. ASSUME NEW p \in Processes, RefreshRefused(p) PROVE Rest' /\ Places'
  BY <1>10, <1>b, ProcessLeaves DEF RefreshRefused
<1>11. ASSUME NEW p \in Processes, NEW rotates \in BOOLEAN, NEW answered \in BOOLEAN, Refresh(p, rotates, answered) PROVE Rest' /\ Places'
  <2> DEFINE next == IF rotates THEN Successor(process[p].token) ELSE process[p].token
  <2>1. next \in Tokens /\ process[p].token \in Tokens
    BY <1>11, <1>b DEF Refresh
  <2>2. /\ live' = (live \ {process[p].token}) \cup {next}
        /\ IF answered THEN Carries(p, "write", next) /\ UNCHANGED <<gone, faults>>
           ELSE /\ Leaves(p) /\ gone' = gone \cup ({process[p].token} \ {next})
                /\ faults < MaxFaults /\ faults' = faults + 1
        /\ UNCHANGED <<file, lock, logins, signedOut, raced, overrun>>
    BY <1>11 DEF Refresh
  <2> HIDE DEF next
  <2>3. Placed([process[p] EXCEPT !.at = "write", !.token = next])
    BY <1>c, <2>1 DEF Process, Placed
  <2>4. Places'
    BY <2>1, <2>2, <2>3, ProcessCarries, ProcessLeaves DEF Inside
  <2> QED
    BY <1>b, <2>1, <2>2, <2>4
<1>12. ASSUME NEW p \in Processes, NEW answered \in BOOLEAN, Revoke(p, answered) PROVE Rest' /\ Places'
  <2>1. Placed([process[p] EXCEPT !.at = "remove"]) /\ process[p].token \in Tokens
    BY <1>12, <1>c DEF Revoke, At, Process, Placed
  <2>2. Places'
    BY <1>12, <2>1, ProcessLeaves, ProcessGoes DEF Revoke, Inside
  <2> QED
    BY <1>12, <1>b, <2>1, <2>2 DEF Revoke
<1>13. ASSUME NEW p \in Processes, Fails(p) PROVE Rest' /\ Places'
  BY <1>13, <1>b, ProcessLeaves DEF Fails, AfterFailure
<1>14. ASSUME NEW p \in Processes, Write(p) PROVE Rest' /\ Places'
  <2>1. file' \in File
    BY <1>14, <1>c DEF Write, At, File, Placed, Process
  <2>2. Places'
    BY <1>14, ProcessLeaves DEF Write
  <2> QED
    BY <1>14, <1>b, <2>1, <2>2 DEF Write
<1>15. ASSUME NEW p \in Processes, Remove(p) PROVE Rest' /\ Places'
  <2>1. process[p].token[1] \in 1 .. MaxLogins
    BY <1>15, <1>c DEF Remove, At, Placed, Tokens
  <2>2. Places'
    BY <1>15, ProcessLeaves DEF Remove
  <2> QED
    BY <1>15, <1>b, <2>1, <2>2 DEF Remove
<1>16. ASSUME NEW p \in Processes, FileFails(p) PROVE Rest' /\ Places'
  <2>1. file # NoFile => file.token \in Tokens
    BY <1>b DEF File
  <2>2. Places'
    BY <1>16, ProcessLeaves DEF FileFails
  <2> QED
    BY <1>16, <1>b, <2>1, <2>2 DEF FileFails
<1>17. ASSUME NEW p \in Processes, Release(p) PROVE Rest' /\ Places'
  BY <1>17, <1>b, ProcessEnds DEF Release
<1>18. ASSUME NEW p \in Processes, Kill(p) PROVE Rest' /\ Places'
  <2>1. file # NoFile => file.token \in Tokens
    BY <1>b DEF File
  <2>2. Places'
    BY <1>18, ProcessEnds DEF Kill
  <2> QED
    BY <1>18, <1>b, <2>1, <2>2 DEF Kill
<1>19. ASSUME AccessTokenExpires PROVE Rest' /\ Places'
  BY <1>19, <1>b DEF AccessTokenExpires, File, Places
<1>20. ASSUME NEW t \in Tokens, ServerEnds(t) PROVE Rest' /\ Places'
  BY <1>20, <1>b DEF ServerEnds, Places
<1>21. ASSUME Tick PROVE Rest' /\ Places'
  BY <1>21, <1>b DEF Tick, IsStale, Lock, Places, Process, Placed, At
<1>22. CASE UNCHANGED vars
  BY <1>22, <1>b DEF vars, Places
<1> HIDE DEF Rest
<1> QED
  BY <1>1, <1>2, <1>3, <1>4, <1>5, <1>6, <1>7, <1>8, <1>9, <1>10, <1>11, <1>12, <1>13, <1>14, <1>15, <1>16, <1>17, <1>18, <1>19, <1>20, <1>21, <1>22 DEF Next, Step

-----------------------------------------------------------------------------
(* The lock.                                                               *)

LEMMA OwnersAreAlone == ASSUME \A p \in Processes : OwnsLock(p) PROVE Lone
BY DEF OwnsLock, Lone

\* A lock that is not taken stays with the one who works under it.
LEMMA OwnersStep ==
  ASSUME Typed, \A p \in Processes : OwnsLock(p), Next, Undisturbed'
  PROVE  (\A p \in Processes : OwnsLock(p))'
<1> SUFFICES ASSUME NEW o \in Processes PROVE OwnsLock(o)'
  OBVIOUS
<1>a. /\ process \in [Processes -> Process]
      /\ lock # NoLock => lock \in Lock
  BY DEF Typed, TypeOK
<1>b. NotRunning.at = "idle"
  BY DEF NotRunning
<1> USE <1>a DEF OwnsLock, At, Does, GoesTo, Carries, Leaves, Ends, Inside
<1>1. ASSUME NEW p \in Processes, NEW command \in Commands, NEW url \in Urls, Start(p, command, url) PROVE OwnsLock(o)'
  BY <1>1, <1>b DEF Start
<1>2. ASSUME NEW p \in Processes, Approved(p) PROVE OwnsLock(o)'
  BY <1>2, <1>b DEF Approved, Tokens
<1>3. ASSUME NEW p \in Processes, NotApproved(p) PROVE OwnsLock(o)'
  BY <1>3, <1>b DEF NotApproved
<1>4. ASSUME NEW p \in Processes, MakeLock(p) PROVE OwnsLock(o)'
  BY <1>4, <1>b DEF MakeLock, Makes, Lock
<1>5. ASSUME NEW p \in Processes, FindStale(p) PROVE OwnsLock(o)'
  BY <1>5, <1>b DEF FindStale, IsStale
<1>6. ASSUME NEW p \in Processes, LockNotAcquired(p) PROVE OwnsLock(o)'
  BY <1>6, <1>b DEF LockNotAcquired
<1>7. ASSUME NEW p \in Processes, BreakLock(p) PROVE OwnsLock(o)'
  <2>1. lock = NoLock \/ ~ Holding(o)
    BY <1>7 DEF BreakLock, Undisturbed
  <2>2. process[o].at \notin Inside
    BY <2>1 DEF Holding
  <2> QED
    BY <1>7, <2>2 DEF BreakLock
<1>8. ASSUME NEW p \in Processes, BreakFails(p) PROVE OwnsLock(o)'
  BY <1>8, <1>b DEF BreakFails
<1>9. ASSUME NEW p \in Processes, ReadCredentials(p) PROVE OwnsLock(o)'
  BY <1>9, <1>b DEF ReadCredentials, IsFor
<1>10. ASSUME NEW p \in Processes, RefreshRefused(p) PROVE OwnsLock(o)'
  BY <1>10, <1>b DEF RefreshRefused
<1>11. ASSUME NEW p \in Processes, NEW rotates \in BOOLEAN, NEW answered \in BOOLEAN, Refresh(p, rotates, answered) PROVE OwnsLock(o)'
  BY <1>11, <1>b DEF Refresh, Successor
<1>12. ASSUME NEW p \in Processes, NEW answered \in BOOLEAN, Revoke(p, answered) PROVE OwnsLock(o)'
  BY <1>12, <1>b DEF Revoke
<1>13. ASSUME NEW p \in Processes, Fails(p) PROVE OwnsLock(o)'
  BY <1>13, <1>b DEF Fails, AfterFailure
<1>14. ASSUME NEW p \in Processes, Write(p) PROVE OwnsLock(o)'
  BY <1>14, <1>b DEF Write
<1>15. ASSUME NEW p \in Processes, Remove(p) PROVE OwnsLock(o)'
  BY <1>15, <1>b DEF Remove
<1>16. ASSUME NEW p \in Processes, FileFails(p) PROVE OwnsLock(o)'
  BY <1>16, <1>b DEF FileFails
<1>17. ASSUME NEW p \in Processes, Release(p) PROVE OwnsLock(o)'
  BY <1>17, <1>b DEF Release
<1>18. ASSUME NEW p \in Processes, Kill(p) PROVE OwnsLock(o)'
  BY <1>18, <1>b DEF Kill
<1>19. ASSUME AccessTokenExpires PROVE OwnsLock(o)'
  BY <1>19 DEF AccessTokenExpires
<1>20. ASSUME NEW t \in Tokens, ServerEnds(t) PROVE OwnsLock(o)'
  BY <1>20 DEF ServerEnds
<1>21. ASSUME Tick PROVE OwnsLock(o)'
  BY <1>21 DEF Tick, IsStale, Lock, Holding
<1> QED
  BY <1>1, <1>2, <1>3, <1>4, <1>5, <1>6, <1>7, <1>8, <1>9, <1>10, <1>11, <1>12, <1>13, <1>14, <1>15, <1>16, <1>17, <1>18, <1>19, <1>20, <1>21 DEF Next, Step

-----------------------------------------------------------------------------
(* The tokens.                                                             *)

\* What a step's record is, and that the others stay.
Becomes(p, place, token) ==
  /\ process'[p].at = place /\ process'[p].token = token
  /\ process'[p].command = process[p].command
  /\ \A q \in Processes \ {p} : process'[q] = process[q]

\* While one works under the lock, the others can only carry sign-ins.
OthersSignIn(p) ==
  \A q \in Processes \ {p} :
    /\ process[q].at \notin {"refresh", "revoke", "write", "remove"}
    /\ Carried(q) # NoToken => SignsIn(q) /\ Carried(q) # Carried(p)

LEMMA OthersAreOutside ==
  ASSUME Typed, Lone, TokensInv, NEW p \in Processes, process[p].at \in Inside
  PROVE  OthersSignIn(p)
<1> SUFFICES ASSUME NEW q \in Processes \ {p}
             PROVE  /\ process[q].at \notin {"refresh", "revoke", "write", "remove"}
                    /\ Carried(q) # NoToken => SignsIn(q) /\ Carried(q) # Carried(p)
  BY DEF OthersSignIn
<1>1. process[q].at \notin Inside /\ process[q] \in Process /\ Placed(process[q])
  BY DEF Lone, Typed, TypeOK
<1>2. Carried(q) # NoToken => SignsIn(q)
  BY <1>1 DEF Placed, Process, Outside, Inside, Carried, SignsIn, Does
<1>3. SignsIn(q) => Carried(q) # Carried(p)
  BY DEF TokensInv, SignInIsApart, SignsIn
<1> QED
  BY <1>1, <1>2, <1>3 DEF Inside

LEMMA CarriesBecomes ==
  ASSUME Typed, NEW p \in Processes, NEW place, NEW token, Carries(p, place, token)
  PROVE  Becomes(p, place, token)
BY DEF Typed, TypeOK, Process, Carries, Becomes

LEMMA GoesBecomes ==
  ASSUME Typed, NEW p \in Processes, NEW place, GoesTo(p, place)
  PROVE  Becomes(p, place, process[p].token)
BY DEF Typed, TypeOK, Process, GoesTo, Becomes

LEMMA TokensStep ==
  ASSUME Typed, Lone, TokensInv, Next
  PROVE  TokensInv'
<1>a. /\ process \in [Processes -> Process]
      /\ \A q \in Processes : Placed(process[q])
      /\ file \in File \cup {NoFile}
      /\ live \subseteq Tokens /\ gone \subseteq Tokens /\ logins \in Nat
  BY DEF Typed, TypeOK
<1>b. NotRunning.at = "idle" /\ NotRunning.token = NoToken
  BY DEF NotRunning
<1> USE <1>a DEF TokensInv, WorksOnFile, CarriesKnown, SignInIsApart, SignInsCounted, FileIsKnown,
  Placed, Known, Carried, SignsIn, At, Does, GoesTo, Carries, Leaves, Ends, server, history
<1>1. ASSUME NEW p \in Processes, NEW command \in Commands, NEW url \in Urls, Start(p, command, url) PROVE TokensInv'
  BY <1>1, <1>b DEF Start
<1>2. ASSUME NEW p \in Processes, Approved(p) PROVE TokensInv'
  <2>a. <<logins + 1, 0>> \in Tokens /\ <<logins + 1, 0>>[1] = logins + 1
    BY <1>2 DEF Approved, Tokens, Typed, TypeOK
  <2>b. Becomes(p, "acquire", <<logins + 1, 0>>)
    BY <1>2, CarriesBecomes DEF Approved
  <2>c. /\ At(p, "device") /\ Does(p, "login") /\ live' = live \cup {<<logins + 1, 0>>}
        /\ logins' = logins + 1 /\ UNCHANGED <<file, gone, signedOut>>
    BY <1>2 DEF Approved
  <2>d. /\ file # NoFile => file.token[1] \in Nat
        /\ \A q \in Processes : Carried(q) # NoToken => Carried(q)[1] \in Nat
    BY DEF File, Process, Tokens, Typed, TypeOK
  <2>1. \A q \in Processes : WorksOnFile(q)'
    BY <2>a, <2>b, <2>c, <2>d DEF Becomes
  <2>2. \A q \in Processes : CarriesKnown(q)'
    BY <2>a, <2>b, <2>c, <2>d DEF Becomes
  <2>3. \A q \in Processes : SignInIsApart(q)'
    BY <2>a, <2>b, <2>c, <2>d DEF Becomes
  <2>4. SignInsCounted'
    BY <2>a, <2>b, <2>c, <2>d DEF Becomes
  <2>5. FileIsKnown'
    BY <2>a, <2>b, <2>c, <2>d DEF Becomes
  <2> QED
    BY <2>1, <2>2, <2>3, <2>4, <2>5
<1>3. ASSUME NEW p \in Processes, NotApproved(p) PROVE TokensInv'
  BY <1>3, <1>b DEF NotApproved
<1>4. ASSUME NEW p \in Processes, MakeLock(p) PROVE TokensInv'
  BY <1>4, <1>b DEF MakeLock, Makes
<1>5. ASSUME NEW p \in Processes, FindStale(p) PROVE TokensInv'
  BY <1>5, <1>b DEF FindStale, IsStale
<1>6. ASSUME NEW p \in Processes, LockNotAcquired(p) PROVE TokensInv'
  BY <1>6, <1>b DEF LockNotAcquired, TimesOut
<1>7. ASSUME NEW p \in Processes, BreakLock(p) PROVE TokensInv'
  BY <1>7, <1>b DEF BreakLock
<1>8. ASSUME NEW p \in Processes, BreakFails(p) PROVE TokensInv'
  BY <1>8, <1>b DEF BreakFails
<1>9. ASSUME NEW p \in Processes, ReadCredentials(p) PROVE TokensInv'
  <2>1. CASE Leaves(p)
    BY <1>9, <2>1 DEF ReadCredentials
  <2>2. CASE ~ Leaves(p)
    <3>a. file # NoFile /\ file.token \in Tokens /\ ~ Does(p, "login") /\ At(p, "read")
      BY <1>9, <2>2 DEF ReadCredentials, IsFor, File
    <3>b. PICK place \in {"refresh", "revoke"} : Becomes(p, place, file.token)
      BY <1>9, <2>2, CarriesBecomes DEF ReadCredentials
    <3>c. UNCHANGED <<file, live, logins, gone, signedOut>>
      BY <1>9 DEF ReadCredentials
    <3>d. OthersSignIn(p)
      BY <3>a, OthersAreOutside DEF Inside, At
    <3>1. \A q \in Processes : WorksOnFile(q)'
      BY <3>a, <3>b, <3>c, <3>d DEF Becomes, OthersSignIn
    <3>2. \A q \in Processes : CarriesKnown(q)'
      BY <3>a, <3>b, <3>c, <3>d DEF Becomes, OthersSignIn
    <3>3. \A q \in Processes : SignInIsApart(q)'
      BY <3>a, <3>b, <3>c, <3>d DEF Becomes, OthersSignIn
    <3>4. SignInsCounted'
      BY <3>a, <3>b, <3>c, <3>d DEF Becomes, OthersSignIn
    <3>5. FileIsKnown'
      BY <3>a, <3>b, <3>c, <3>d DEF Becomes, OthersSignIn
    <3> QED
      BY <3>1, <3>2, <3>3, <3>4, <3>5
  <2> QED
    BY <2>1, <2>2
<1>10. ASSUME NEW p \in Processes, RefreshRefused(p) PROVE TokensInv'
  BY <1>10, <1>b DEF RefreshRefused
<1>11. ASSUME NEW p \in Processes, NEW rotates \in BOOLEAN, NEW answered \in BOOLEAN, Refresh(p, rotates, answered) PROVE TokensInv'
  <2> DEFINE t == process[p].token
             next == IF rotates THEN Successor(t) ELSE t
  <2>a. /\ At(p, "refresh") /\ ~ Does(p, "login")
        /\ t \in Tokens /\ next \in Tokens /\ next[1] = t[1]
        /\ t = file.token /\ file # NoFile /\ t # NoToken
    BY <1>11 DEF Refresh, Successor
  <2>b. live' = (live \ {t}) \cup {next} /\ UNCHANGED <<file, logins, signedOut>>
    BY <1>11 DEF Refresh
  <2> HIDE DEF next
  <2>c. OthersSignIn(p)
    BY <2>a, <1>a, OthersAreOutside DEF Inside, At
  <2>d. CASE answered
    <3>a. Becomes(p, "write", next) /\ gone' = gone
      BY <1>11, <2>d, CarriesBecomes DEF Refresh, next
    <3>1. \A q \in Processes : WorksOnFile(q)'
      BY <2>a, <2>b, <2>c, <3>a DEF Becomes, OthersSignIn
    <3>2. \A q \in Processes : CarriesKnown(q)'
      BY <2>a, <2>b, <2>c, <3>a DEF Becomes, OthersSignIn
    <3>3. \A q \in Processes : SignInIsApart(q)'
      BY <2>a, <2>b, <2>c, <3>a DEF Becomes, OthersSignIn
    <3>4. SignInsCounted'
      BY <2>a, <2>b, <2>c, <3>a DEF Becomes, OthersSignIn
    <3>5. FileIsKnown'
      BY <2>a, <2>b, <2>c, <3>a DEF Becomes, OthersSignIn
    <3> QED
      BY <3>1, <3>2, <3>3, <3>4, <3>5
  <2>e. CASE ~ answered
    <3>a. Becomes(p, "release", NoToken) /\ gone' = gone \cup ({t} \ {next})
      BY <1>11, <2>e, CarriesBecomes DEF Refresh, next
    <3>1. \A q \in Processes : WorksOnFile(q)'
      BY <2>a, <2>b, <2>c, <3>a DEF Becomes, OthersSignIn
    <3>2. \A q \in Processes : CarriesKnown(q)'
      BY <2>a, <2>b, <2>c, <3>a DEF Becomes, OthersSignIn
    <3>3. \A q \in Processes : SignInIsApart(q)'
      BY <2>a, <2>b, <2>c, <3>a DEF Becomes, OthersSignIn
    <3>4. SignInsCounted'
      BY <2>a, <2>b, <2>c, <3>a DEF Becomes, OthersSignIn
    <3>5. FileIsKnown'
      BY <2>a, <2>b, <2>c, <3>a DEF Becomes, OthersSignIn
    <3> QED
      BY <3>1, <3>2, <3>3, <3>4, <3>5
  <2> QED
    BY <2>d, <2>e
<1>12. ASSUME NEW p \in Processes, NEW answered \in BOOLEAN, Revoke(p, answered) PROVE TokensInv'
  <2> DEFINE t == process[p].token
  <2>a. /\ At(p, "revoke") /\ ~ Does(p, "login")
        /\ t \in Tokens /\ t = file.token /\ file # NoFile /\ t # NoToken
    BY <1>12 DEF Revoke
  <2>b. live' = live \ {t} /\ UNCHANGED <<file, logins, signedOut>>
    BY <1>12 DEF Revoke
  <2>c. OthersSignIn(p)
    BY <2>a, <1>a, OthersAreOutside DEF Inside, At
  <2>d. CASE answered
    <3>a. Becomes(p, "remove", t) /\ gone' = gone
      BY <1>12, <2>d, GoesBecomes DEF Revoke
    <3>1. \A q \in Processes : WorksOnFile(q)'
      BY <2>a, <2>b, <2>c, <3>a DEF Becomes, OthersSignIn
    <3>2. \A q \in Processes : CarriesKnown(q)'
      BY <2>a, <2>b, <2>c, <3>a DEF Becomes, OthersSignIn
    <3>3. \A q \in Processes : SignInIsApart(q)'
      BY <2>a, <2>b, <2>c, <3>a DEF Becomes, OthersSignIn
    <3>4. SignInsCounted'
      BY <2>a, <2>b, <2>c, <3>a DEF Becomes, OthersSignIn
    <3>5. FileIsKnown'
      BY <2>a, <2>b, <2>c, <3>a DEF Becomes, OthersSignIn
    <3> QED
      BY <3>1, <3>2, <3>3, <3>4, <3>5
  <2>e. CASE ~ answered
    <3>a. Becomes(p, "release", NoToken) /\ gone' = gone \cup {t}
      BY <1>12, <2>e, CarriesBecomes DEF Revoke
    <3>1. \A q \in Processes : WorksOnFile(q)'
      BY <2>a, <2>b, <2>c, <3>a DEF Becomes, OthersSignIn
    <3>2. \A q \in Processes : CarriesKnown(q)'
      BY <2>a, <2>b, <2>c, <3>a DEF Becomes, OthersSignIn
    <3>3. \A q \in Processes : SignInIsApart(q)'
      BY <2>a, <2>b, <2>c, <3>a DEF Becomes, OthersSignIn
    <3>4. SignInsCounted'
      BY <2>a, <2>b, <2>c, <3>a DEF Becomes, OthersSignIn
    <3>5. FileIsKnown'
      BY <2>a, <2>b, <2>c, <3>a DEF Becomes, OthersSignIn
    <3> QED
      BY <3>1, <3>2, <3>3, <3>4, <3>5
  <2> QED
    BY <2>d, <2>e
<1>13. ASSUME NEW p \in Processes, Fails(p) PROVE TokensInv'
  BY <1>13, <1>b DEF Fails, AfterFailure
<1>14. ASSUME NEW p \in Processes, Write(p) PROVE TokensInv'
  <2>a. /\ At(p, "write") /\ Carried(p) \in Tokens
        /\ file'.token = Carried(p) /\ UNCHANGED <<live, logins, gone, signedOut>>
    BY <1>14 DEF Write
  <2>b. Becomes(p, "release", NoToken)
    BY <1>14, CarriesBecomes DEF Write
  <2>c. OthersSignIn(p)
    BY <2>a, <1>a, OthersAreOutside DEF Inside, At
  <2>1. \A q \in Processes : WorksOnFile(q)'
    BY <2>a, <2>b, <2>c DEF Becomes, OthersSignIn
  <2>2. \A q \in Processes : CarriesKnown(q)'
    BY <2>a, <2>b, <2>c DEF Becomes, OthersSignIn
  <2>3. \A q \in Processes : SignInIsApart(q)'
    BY <2>a, <2>b, <2>c DEF Becomes, OthersSignIn
  <2>4. SignInsCounted'
    BY <2>a, <2>b, <2>c DEF Becomes, OthersSignIn
  <2>5. FileIsKnown'
    BY <2>a, <2>b, <2>c DEF Becomes, OthersSignIn
  <2> QED
    BY <2>1, <2>2, <2>3, <2>4, <2>5
<1>15. ASSUME NEW p \in Processes, Remove(p) PROVE TokensInv'
  <2>a. /\ At(p, "remove") /\ Carried(p) \in Tokens /\ Carried(p)[1] \in Nat \ {0}
        /\ file # NoFile /\ Carried(p) = file.token /\ file' = NoFile
        /\ signedOut' = signedOut \cup {Carried(p)[1]} /\ UNCHANGED <<live, logins, gone>>
    BY <1>15 DEF Remove, Tokens
  <2>b. Becomes(p, "release", NoToken)
    BY <1>15, CarriesBecomes DEF Remove
  <2>c. OthersSignIn(p)
    BY <2>a, <1>a, OthersAreOutside DEF Inside, At
  <2>d. /\ signedOut' \subseteq 1 .. logins'
        /\ \A q \in Processes \ {p} : SignsIn(q) => Carried(q)[1] # Carried(p)[1]
    <3>1. Carried(p)[1] \in 1 .. logins /\ signedOut \subseteq 1 .. logins
      BY <2>a
    <3>2. ASSUME NEW q \in Processes \ {p}, SignsIn(q)
          PROVE  Carried(q)[1] # Carried(p)[1]
      BY <2>a, <3>2
    <3> QED
      BY <2>a, <3>1, <3>2
  <2>1. \A q \in Processes : WorksOnFile(q)'
    BY <2>a, <2>b, <2>c DEF Becomes, OthersSignIn
  <2>2. \A q \in Processes : CarriesKnown(q)'
    BY <2>a, <2>b, <2>c DEF Becomes, OthersSignIn
  <2>3. \A q \in Processes : SignInIsApart(q)'
    BY <2>a, <2>b, <2>c DEF Becomes, OthersSignIn
  <2>4. SignInsCounted'
    BY <2>a, <2>b, <2>c, <2>d DEF Becomes, OthersSignIn
  <2>5. FileIsKnown'
    BY <2>a, <2>b, <2>c DEF Becomes, OthersSignIn
  <2> QED
    BY <2>1, <2>2, <2>3, <2>4, <2>5
<1>16. ASSUME NEW p \in Processes, FileFails(p) PROVE TokensInv'
  BY <1>16, <1>b DEF FileFails
<1>17. ASSUME NEW p \in Processes, Release(p) PROVE TokensInv'
  BY <1>17, <1>b DEF Release
<1>18. ASSUME NEW p \in Processes, Kill(p) PROVE TokensInv'
  BY <1>18, <1>b DEF Kill
<1>19. ASSUME AccessTokenExpires PROVE TokensInv'
  <2>a. file' # NoFile /\ file'.token = file.token
    BY <1>19 DEF AccessTokenExpires, File
  <2>1. \A q \in Processes : WorksOnFile(q)'
    BY <1>19, <2>a DEF AccessTokenExpires
  <2>2. \A q \in Processes : CarriesKnown(q)'
    BY <1>19, <2>a DEF AccessTokenExpires
  <2>3. \A q \in Processes : SignInIsApart(q)'
    BY <1>19, <2>a DEF AccessTokenExpires
  <2>4. SignInsCounted'
    BY <1>19, <2>a DEF AccessTokenExpires
  <2>5. FileIsKnown'
    BY <1>19, <2>a DEF AccessTokenExpires
  <2> QED
    BY <2>1, <2>2, <2>3, <2>4, <2>5
<1>20. ASSUME NEW t \in Tokens, ServerEnds(t) PROVE TokensInv'
  BY <1>20 DEF ServerEnds
<1>21. ASSUME Tick PROVE TokensInv'
  BY <1>21 DEF Tick
<1> QED
  BY <1>1, <1>2, <1>3, <1>4, <1>5, <1>6, <1>7, <1>8, <1>9, <1>10, <1>11, <1>12, <1>13, <1>14, <1>15, <1>16, <1>17, <1>18, <1>19, <1>20, <1>21 DEF Next, Step

-----------------------------------------------------------------------------
(* The invariant.                                                          *)

LEMMA InvStart == Init => IInv
<1> SUFFICES ASSUME Init PROVE LockInv
  BY TypeStart DEF IInv
<1>1. \A p \in Processes : process[p] = NotRunning
  BY DEF Init
<1>2. NotRunning.at = "idle" /\ NotRunning.token = NoToken
  BY DEF NotRunning
<1>3. file = NoFile /\ signedOut = {} /\ logins = 0
  BY DEF Init
<1> QED
  BY <1>1, <1>2, <1>3
  DEF LockInv, OwnsLock, TokensInv, WorksOnFile, CarriesKnown, SignInIsApart,
      SignInsCounted, FileIsKnown, Carried, SignsIn, At, Does, Inside

\* That a lock was taken is never forgotten.
LEMMA DisturbedStays ==
  ASSUME TypeOK, Next, Undisturbed'
  PROVE  Undisturbed
BY DEF Next, Step, Start, Approved, NotApproved, MakeLock, FindStale, LockNotAcquired,
       BreakLock, BreakFails, ReadCredentials, RefreshRefused, Refresh, Revoke, Fails,
       Write, Remove, FileFails, Release, Kill, AccessTokenExpires, ServerEnds, Tick,
       history, Undisturbed, TypeOK

LEMMA InvStep == IInv /\ [Next]_vars => IInv'
<1> SUFFICES ASSUME IInv, [Next]_vars PROVE (Undisturbed => LockInv)'
  BY TypeStep DEF IInv
<1>1. CASE UNCHANGED vars
  <2>1. Undisturbed => LockInv
    BY DEF IInv
  <2> QED
    BY <1>1, <2>1
    DEF vars, server, history, LockInv, OwnsLock, TokensInv, WorksOnFile, CarriesKnown,
        SignInIsApart, SignInsCounted, FileIsKnown, Known, Carried, SignsIn, At, Does,
        Undisturbed
<1>2. CASE Next /\ Undisturbed'
  <2>1. Undisturbed /\ Typed
    BY <1>2, DisturbedStays DEF IInv, Typed
  <2>2. LockInv
    BY <2>1 DEF IInv
  <2>3. (\A p \in Processes : OwnsLock(p))'
    BY <1>2, <2>1, <2>2, OwnersStep DEF LockInv
  <2>4. TokensInv'
    BY <1>2, <2>1, <2>2, OwnersAreAlone, TokensStep DEF LockInv
  <2> QED
    BY <2>3, <2>4 DEF LockInv
<1> QED
  BY <1>1, <1>2

LEMMA InvHolds == Spec => []IInv
BY InvStart, InvStep, PTL DEF Spec

-----------------------------------------------------------------------------
(* The theorems.                                                           *)

\* Whatever the processes, the server and time do, every variable keeps its
\* type; in particular what is presented, revoked or written is a token.
THEOREM CredentialsTypeCorrect == Spec => []TypeOK
<1>1. IInv => TypeOK
  BY DEF IInv, Typed
<1> QED
  BY <1>1, InvHolds, PTL

\* acquireLock: however many processes wait, overstay or are killed, two are
\* under the lock only after the lock of one still at work was removed as
\* stale, or one made since the stale one was looked at.
THEOREM LockExcludes == Spec => []Exclusive
<1>1. IInv => Exclusive
  BY OwnersAreAlone DEF IInv, LockInv, Exclusive
<1> QED
  BY <1>1, InvHolds, PTL

\* accessToken: until such a removal a token is presented, and kept in the
\* file, only while the server accepts it, except one that was lost on the
\* way or whose sign-in the server has ended.
THEOREM NoTokenUsedUp == Spec => []RefusedOnlyIfLost
<1>1. ASSUME IInv PROVE RefusedOnlyIfLost
  <2> SUFFICES ASSUME Undisturbed PROVE RefusedOnlyIfLost
    BY DEF RefusedOnlyIfLost
  <2>1. /\ \A p \in Processes : CarriesKnown(p) /\ Placed(process[p])
        /\ FileIsKnown
    BY <1>1 DEF IInv, Typed, LockInv, TokensInv
  <2>2. ASSUME NEW p \in Processes, At(p, "refresh") PROVE process[p].token \in Known
    BY <2>1, <2>2 DEF CarriesKnown, Carried, Placed, At
  <2>3. (\A p \in Processes : process[p].at \notin Inside) /\ file # NoFile
          => file.token \in Known
    BY <2>1 DEF FileIsKnown, Inside
  <2> QED
    BY <2>2, <2>3 DEF RefusedOnlyIfLost, Known
<1> QED
  BY <1>1, InvHolds, PTL

\* logout: until such a removal the file never again holds a token of a
\* sign-in that a logout has ended, however many commands were under way.
THEOREM LogoutsAreFinal == Spec => []LogoutIsFinal
<1>1. IInv => LogoutIsFinal
  BY DEF IInv, LockInv, TokensInv, SignInsCounted, LogoutIsFinal
<1> QED
  BY <1>1, InvHolds, PTL

\* logout: until such a removal the file is removed only when the server does
\* not accept its token any more.
THEOREM OnlyRevokedRemoved == Spec => RemovesOnlyRevoked
<1> DEFINE RemovesRevoked == Undisturbed /\ file # NoFile /\ file' = NoFile => file.token \notin live
<1>1. ASSUME IInv, [Next]_vars PROVE [RemovesRevoked]_vars
  <2> SUFFICES ASSUME Next, Undisturbed, file # NoFile, file' = NoFile
               PROVE  file.token \notin live
    BY <1>1
  <2>1. PICK p \in Processes : Remove(p)
    <3>1. ASSUME NEW p \in Processes, Write(p) PROVE FALSE
      <4>1. process[p] \in Process /\ process[p].token \in Tokens
        BY <1>1, <3>1 DEF Write, At, IInv, Typed, TypeOK, Placed
      <4>2. file' \in File
        BY <3>1, <4>1 DEF Write, Process, File
      <4> QED
        BY <4>2
    <3>2. ~ AccessTokenExpires
      BY <1>1 DEF AccessTokenExpires, IInv, Typed, TypeOK, File
    <3> QED
      BY <3>1, <3>2
      DEF Next, Step, Start, Approved, NotApproved, MakeLock, FindStale, LockNotAcquired,
          BreakLock, BreakFails, ReadCredentials, RefreshRefused, Refresh, Revoke, Fails,
          FileFails, Release, Kill, ServerEnds, Tick
  <2> QED
    BY <1>1, <2>1
    DEF Remove, At, IInv, LockInv, TokensInv, WorksOnFile, CarriesKnown, Carried
<1> QED
  BY <1>1, InvHolds, PTL DEF Spec, RemovesOnlyRevoked
=============================================================================
