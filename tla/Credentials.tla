----------------------------- MODULE Credentials -----------------------------
(***************************************************************************)
(* The CLI's OAuth credentials: one file in the user's state directory,    *)
(* shared by every umail process, and the lock directory beside it that    *)
(* serialises sign-in, refresh and sign-out.                               *)
(*                                                                         *)
(* A process runs one command.  Between its calls to the file system and   *)
(* the server any other process may run, time may pass, and the process    *)
(* may be interrupted (the lock is released) or killed (it is not).        *)
(*                                                                         *)
(* A refresh token is a pair: the sign-in it descends from, and how often  *)
(* it has been rotated.  Time is counted in ticks and only compared.       *)
(***************************************************************************)
EXTENDS Naturals, FiniteSets

CONSTANTS
  Processes,
  Urls,        \* values of UMAIL_URL
  NoLock,
  NoFile,
  NoToken,
  LockStale,   \* LOCK_STALE
  LockTimeout, \* LOCK_TIMEOUT
  MaxLogins,   \* bound: sign-ins that are approved
  MaxRefresh,  \* bound: rotations of a sign-in's token
  MaxFaults    \* bound: killed processes, lost answers, sign-ins the server ends,
               \* failures of the file system

Tokens == (1 .. MaxLogins) \X (0 .. MaxRefresh)
File == [token : Tokens, url : Urls, fresh : BOOLEAN]
Lock == [owner : Processes, age : 0 .. LockStale + 1]

ASSUME CredentialsAssumption ==
  /\ NoToken \notin Tokens /\ NoFile \notin File /\ NoLock \notin Lock
  /\ LockStale \in Nat /\ LockTimeout \in Nat
  /\ MaxLogins \in Nat /\ MaxRefresh \in Nat /\ MaxFaults \in Nat
  /\ Urls # {}

VARIABLES
  file,      \* oauth.json
  lock,      \* oauth.json.lock
  process,   \* the commands that run
  \* the server
  live,      \* refresh tokens it accepts
  logins,    \* sign-ins so far
  \* history and bounds
  gone,      \* tokens ended without the file learning of it: the answer or
             \* the process was lost, or the server ended the sign-in
  signedOut, \* sign-ins that a logout has ended
  raced,     \* a lock was removed that was not the stale one
  overrun,   \* the stale lock was removed of a process still at work under it
  faults

server == <<live, logins>>
history == <<gone, signedOut, raced, overrun>>
vars == <<file, lock, process, server, history, faults>>

Commands == {"list", "login", "logout"}
\* Before the lock, and under it.
Outside == {"idle", "device", "acquire", "break"}
Inside == {"read", "refresh", "revoke", "write", "remove", "release"}

Process == [at : Outside \cup Inside, command : Commands, url : Urls,
            token : Tokens \cup {NoToken}, waited : 0 .. LockTimeout]

NotRunning == [at |-> "idle", command |-> "list", url |-> CHOOSE u \in Urls : TRUE,
               token |-> NoToken, waited |-> 0]

Init ==
  /\ file = NoFile /\ lock = NoLock
  /\ process = [p \in Processes |-> NotRunning]
  /\ live = {} /\ logins = 0
  /\ gone = {} /\ signedOut = {} /\ raced = FALSE /\ overrun = FALSE
  /\ faults = 0

Faulty == faults < MaxFaults /\ faults' = faults + 1

At(p, place) == process[p].at = place
Does(p, command) == process[p].command = command
GoesTo(p, place) == process' = [process EXCEPT ![p].at = place]
Carries(p, place, token) ==
  process' = [process EXCEPT ![p] = [@ EXCEPT !.at = place, !.token = token]]
Leaves(p) == Carries(p, "release", NoToken)
Ends(p) == process' = [process EXCEPT ![p] = NotRunning]

-----------------------------------------------------------------------------
(* Slips the properties are there to catch; the specification uses none.   *)

\* The lock is made although it exists.
MakesAlways(p) == At(p, "acquire")

\* One waits for the lock however long it takes.
TimesOutNever(p) == FALSE

\* A logout whose revocation failed removes the file all the same.
LeavesAnyway(p) == IF At(p, "revoke") THEN GoesTo(p, "remove") ELSE Leaves(p)

-----------------------------------------------------------------------------
(* A command starts; login waits for the browser without the lock.         *)

Start(p, command, url) ==
  /\ At(p, "idle")
  /\ process' = [process EXCEPT ![p] =
       [at |-> IF command = "login" THEN "device" ELSE "acquire",
        command |-> command, url |-> url, token |-> NoToken, waited |-> 0]]
  /\ UNCHANGED <<file, lock, server, history, faults>>

\* pollForTokens: approved.
Approved(p) ==
  /\ At(p, "device")
  /\ logins < MaxLogins
  /\ logins' = logins + 1
  /\ live' = live \cup {<<logins + 1, 0>>}
  /\ Carries(p, "acquire", <<logins + 1, 0>>)
  /\ UNCHANGED <<file, lock, history, faults>>

\* pollForTokens: denied, expired, given up, or a request that failed.
NotApproved(p) ==
  /\ At(p, "device")
  /\ Ends(p)
  /\ UNCHANGED <<file, lock, server, history, faults>>

-----------------------------------------------------------------------------
(* acquireLock.                                                            *)

\* makeDirectory succeeds for one process.
Makes(p) == At(p, "acquire") /\ lock = NoLock

MakeLock(p) ==
  /\ Makes(p)
  /\ lock' = [owner |-> p, age |-> 0]
  /\ process' = [process EXCEPT ![p] =
       [@ EXCEPT !.at = IF Does(p, "login") THEN "write" ELSE "read", !.waited = 0]]
  /\ UNCHANGED <<file, server, history, faults>>

IsStale == lock # NoLock /\ lock.age > LockStale

Holding(p) == lock # NoLock /\ lock.owner = p /\ process[p].at \in Inside

\* It exists: stat says when it was made.
FindStale(p) ==
  /\ At(p, "acquire") /\ IsStale
  /\ GoesTo(p, "break")
  /\ UNCHANGED <<file, lock, server, history, faults>>

TimesOut(p) ==
  /\ At(p, "acquire") /\ lock # NoLock /\ ~ IsStale
  /\ process[p].waited = LockTimeout

\* OAuthCredentialLockError; a sign-in's tokens are gone.
LockNotAcquired(p) ==
  /\ TimesOut(p)
  /\ Ends(p)
  /\ UNCHANGED <<file, lock, server, history, faults>>

\* The path is removed, whatever is there by now.
BreakLock(p) ==
  /\ At(p, "break")
  /\ lock' = NoLock
  /\ raced' = (raced \/ (lock # NoLock /\ ~ IsStale))
  /\ overrun' = (overrun \/ (IsStale /\ \E q \in Processes : Holding(q)))
  /\ GoesTo(p, "acquire")
  /\ UNCHANGED <<file, server, gone, signedOut, faults>>

\* An error of the removal is ignored, and the removal tried again at once.
BreakFails(p) ==
  /\ At(p, "break")
  /\ GoesTo(p, "acquire")
  /\ UNCHANGED <<file, lock, server, history, faults>>

-----------------------------------------------------------------------------
(* Under the lock.                                                         *)

IsFor(p) == file # NoFile /\ file.url = process[p].url

\* accessToken and logout read the file; without credentials for this
\* server there is nothing to refresh or to revoke.
ReadCredentials(p) ==
  /\ At(p, "read")
  /\ IF ~ IsFor(p) \/ (Does(p, "list") /\ file.fresh) THEN Leaves(p)
     ELSE Carries(p, IF Does(p, "list") THEN "refresh" ELSE "revoke", file.token)
  /\ UNCHANGED <<file, lock, server, history, faults>>

Successor(t) == <<t[1], t[2] + 1>>

\* The token endpoint: a token it does not know is invalid_grant.
RefreshRefused(p) ==
  /\ At(p, "refresh") /\ process[p].token \notin live
  /\ Leaves(p)
  /\ UNCHANGED <<file, lock, server, history, faults>>

\* It may rotate the token or not, and the answer may be lost or unusable.
Refresh(p, rotates, answered) ==
  LET t == process[p].token
      next == IF rotates THEN Successor(t) ELSE t
  IN
  /\ At(p, "refresh") /\ t \in live
  /\ next \in Tokens
  /\ live' = (live \ {t}) \cup {next}
  /\ IF answered THEN Carries(p, "write", next) /\ UNCHANGED <<gone, faults>>
     ELSE Leaves(p) /\ gone' = gone \cup ({t} \ {next}) /\ Faulty
  /\ UNCHANGED <<file, lock, logins, signedOut, raced, overrun>>

\* revokeRefreshToken, which succeeds for a token that is not live either.
Revoke(p, answered) ==
  LET t == process[p].token IN
  /\ At(p, "revoke")
  /\ live' = live \ {t}
  /\ IF answered THEN GoesTo(p, "remove") /\ UNCHANGED <<gone, faults>>
     ELSE Leaves(p) /\ gone' = gone \cup {t} /\ Faulty
  /\ UNCHANGED <<file, lock, logins, signedOut, raced, overrun>>

AfterFailure(p) == Leaves(p)

\* A request that fails before it reached the server, a file that is not
\* safe, or SIGINT, which a write waits out.
Fails(p) ==
  /\ process[p].at \in {"read", "refresh", "revoke"}
  /\ AfterFailure(p)
  /\ UNCHANGED <<file, lock, server, history, faults>>

Write(p) ==
  /\ At(p, "write")
  /\ file' = [token |-> process[p].token, url |-> process[p].url, fresh |-> TRUE]
  /\ Leaves(p)
  /\ UNCHANGED <<lock, server, history, faults>>

Remove(p) ==
  /\ At(p, "remove")
  /\ file' = NoFile
  /\ signedOut' = signedOut \cup {process[p].token[1]}
  /\ Leaves(p)
  /\ UNCHANGED <<lock, server, gone, raced, overrun, faults>>

\* A write or a removal that fails leaves the file as it was.
FileFails(p) ==
  /\ process[p].at \in {"write", "remove"}
  /\ Leaves(p)
  /\ gone' = IF file = NoFile THEN gone ELSE gone \cup {file.token}
  /\ Faulty
  /\ UNCHANGED <<file, lock, server, signedOut, raced, overrun>>

\* The release removes the path too.
Release(p) ==
  /\ At(p, "release")
  /\ lock' = NoLock
  /\ Ends(p)
  /\ UNCHANGED <<file, server, history, faults>>

-----------------------------------------------------------------------------
(* The process's and the server's surroundings.                            *)

Kill(p) ==
  /\ process[p].at # "idle"
  /\ Faulty
  /\ Ends(p)
  /\ gone' = IF process[p].at \in {"write", "remove"} /\ file # NoFile
             THEN gone \cup {file.token} ELSE gone
  /\ UNCHANGED <<file, lock, server, signedOut, raced, overrun>>

AccessTokenExpires ==
  /\ file # NoFile /\ file.fresh
  /\ file' = [file EXCEPT !.fresh = FALSE]
  /\ UNCHANGED <<lock, process, server, history, faults>>

\* The refresh token expires, or the operator revokes the CLI's access.
ServerEnds(t) ==
  /\ t \in live
  /\ live' = live \ {t}
  /\ gone' = gone \cup {t}
  /\ Faulty
  /\ UNCHANGED <<file, lock, process, logins, signedOut, raced, overrun>>

\* Time passes for the lock and for those who wait for it, however far the
\* one under the lock has come: of its two requests the answers' bodies have
\* no timeout, nor have its calls to the file system, and it may be suspended.
Tick ==
  /\ lock' = IF lock # NoLock /\ ~ IsStale THEN [lock EXCEPT !.age = @ + 1] ELSE lock
  /\ process' = [p \in Processes |->
       IF At(p, "acquire") /\ process[p].waited < LockTimeout
       THEN [process[p] EXCEPT !.waited = @ + 1] ELSE process[p]]
  /\ UNCHANGED <<file, server, history, faults>>

-----------------------------------------------------------------------------
Step(p) ==
  \/ Approved(p) \/ NotApproved(p)
  \/ MakeLock(p) \/ FindStale(p) \/ LockNotAcquired(p) \/ BreakLock(p)
  \/ ReadCredentials(p)
  \/ RefreshRefused(p) \/ (\E rotates, answered \in BOOLEAN : Refresh(p, rotates, answered))
  \/ (\E answered \in BOOLEAN : Revoke(p, answered))
  \/ Fails(p) \/ Write(p) \/ Remove(p) \/ FileFails(p) \/ Release(p)

Next ==
  \/ \E p \in Processes :
       \/ Step(p) \/ BreakFails(p) \/ Kill(p)
       \/ \E command \in Commands, url \in Urls : Start(p, command, url)
  \/ AccessTokenExpires
  \/ \E t \in Tokens : ServerEnds(t)
  \/ Tick

Spec == Init /\ [][Next]_vars

\* A process that runs goes on, time passes, and a stale lock can be removed in
\* the end: while it cannot, acquireLock tries without a deadline.  It does too
\* while every lock that it meets is stale: a lock is young for LOCK_STALE,
\* and who waits for it looks every LOCK_RETRY, 1200 times as often.
FairSpec ==
  /\ Spec /\ WF_vars(Tick)
  /\ \A p \in Processes :
       WF_vars(Step(p)) /\ SF_vars(BreakLock(p)) /\ SF_vars(LockNotAcquired(p))

-----------------------------------------------------------------------------
(* Properties.                                                             *)

TypeOK ==
  /\ file \in File \cup {NoFile}
  /\ lock \in Lock \cup {NoLock}
  /\ process \in [Processes -> Process]
  /\ live \subseteq Tokens /\ gone \subseteq Tokens
  /\ logins \in 0 .. MaxLogins
  /\ signedOut \subseteq 1 .. MaxLogins
  /\ raced \in BOOLEAN /\ overrun \in BOOLEAN
  /\ faults \in 0 .. MaxFaults
  /\ \A p \in Processes :
       process[p].at \in {"refresh", "revoke", "write", "remove"} =>
         process[p].token \in Tokens

Lone == \A p, q \in Processes :
  process[p].at \in Inside /\ process[q].at \in Inside => p = q

\* No lock was taken from a process under it, or from one that made it since
\* the stale one was looked at.
Undisturbed == ~ raced /\ ~ overrun

\* acquireLock: however many wait, are killed or find a lock stale, two
\* processes are under the lock only after one of two removals: of the lock
\* of a process that worked for longer than LOCK_STALE, or of a lock made
\* after the stale one that was looked at.
Exclusive == Undisturbed => Lone

\* withLock's comment: the lock serialises login, refresh and logout across
\* processes, so that none acts on tokens another is replacing.
Serialised == Lone

\* A refresh token is presented, and kept in the file while nobody works on
\* it, only while the server accepts it, unless an answer was lost on the
\* way or the server ended the sign-in: two commands at once do not sign the
\* user out, as long as no lock is taken from its process.
RefusedOnlyIfLost ==
  LET known == live \cup gone IN
  Undisturbed =>
    /\ \A p \in Processes : At(p, "refresh") => process[p].token \in known
    /\ (\A p \in Processes : process[p].at \notin Inside) /\ file # NoFile =>
         file.token \in known

\* logout: what it has ended does not come back, for example from a refresh
\* that was under way, until the user signs in again; as long as no lock is
\* taken from its process.
LogoutIsFinal == Undisturbed /\ file # NoFile => file.token[1] \notin signedOut

\* logout: the credentials leave the disk only when the server no longer
\* accepts them; as long as no lock is taken from its process.
RemovesOnlyRevoked ==
  [][Undisturbed /\ file # NoFile /\ file' = NoFile => file.token \notin live]_vars

\* Every command ends, also when a killed process has left its lock.
EveryCommandEnds == \A p \in Processes : process[p].at # "idle" ~> At(p, "idle")

=============================================================================
