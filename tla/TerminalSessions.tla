-------------------------- MODULE TerminalSessions --------------------------
(***************************************************************************)
(* The PTY session manager of the Agent, the light nodes and the Panel     *)
(* (internal/terminal/manager.go): admission of Open calls under a global  *)
(* and a per-owner quota, the spawn of the shell outside the manager's     *)
(* lock, revocation of an owner while spawns are in flight, the capture    *)
(* goroutine that reaps the child, the close protocol whose kill and PTY   *)
(* close may each fail, the reaper that retries it, and the bounded cache  *)
(* of finished sessions.                                                   *)
(*                                                                         *)
(* One element of Calls is one Open call; a call registers at most one     *)
(* session, so the call also stands for the session's random id.           *)
(***************************************************************************)
EXTENDS Integers, FiniteSets, FiniteSetsExt

CONSTANTS
    Calls,            \* Open calls, each with the id its session would get
    Owners,           \* authenticated owners of sessions
    OwnerOf,          \* the owner on whose behalf a call is made
    Retained,         \* the calls made through OpenRetainedContext
    MaxSessions,      \* config.MaxSessions
    MaxOwnerSessions, \* config.MaxOwnerSessions
    IdleTimeout,      \* config.IdleTimeout
    Lifetime,         \* config.Lifetime
    FinishedRetention,      \* finishedRetention
    MaxFinished,            \* maxFinishedSessions
    MaxFinishedBytes,       \* maxFinishedBufferBytes
    MaxCapacity,      \* bound of the model: largest cap(session.buffer)
    MaxClock,         \* bound of the model: the clock stops there
    MaxRevocations    \* bound of the model: CloseOwner calls

ASSUME CallsAssumption == Calls \subseteq Nat /\ IsFiniteSet(Calls)
ASSUME OwnersAssumption == OwnerOf \in [Calls -> Owners] /\ Retained \subseteq Calls
ASSUME LimitsAssumption == MaxSessions \in Nat /\ MaxOwnerSessions \in Nat
ASSUME TimesAssumption ==
    /\ IdleTimeout \in Nat \ {0} /\ Lifetime \in Nat \ {0}
    /\ FinishedRetention \in Nat \ {0}
    /\ MaxFinished \in Nat /\ MaxFinishedBytes \in Nat /\ MaxCapacity \in Nat
    /\ MaxClock \in Nat /\ MaxRevocations \in Nat

VARIABLES
    clock,         \* config.Now
    managerClosed, \* Manager.closed
    reaperRunning, \* reapLoop has not returned
    opening,       \* Manager.opening
    pending,       \* openingOwners[owner].pending, 0 when there is no entry
    epoch,         \* openingOwners[owner].epoch, 0 when there is no entry
    pc,            \* where each Open call is
    epochAt,       \* the epoch reserveOpen returned to the call
    cancelled,     \* calls whose context has been cancelled
    startErr,      \* calls whose starter returned an error
    revoked,       \* calls admitted or registered when CloseOwner hit them
    revocations,   \* number of CloseOwner calls so far (bound of the model)
    sessions,      \* keys of Manager.sessions
    closed,        \* sessions with session.closed
    closeFailed,   \* sessions with session.closeFailed
    terminated,    \* sessions with session.terminated
    exited,        \* sessions whose exitedAt is set
    createdAt, updatedAt, finishedAt,
    bytes,         \* cap(session.buffer)
    capture,       \* the capture goroutine of each session
    closer,        \* who holds session.closeMu
    requests,      \* sessions with a Close call waiting for closeMu
    scope,         \* calls whose shell's process scope is not known dead
    pty            \* calls whose PTY has not been closed

admissionVars == <<opening, pending, epoch>>
callVars      == <<pc, epochAt, startErr, cancelled>>
revokeVars    == <<revoked, revocations>>
managerVars   == <<managerClosed, reaperRunning>>
flagVars      == <<closed, closeFailed, terminated, exited>>
timeVars      == <<createdAt, updatedAt, finishedAt>>
closeVars     == <<closer, requests>>
processVars   == <<scope, pty>>

vars == <<clock, managerVars, admissionVars, callVars, revokeVars, sessions,
          flagVars, timeVars, bytes, capture, closeVars, processVars>>

-----------------------------------------------------------------------------
Unset == -1

CallStates == {"idle", "queued", "refused", "spawning", "started",
               "cleaning", "opened", "failed"}

\* Calls between reserveOpen and releaseOpenLocked.
Reserved == {c \in Calls : pc[c] \in {"queued", "refused", "spawning", "started"}}

\* Calls that hold openSpawnMu.
InSpawn == {c \in Calls : pc[c] \in {"spawning", "started", "cleaning"}}

OwnedBy(o) == {c \in Calls : OwnerOf[c] = o}

\* Mutant: a session whose shell has exited gives its slot back at once.
ActiveUntilExit == sessions \ (closed \cup exited)

\* isActive: the session still occupies quota.
Active == sessions \ closed

\* Completed output that trimFinishedLocked may drop.
Finished == closed \ closeFailed

\* Busy, the admission check of the host backup.
Busy == opening # 0 \/ Active # {}

(***************************************************************************)
(* trimFinishedLocked: of the finished sessions drop those past the        *)
(* retention, then the oldest until the count and the byte bound hold.     *)
(***************************************************************************)
Fits(c, fresh, at) ==
    LET notOlder == {d \in fresh : at[d] > at[c] \/ (at[d] = at[c] /\ d >= c)}
    IN  /\ Cardinality(notOlder) <= MaxFinished
        /\ MapThenSumSet(LAMBDA d : bytes[d], notOlder) <= MaxFinishedBytes

Survivors(done, at) ==
    LET fresh == {c \in done : clock - at[c] < FinishedRetention}
    IN  {c \in fresh : Fits(c, fresh, at)}

Trimmed(done, at) == (sessions \ done) \cup Survivors(sessions \cap done, at)

\* A Close of a session that is already closed returns at once.
AskClose(S) == requests' = requests \cup (S \cap Active)

-----------------------------------------------------------------------------
Init ==
    /\ clock = 0
    /\ managerClosed = FALSE /\ reaperRunning = TRUE
    /\ opening = 0
    /\ pending = [o \in Owners |-> 0]
    /\ epoch = [o \in Owners |-> 0]
    /\ pc = [c \in Calls |-> "idle"]
    /\ epochAt = [c \in Calls |-> 0]
    /\ cancelled = {} /\ startErr = {}
    /\ revoked = {} /\ revocations = 0
    /\ sessions = {}
    /\ closed = {} /\ closeFailed = {} /\ terminated = {} /\ exited = {}
    /\ createdAt = [c \in Calls |-> Unset]
    /\ updatedAt = [c \in Calls |-> Unset]
    /\ finishedAt = [c \in Calls |-> Unset]
    /\ bytes = [c \in Calls |-> 0]
    /\ capture = [c \in Calls |-> "none"]
    /\ closer = [c \in Calls |-> "none"]
    /\ requests = {}
    /\ scope = {} /\ pty = {}

-----------------------------------------------------------------------------
(* Open: admission, spawn, registration.                                   *)

HasRoom(o) ==
    /\ Cardinality(Active) + opening < MaxSessions
    /\ Cardinality(Active \cap OwnedBy(o)) + pending[o] < MaxOwnerSessions

\* reserveOpen: the finished cache is trimmed first, then the quota decides.
Reserve(c) ==
    LET o == OwnerOf[c]
        granted == ~managerClosed /\ HasRoom(o)
    IN  /\ pc[c] = "idle"
        /\ sessions' = IF managerClosed THEN sessions ELSE Trimmed(Finished, finishedAt)
        /\ pc' = [pc EXCEPT ![c] = IF granted THEN "queued" ELSE "failed"]
        /\ IF granted
           THEN /\ pending' = [pending EXCEPT ![o] = @ + 1]
                /\ opening' = opening + 1
                /\ epochAt' = [epochAt EXCEPT ![c] = epoch[o]]
           ELSE UNCHANGED <<pending, opening, epochAt>>
        /\ UNCHANGED <<clock, managerVars, epoch, cancelled, startErr, revokeVars,
                       flagVars, timeVars, bytes, capture, closeVars, processVars>>

\* The caller's context ends while the call is queued or spawning.
Cancel(c) ==
    /\ pc[c] \in {"queued", "spawning", "started"}
    /\ cancelled' = cancelled \cup {c}
    /\ UNCHANGED <<clock, managerVars, admissionVars, pc, epochAt, startErr, revokeVars,
                   sessions, flagVars, timeVars, bytes, capture, closeVars, processVars>>

\* Mutant: the owner's epoch is not compared.
InvalidOnlyWhenClosed(c) == managerClosed

Invalid(c) == managerClosed \/ epoch[OwnerOf[c]] # epochAt[c]

\* openSpawnMu is taken and the admission is checked again before the spawn.
\* A refused call gives the mutex back before its deferred release runs.
Enter(c) ==
    /\ pc[c] = "queued"
    /\ InSpawn = {}
    /\ pc' = [pc EXCEPT ![c] = IF Invalid(c) \/ c \in cancelled
                               THEN "refused" ELSE "spawning"]
    /\ UNCHANGED <<clock, managerVars, admissionVars, epochAt, startErr, cancelled,
                   revokeVars, sessions, flagVars, timeVars, bytes, capture,
                   closeVars, processVars>>

\* Mutant: the owner's count is leaked.
ReleaseLeaksOwner(c) == opening' = opening - 1 /\ UNCHANGED <<pending, epoch>>

\* releaseOpenLocked: an owner's entry, with its epoch, goes with its last call.
Release(c) ==
    LET o == OwnerOf[c]
    IN  /\ pending' = [pending EXCEPT ![o] = @ - 1]
        /\ opening' = opening - 1
        /\ epoch' = [epoch EXCEPT ![o] = IF pending[o] = 1 THEN 0 ELSE @]

\* The locals of open are dead once the call has been decided.
Forget(c) ==
    /\ epochAt' = [epochAt EXCEPT ![c] = 0]
    /\ startErr' = startErr \ {c}
    /\ cancelled' = cancelled \ {c}

Refuse(c) ==
    /\ pc[c] = "refused"
    /\ Release(c) /\ Forget(c)
    /\ pc' = [pc EXCEPT ![c] = "failed"]
    /\ UNCHANGED <<clock, managerVars, revokeVars,
                   sessions, flagVars, timeVars, bytes, capture, closeVars, processVars>>

\* start(rows, columns), outside Manager.mu: a process, an error, or both.
Start(c) ==
    /\ pc[c] = "spawning"
    /\ pc' = [pc EXCEPT ![c] = "started"]
    /\ \E process, fails \in BOOLEAN :
          /\ process \/ fails
          /\ startErr' = IF fails THEN startErr \cup {c} ELSE startErr
          /\ scope' = IF process THEN scope \cup {c} ELSE scope
          /\ pty' = IF process THEN pty \cup {c} ELSE pty
    /\ UNCHANGED <<clock, managerVars, admissionVars, epochAt, cancelled, revokeVars,
                   sessions, flagVars, timeVars, bytes, capture, closeVars>>

\* The spawn is over: release the reservation and, in the same critical
\* section, register whatever was started, even for a call that failed.
Register(c) ==
    LET started == c \in pty
        fails   == c \in startErr \/ c \in cancelled \/ Invalid(c)
    IN  /\ pc[c] = "started"
        /\ Release(c) /\ Forget(c)
        /\ pc' = [pc EXCEPT ![c] = IF ~started THEN "failed"
                                   ELSE IF fails THEN "cleaning" ELSE "opened"]
        /\ IF started
           THEN /\ sessions' = sessions \cup {c}
                /\ createdAt' = [createdAt EXCEPT ![c] = clock]
                /\ updatedAt' = [updatedAt EXCEPT ![c] = clock]
                /\ capture' = [capture EXCEPT ![c] = "reading"]
           ELSE UNCHANGED <<sessions, createdAt, updatedAt, capture>>
        /\ UNCHANGED <<clock, managerVars, revokeVars, flagVars, finishedAt, bytes,
                       closeVars, processVars>>

-----------------------------------------------------------------------------
(* Close, and who asks for it.                                             *)

\* Only a caller to whom Open returned the id can name the session.
ClientClose(c) ==
    /\ c \in sessions /\ pc[c] = "opened"
    /\ AskClose({c})
    /\ UNCHANGED <<clock, managerVars, admissionVars, callVars, revokeVars, sessions,
                   flagVars, timeVars, bytes, capture, closer, processVars>>

\* CloseOwner: new epoch for the calls in flight, Close for the sessions.
CloseOwner(o) ==
    /\ revocations < MaxRevocations
    /\ revocations' = revocations + 1
    /\ epoch' = IF pending[o] > 0 THEN [epoch EXCEPT ![o] = @ + 1] ELSE epoch
    /\ revoked' = revoked \cup (OwnedBy(o) \cap (Reserved \cup sessions))
    /\ AskClose(OwnedBy(o) \cap sessions)
    /\ UNCHANGED <<clock, managerVars, opening, pending, callVars, sessions,
                   flagVars, timeVars, bytes, capture, closer, processVars>>

\* CloseAll, the shutdown of the process; it also stops the reaper.
CloseAll ==
    /\ ~managerClosed
    /\ managerClosed' = TRUE
    /\ AskClose(sessions)
    /\ UNCHANGED <<clock, reaperRunning, admissionVars, callVars, revokeVars, sessions,
                   flagVars, timeVars, bytes, capture, closer, processVars>>

\* Close takes closeMu and publishes closeFailed before it touches the process.
CloseBegin(c, who) ==
    /\ closer[c] = "none"
    /\ IF who = "open" THEN pc[c] = "cleaning" ELSE c \in requests
    /\ requests' = IF who = "open" THEN requests ELSE requests \ {c}
    /\ IF c \in closed
       THEN /\ pc' = IF who = "open" THEN [pc EXCEPT ![c] = "failed"] ELSE pc
            /\ UNCHANGED <<closer, closeFailed>>
       ELSE /\ closer' = [closer EXCEPT ![c] = who]
            /\ closeFailed' = closeFailed \cup {c}
            /\ UNCHANGED pc
    /\ UNCHANGED <<clock, managerVars, admissionVars, epochAt, startErr, cancelled,
                   revokeVars, sessions, closed, terminated, exited, timeVars, bytes,
                   capture, processVars>>

\* Mutant: an error path that leaves closeMu locked.
CloseReturnsLocked(c) == UNCHANGED <<closer, pc>>

\* Close returns and unlocks closeMu; Open's own Close ends the Open call.
CloseReturns(c) ==
    /\ closer' = [closer EXCEPT ![c] = "none"]
    /\ pc' = IF closer[c] = "open" THEN [pc EXCEPT ![c] = "failed"] ELSE pc

\* process.Kill: stop the scope; an error ends this Close with closeFailed set.
Kill(c, ok) ==
    /\ closer[c] # "none" /\ c \notin terminated
    /\ IF ok
       THEN /\ terminated' = terminated \cup {c}
            /\ scope' = scope \ {c}
            /\ UNCHANGED <<closer, pc>>
       ELSE CloseReturns(c) /\ UNCHANGED <<terminated, scope>>
    /\ UNCHANGED <<clock, managerVars, admissionVars, epochAt, startErr, cancelled,
                   revokeVars, sessions, closed, closeFailed, exited, timeVars, bytes,
                   capture, requests, pty>>

\* process.Close, after a Kill of this Close or of an earlier one.
ClosePty(c, ok) ==
    /\ closer[c] # "none" /\ c \in terminated /\ c \in pty
    /\ IF ok
       THEN pty' = pty \ {c} /\ UNCHANGED <<closer, pc>>
       ELSE CloseReturns(c) /\ UNCHANGED pty
    /\ UNCHANGED <<clock, managerVars, admissionVars, epochAt, startErr, cancelled,
                   revokeVars, sessions, flagVars, timeVars, bytes, capture, requests,
                   scope>>

\* Both succeeded: the session stops counting and joins the finished cache.
CloseFinish(c) ==
    LET at == [finishedAt EXCEPT ![c] = IF @ = Unset THEN clock ELSE @]
    IN  /\ closer[c] # "none" /\ c \in terminated /\ c \notin pty
        /\ closed' = closed \cup {c}
        /\ closeFailed' = closeFailed \ {c}
        /\ updatedAt' = [updatedAt EXCEPT ![c] = clock]
        /\ finishedAt' = at
        /\ sessions' = Trimmed(closed' \ closeFailed', at)
        /\ CloseReturns(c)
        /\ UNCHANGED <<clock, managerVars, admissionVars, epochAt, startErr, cancelled,
                       revokeVars, terminated, exited, createdAt, bytes, capture,
                       requests, processVars>>

-----------------------------------------------------------------------------
(* The capture goroutine, the users of a session, the reaper and time.     *)

\* append: output is stored whether or not the session is already closed.
Append(c) ==
    /\ capture[c] = "reading"
    /\ \E size \in bytes[c]..MaxCapacity : bytes' = [bytes EXCEPT ![c] = size]
    /\ updatedAt' = [updatedAt EXCEPT ![c] = clock]
    /\ UNCHANGED <<clock, managerVars, admissionVars, callVars, revokeVars, sessions,
                   flagVars, createdAt, finishedAt, capture, closeVars, processVars>>

\* EOF, then Wait: setExit and a Close of the session.
CaptureExit(c) ==
    /\ capture[c] = "reading"
    /\ capture' = [capture EXCEPT ![c] = "done"]
    /\ exited' = exited \cup {c}
    /\ finishedAt' = [finishedAt EXCEPT ![c] = IF @ = Unset THEN clock ELSE @]
    /\ updatedAt' = [updatedAt EXCEPT ![c] = clock]
    /\ AskClose({c} \cap sessions)
    /\ UNCHANGED <<clock, managerVars, admissionVars, callVars, revokeVars, sessions,
                   closed, closeFailed, terminated, createdAt, bytes, closer, processVars>>

\* EOF, then Wait answers ErrCleanupPending: the reaper has to finish the job.
CapturePending(c) ==
    /\ capture[c] = "reading"
    /\ capture' = [capture EXCEPT ![c] = "done"]
    /\ closeFailed' = IF c \in closed THEN closeFailed ELSE closeFailed \cup {c}
    /\ updatedAt' = IF c \in closed THEN updatedAt ELSE [updatedAt EXCEPT ![c] = clock]
    /\ \E size \in bytes[c]..(IF c \in closed THEN bytes[c] ELSE MaxCapacity) :
          bytes' = [bytes EXCEPT ![c] = size]      \* the notice to the reader
    /\ UNCHANGED <<clock, managerVars, admissionVars, callVars, revokeVars, sessions,
                   closed, terminated, exited, createdAt, finishedAt, closeVars,
                   processVars>>

\* The holder of the id polls Output, which renews updatedAt in every state of
\* the session; the renewal by InputContext and Resize, on a live session only,
\* adds no step to it.
Use(c) ==
    /\ c \in sessions /\ pc[c] = "opened"
    /\ updatedAt' = [updatedAt EXCEPT ![c] = clock]
    /\ UNCHANGED <<clock, managerVars, admissionVars, callVars, revokeVars, sessions,
                   flagVars, createdAt, finishedAt, bytes, capture, closeVars, processVars>>

Inactive(c) ==
    \/ c \notin Retained /\ clock - updatedAt[c] >= IdleTimeout
    \/ clock - createdAt[c] >= Lifetime

\* Mutant: failed cleanups are not retried.
StaleByTime(c) == Inactive(c) \/ c \in exited

Stale(c) == Inactive(c) \/ c \in closeFailed \/ c \in exited

\* reap: trim the cache, then Close what is idle, too old, exited or uncertain.
Reap ==
    LET kept == Trimmed(Finished, finishedAt)
    IN  /\ reaperRunning
        /\ sessions' = kept
        /\ AskClose({c \in kept : Stale(c)})
        /\ UNCHANGED <<clock, managerVars, admissionVars, callVars, revokeVars, flagVars,
                       timeVars, bytes, capture, closer, processVars>>

ReapExit ==
    /\ managerClosed /\ reaperRunning
    /\ reaperRunning' = FALSE
    /\ UNCHANGED <<clock, managerClosed, admissionVars, callVars, revokeVars, sessions,
                   flagVars, timeVars, bytes, capture, closeVars, processVars>>

Tick ==
    /\ clock < MaxClock
    /\ clock' = clock + 1
    /\ UNCHANGED <<managerVars, admissionVars, callVars, revokeVars, sessions, flagVars,
                   timeVars, bytes, capture, closeVars, processVars>>

-----------------------------------------------------------------------------
OpenStep(c) ==
    Reserve(c) \/ Cancel(c) \/ Enter(c) \/ Refuse(c) \/ Start(c) \/ Register(c)

CloseStep(c) ==
    \/ \E who \in {"call", "open"} : CloseBegin(c, who)
    \/ \E ok \in BOOLEAN : Kill(c, ok) \/ ClosePty(c, ok)
    \/ CloseFinish(c)

SessionStep(c) ==
    \/ ClientClose(c) \/ Use(c)
    \/ Append(c) \/ CaptureExit(c) \/ CapturePending(c)

Next ==
    \/ \E c \in Calls : OpenStep(c) \/ CloseStep(c) \/ SessionStep(c)
    \/ \E o \in Owners : CloseOwner(o)
    \/ CloseAll \/ Reap \/ ReapExit \/ Tick

Spec == Init /\ [][Next]_vars

(***************************************************************************)
(* Goroutines run.  Each call takes openSpawnMu once, so weak fairness is  *)
(* enough for it; Open's own Close may compete for closeMu with a client   *)
(* that calls Close for ever, and sync.Mutex is starvation-free, hence the *)
(* strong fairness.                                                        *)
(***************************************************************************)
Progress ==
    \A c \in Calls :
        /\ WF_vars(Enter(c)) /\ WF_vars(Refuse(c))
        /\ WF_vars(Start(c)) /\ WF_vars(Register(c))
        /\ SF_vars(CloseBegin(c, "open"))
        /\ WF_vars(\E ok \in BOOLEAN : Kill(c, ok))
        /\ WF_vars(\E ok \in BOOLEAN : ClosePty(c, ok))
        /\ WF_vars(CloseFinish(c))

ProgressSpec == Spec /\ Progress

(***************************************************************************)
(* In addition the ticker of reapLoop fires, the Close calls it makes take *)
(* the mutex, and the host lets a cleanup that is repeated for ever        *)
(* succeed at last.                                                        *)
(***************************************************************************)
Cleanup ==
    /\ WF_vars(Reap)
    /\ \A c \in Calls : /\ WF_vars(CloseBegin(c, "call"))
                        /\ SF_vars(Kill(c, TRUE)) /\ SF_vars(ClosePty(c, TRUE))

CleanupSpec == ProgressSpec /\ Cleanup

-----------------------------------------------------------------------------
TypeOK ==
    /\ clock \in 0..MaxClock
    /\ managerClosed \in BOOLEAN /\ reaperRunning \in BOOLEAN
    /\ opening \in Nat
    /\ pending \in [Owners -> Nat] /\ epoch \in [Owners -> Nat]
    /\ pc \in [Calls -> CallStates] /\ epochAt \in [Calls -> Nat]
    /\ cancelled \subseteq Calls /\ startErr \subseteq Calls
    /\ revoked \subseteq Calls /\ revocations \in 0..MaxRevocations
    /\ sessions \subseteq Calls
    /\ closed \subseteq Calls /\ closeFailed \subseteq Calls
    /\ terminated \subseteq Calls /\ exited \subseteq Calls
    /\ createdAt \in [Calls -> Int] /\ updatedAt \in [Calls -> Int]
    /\ finishedAt \in [Calls -> Int]
    /\ bytes \in [Calls -> 0..MaxCapacity]
    /\ capture \in [Calls -> {"none", "reading", "done"}]
    /\ closer \in [Calls -> {"none", "call", "open"}]
    /\ requests \subseteq Calls
    /\ scope \subseteq Calls /\ pty \subseteq Calls

\* The calls and sessions that occupy quota.
Held == Reserved \cup Active

(***************************************************************************)
(* The counters of the manager are exactly the calls in flight, whatever   *)
(* path each left Open by (refusal, failed spawn, revocation, success),    *)
(* and an owner without calls in flight has no epoch left over.            *)
(***************************************************************************)
AccountingExact ==
    /\ opening = Cardinality(Reserved)
    /\ \A o \in Owners : /\ pending[o] = Cardinality(Reserved \cap OwnedBy(o))
                         /\ pending[o] = 0 => epoch[o] = 0

(***************************************************************************)
(* Quota: calls in flight and sessions whose cleanup is not confirmed stay *)
(* together within both limits, although the spawn runs outside the lock   *)
(* and a failed Close keeps its session registered.                        *)
(***************************************************************************)
Quota ==
    /\ Cardinality(Held) <= MaxSessions
    /\ \A o \in Owners : Cardinality(Held \cap OwnedBy(o)) <= MaxOwnerSessions

(***************************************************************************)
(* A shell or PTY that may be alive is always in sight of Busy, so a host  *)
(* backup is never admitted next to one: not between the spawn and the     *)
(* registration, not when Open failed after the spawn, not after a Close   *)
(* that failed half way.                                                   *)
(***************************************************************************)
BusySeesEveryProcess == scope \cup pty # {} => Busy

\* A Close of the session runs, is waiting, or has failed and will be retried.
Closing(c) ==
    c \in requests \/ closer[c] # "none" \/ c \in closeFailed \/ pc[c] = "cleaning"

(***************************************************************************)
(* CloseOwner and CloseAll reach every session they are meant for: those   *)
(* registered, and those whose spawn was in flight and that register       *)
(* later.  None of them stays active without a Close under way or failed.  *)
(***************************************************************************)
NothingSurvivesRevocation ==
    \A c \in Active : c \in revoked \/ managerClosed => Closing(c)

(***************************************************************************)
(* A Close that failed is retried until the session is closed, unless the  *)
(* manager itself has been closed, which stops the reaper.                 *)
(***************************************************************************)
CleanupRetried ==
    \A c \in Calls : (c \in Active \cap closeFailed) ~> (c \notin Active \/ managerClosed)

(***************************************************************************)
(* Every admitted Open call returns, also while other calls hold the spawn *)
(* mutex during a cleanup that fails.                                      *)
(***************************************************************************)
OpenReturns ==
    \A c \in Calls : pc[c] \in {"queued", "cleaning"} ~> pc[c] \in {"opened", "failed"}

(***************************************************************************)
(* The manager implements the pool of slots: the slots held are the calls  *)
(* in flight and the active sessions.                                      *)
(***************************************************************************)
Pool == INSTANCE SlotPool WITH
            Slots <- Calls, Holders <- Owners, HolderOf <- OwnerOf,
            MaxHeld <- MaxSessions, MaxHolder <- MaxOwnerSessions,
            asked <- {c \in Calls : pc[c] # "idle"},
            held <- Held, live <- scope \cup pty, shut <- managerClosed

ImplementsPool == Pool!PoolSpec
=============================================================================
