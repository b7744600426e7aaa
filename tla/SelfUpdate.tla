------------------------------ MODULE SelfUpdate ------------------------------
(***************************************************************************)
(* The update of KPanel itself (internal/selfupdate, agent/self_update.go).*)
(* The Agent answers the administrator (policy, check, immediate install); *)
(* another process, the updater, is started by a timer or by a request and *)
(* calls Run.  Both work on one state file under a file lock which nobody  *)
(* waits for, so an operation that holds it excludes the others.  Run      *)
(* writes its intention before it hands the host to the executor, and the  *)
(* next Run tells a completed update from an interrupted one by it.        *)
(*                                                                         *)
(* An operation of the Agent writes the file at most once, at its end, so  *)
(* it is one step.  The executor's own transaction (a script of the host)  *)
(* is modelled as the code uses it.                                        *)
(***************************************************************************)
EXTENDS Integers

CONSTANTS
    Releases,   \* a version together with an image digest
    VersionOf,  \* their versions, in order
    Stable,     \* the releases that are not previews
    Clients,    \* administrators' pages
    Installed,  \* the version the host has at first
    Hold,       \* observation period
    MaxNow,     \* bound: the clock
    MaxSlips,   \* bound: saves whose directory is not synced
    MaxCrashes, \* bound: stops of the updater or of the host
    None

ASSUME ReleaseAssumption ==
    /\ VersionOf \in [Releases -> Nat] /\ Stable \subseteq Releases
    /\ None \notin Releases
ASSUME NumberAssumption ==
    /\ Installed \in Nat /\ Hold \in Nat /\ MaxNow \in Nat
    /\ MaxSlips \in Nat /\ MaxCrashes \in Nat

VARIABLES
    disk,       \* state.json
    durable,    \* what a power failure leaves of it
    installed,  \* the version on the host
    txn,        \* the executor's transaction: the version to go back to, or None
    run,        \* the updater: its step, and the attempt it makes
    dispatch,   \* per page: the candidate whose updater is being started
    slips,      \* saves whose directory was not synced
    now, crashes

vars == <<disk, durable, installed, txn, run, dispatch, slips, now, crashes>>

Channels == {"stable", "preview"}
Offered(channel) == IF channel = "stable" THEN Stable ELSE Releases

\* The last three fields are history: the candidate the administrator saw when
\* asking for it, what the last successful check returned and since when every
\* check has, and the release attempted since then and not seen installed.
State == [enabled : BOOLEAN, channel : Channels,
          state : {"disabled", "idle", "waiting", "available", "queued",
                   "updating", "succeeded", "failed", "blocked",
                   "check_failed"},
          requested : BOOLEAN, cand : Releases \cup {None}, seen : 0..MaxNow,
          failed : Releases \cup {None},
          wish : Releases \cup {None}, sight : Releases \cup {None},
          since : 0..MaxNow, tried : Releases \cup {None}]

NoState == [enabled |-> FALSE, channel |-> "stable", state |-> "disabled",
            requested |-> FALSE, cand |-> None, seen |-> 0, failed |-> None,
            wish |-> None, sight |-> None, since |-> 0, tried |-> None]

Idle == [step |-> "idle", manual |-> FALSE, target |-> None]

Init ==
    /\ disk = NoState /\ durable = NoState
    /\ installed = Installed /\ txn = None
    /\ run = Idle
    /\ dispatch = [c \in Clients |-> None]
    /\ slips = 0 /\ now = 0 /\ crashes = 0

-----------------------------------------------------------------------------
(* The state file.                                                         *)

\* save: written; not written; or in place, but its directory not synced.
Outcomes == {"ok", "refused"} \cup IF slips < MaxSlips THEN {"unsynced"} ELSE {}
Save(m, o) ==
    /\ disk' = IF o = "refused" THEN disk ELSE m
    /\ durable' = IF o = "ok" THEN m ELSE durable
    /\ slips' = IF o = "unsynced" THEN slips + 1 ELSE slips

\* normalizeRestingState
Resting(m) ==
    IF m.cand # None THEN IF m.failed = m.cand THEN "blocked" ELSE "waiting"
    ELSE IF m.enabled THEN "idle" ELSE "disabled"

NoCandidate(m) == [m EXCEPT !.cand = None, !.seen = 0]
Newer(r)       == r # None /\ VersionOf[r] > installed

\* validPersistedState: what load accepts.
Valid(m) ==
    /\ m.requested <=> m.state = "queued"
    /\ m.requested => m.cand # None
    /\ {m.cand, m.failed} \subseteq Offered(m.channel) \cup {None}

\* Wrong: only the version tells candidates apart.
ChangedVersion(m, r) == m.cand = None \/ VersionOf[m.cand] # VersionOf[r]

Changed(m, r) == m.cand # r

\* checkLocked with the answer r of the release source, None for an error.
Examined(m, r) ==
    IF r = None THEN [m EXCEPT !.state = "check_failed"]
    ELSE IF ~Newer(r)
    THEN LET old == m.failed # None /\ ~Newer(m.failed)
             n == [NoCandidate(m) EXCEPT !.failed = IF old THEN None ELSE @]
         IN  [n EXCEPT !.state = Resting(n)]
    ELSE IF Changed(m, r)
    THEN [m EXCEPT !.cand = r, !.seen = now, !.state = "waiting",
                   !.failed = IF @ = r THEN r ELSE None]
    ELSE [m EXCEPT !.state = IF m.failed = r THEN "blocked"
                             ELSE IF now - m.seen < Hold THEN "waiting"
                             ELSE "available"]

\* ... and what history keeps of it.
Checked(m, r) ==
    LET n == [Examined(m, r) EXCEPT !.tried = IF Newer(@) THEN @ ELSE None] IN
    IF r \in {None, m.sight} THEN n
    ELSE [n EXCEPT !.sight = r, !.since = now, !.tried = None]

Answers(m) == Offered(m.channel) \cup {None}

-----------------------------------------------------------------------------
(* The Agent.                                                              *)

Busy == disk.state = "updating" \/ disk.requested

\* Wrong: the failure of the other channel's release is kept.
MovedKeepsFailure(m, channel) ==
    IF channel = m.channel THEN m
    ELSE [NoCandidate(m) EXCEPT !.channel = channel, !.tried = None]

\* A change of the channel forgets everything about the old channel's releases.
Moved(m, channel) ==
    IF channel = m.channel THEN m
    ELSE [NoCandidate(m) EXCEPT !.channel = channel, !.failed = None,
                                !.tried = None]

\* A request carries the resource version of the file its page shows; one with
\* another version changes nothing.
SetPolicy(enabled, channel) ==
    /\ run = Idle /\ ~Busy
    /\ LET m == [Moved(disk, channel) EXCEPT !.enabled = enabled]
           reset == channel # disk.channel \/ disk.state = "disabled"
           rest == IF reset /\ m.cand # None THEN "waiting" ELSE Resting(m)
       IN  \E o \in Outcomes : Save([m EXCEPT !.state = rest], o)
    /\ UNCHANGED <<installed, txn, run, dispatch, now, crashes>>

Check ==
    /\ run = Idle /\ ~Busy
    /\ \E r \in Answers(disk), o \in Outcomes : Save(Checked(disk, r), o)
    /\ UNCHANGED <<installed, txn, run, dispatch, now, crashes>>

\* The request is dispatched after the lock was given back.
QueueInstall(c) ==
    /\ run = Idle /\ dispatch[c] = None /\ ~Busy
    /\ Newer(disk.cand) /\ disk.state \in {"waiting", "available"}
    /\ \E o \in Outcomes :
         /\ Save([disk EXCEPT !.requested = TRUE, !.state = "queued",
                              !.wish = disk.cand], o)
         /\ dispatch' = IF o = "refused" THEN dispatch
                        ELSE [dispatch EXCEPT ![c] = disk.cand]
    /\ UNCHANGED <<installed, txn, run, now, crashes>>

\* The service manager took the job, or the Agent stopped before its answer.
Dispatched(c) ==
    /\ dispatch[c] # None
    /\ dispatch' = [dispatch EXCEPT ![c] = None]
    /\ UNCHANGED <<disk, durable, installed, txn, run, slips, now,
                   crashes>>

\* The dispatch failed, or was answered too late.  An updater that holds the
\* lock makes the cancellation fail, which nobody notices.
CancelQueuedInstall(c) ==
    /\ dispatch[c] # None
    /\ dispatch' = [dispatch EXCEPT ![c] = None]
    /\ IF run = Idle /\ disk.requested /\ disk.cand = dispatch[c]
       THEN LET m == [disk EXCEPT !.requested = FALSE]
            IN  \E o \in Outcomes : Save([m EXCEPT !.state = Resting(m)], o)
       ELSE UNCHANGED <<disk, durable, slips>>
    /\ UNCHANGED <<installed, txn, run, now, crashes>>

-----------------------------------------------------------------------------
(* Run, in the updater.                                                    *)

At(step) == [run EXCEPT !.step = step]

\* The timer, or a dispatched request, starts the updater; the file loads.
Begin ==
    /\ run = Idle /\ Valid(disk)
    /\ run' = At("recover")
    /\ UNCHANGED <<disk, durable, installed, txn, slips, dispatch, now,
                   crashes>>

\* A transaction the executor left open is undone.
Recover ==
    /\ run.step = "recover"
    /\ installed' = IF txn = None THEN installed ELSE txn
    /\ txn' = None
    /\ run' = At("read")
    /\ UNCHANGED <<disk, durable, slips, dispatch, now, crashes>>

\* With it goes the record of an interrupted attempt.
RecoverFails ==
    /\ run.step = "recover" /\ txn # None
    /\ \E o \in Outcomes :
         Save([disk EXCEPT !.state = "failed", !.requested = FALSE,
                           !.tried = None], o)
    /\ run' = Idle
    /\ UNCHANGED <<installed, txn, dispatch, now, crashes>>

\* The installed version cannot be read.
Unread ==
    /\ run.step = "read"
    /\ run' = Idle
    /\ UNCHANGED <<disk, durable, installed, txn, slips, dispatch, now,
                   crashes>>

\* reconcileInterrupted
Reconciled(m) ==
    IF Newer(m.cand) THEN [m EXCEPT !.state = "failed", !.failed = m.cand]
    ELSE [NoCandidate(m) EXCEPT !.state = "succeeded", !.failed = None,
                                !.tried = None]

Reconcile(o) ==
    /\ run.step = "read" /\ disk.state = "updating"
    /\ Save(Reconciled(disk), o)
    /\ run' = IF o = "refused" THEN Idle ELSE At("decide")
    /\ UNCHANGED <<installed, txn, dispatch, now, crashes>>

Read ==
    /\ run.step = "read" /\ disk.state # "updating"
    /\ run' = At("decide")
    /\ UNCHANGED <<disk, durable, installed, txn, slips, dispatch, now,
                   crashes>>

\* Nothing to do: a save, and the end of Run.
Finish(m) ==
    /\ run.step = "decide"
    /\ \E o \in Outcomes : Save(m, o)
    /\ run' = Idle
    /\ UNCHANGED <<installed, txn, dispatch, now, crashes>>

Disabled == ~disk.enabled /\ ~disk.requested /\ Finish([disk EXCEPT !.state = "disabled"])

\* Wrong: a request for what is installed meanwhile stays.
DropKeepsRequest(m) == m

Drop(m) == LET n == [m EXCEPT !.requested = FALSE]
           IN  [n EXCEPT !.state = Resting(n)]

Outdated == disk.requested /\ ~Newer(disk.cand) /\ Finish(Drop(disk))

NotYet ==
    /\ disk.enabled /\ ~disk.requested
    /\ \E r \in Answers(disk) :
         Checked(disk, r).state # "available" /\ Finish(Checked(disk, r))

\* Wrong: the executor starts although the intention may be lost.
AttemptUnsynced(m, o) ==
    /\ Save([m EXCEPT !.state = "updating", !.requested = FALSE,
                      !.tried = m.cand], o)
    /\ run' = IF o = "refused" THEN Idle
              ELSE [step |-> "update", manual |-> disk.requested,
                    target |-> m.cand]
    /\ UNCHANGED <<installed, txn, dispatch, now, crashes>>

\* The intention is written, and the update begins when it is durable.
Attempt(m, o) ==
    /\ Save([m EXCEPT !.state = "updating", !.requested = FALSE,
                      !.tried = m.cand], o)
    /\ run' = IF o # "ok" THEN Idle
              ELSE [step |-> "update", manual |-> disk.requested,
                    target |-> m.cand]
    /\ UNCHANGED <<installed, txn, dispatch, now, crashes>>

AttemptRequested(o) ==
    /\ run.step = "decide" /\ disk.requested /\ Newer(disk.cand)
    /\ Attempt(disk, o)

AttemptAutomatic(o) ==
    /\ run.step = "decide" /\ disk.enabled /\ ~disk.requested
    /\ \E r \in Answers(disk) :
         Checked(disk, r).state = "available" /\ Attempt(Checked(disk, r), o)

\* executor.Update: the transaction, the new version, the end of the transaction.
Prepare ==
    /\ run.step = "update"
    /\ txn' = installed /\ run' = At("replace")
    /\ UNCHANGED <<disk, durable, installed, slips, dispatch, now,
                   crashes>>

Replace ==
    /\ run.step = "replace"
    /\ installed' = VersionOf[run.target] /\ run' = At("conclude")
    /\ UNCHANGED <<disk, durable, txn, slips, dispatch, now, crashes>>

Conclude ==
    /\ run.step = "conclude"
    /\ txn' = None /\ run' = At("succeeded")
    /\ UNCHANGED <<disk, durable, installed, slips, dispatch, now,
                   crashes>>

\* It fails: before its transaction, or with it undone, or still open.
Fail ==
    /\ run.step \in {"update", "replace", "conclude"}
    /\ \/ /\ installed' = IF txn = None THEN installed ELSE txn
          /\ txn' = None
       \/ UNCHANGED <<installed, txn>>
    /\ run' = At("failed")
    /\ UNCHANGED <<disk, durable, slips, dispatch, now, crashes>>

\* A result that cannot be written leaves "updating" to the next Run.
Record ==
    /\ run.step \in {"succeeded", "failed"}
    /\ \E o \in Outcomes :
         Save(IF run.step = "failed"
              THEN [disk EXCEPT !.state = "failed", !.failed = run.target]
              ELSE [NoCandidate(disk) EXCEPT !.state = "succeeded",
                                             !.failed = None, !.tried = None],
              o)
    /\ run' = Idle
    /\ UNCHANGED <<installed, txn, dispatch, now, crashes>>

-----------------------------------------------------------------------------
(* The environment.                                                        *)

\* The updater is killed.
Crash ==
    /\ run # Idle /\ crashes < MaxCrashes
    /\ crashes' = crashes + 1
    /\ run' = Idle
    /\ UNCHANGED <<disk, durable, installed, txn, slips, dispatch, now>>

\* The host loses power: a file whose directory was not synced may be the old
\* one.
PowerLoss ==
    /\ crashes < MaxCrashes
    /\ crashes' = crashes + 1
    /\ run' = Idle
    /\ dispatch' = [c \in Clients |-> None]
    /\ disk' \in {disk, durable} /\ durable' = disk'
    /\ UNCHANGED <<installed, txn, slips, now>>

\* The administrator updates by hand, with the host's own script.
UpgradeByHand ==
    /\ run = Idle /\ txn = None
    /\ \E r \in Releases : Newer(r) /\ installed' = VersionOf[r]
    /\ UNCHANGED <<disk, durable, txn, run, slips, dispatch, now,
                   crashes>>

Tick ==
    /\ now < MaxNow
    /\ now' = now + 1
    /\ UNCHANGED <<disk, durable, installed, txn, run, slips, dispatch,
                   crashes>>

Updater ==
    \/ Begin \/ Recover \/ RecoverFails \/ Unread \/ Read
    \/ Disabled \/ Outdated \/ NotYet
    \/ \E o \in Outcomes : Reconcile(o) \/ AttemptRequested(o) \/ AttemptAutomatic(o)
    \/ Prepare \/ Replace \/ Conclude \/ Fail \/ Record

Agent ==
    \/ Check
    \/ \E c \in Clients :
         QueueInstall(c) \/ Dispatched(c) \/ CancelQueuedInstall(c)
    \/ \E enabled \in BOOLEAN, channel \in Channels : SetPolicy(enabled, channel)

Next == Updater \/ Agent \/ Crash \/ PowerLoss \/ UpgradeByHand \/ Tick

\* The timer fires, the updater runs to its end, and what it needs works at
\* last when it is tried again and again.
Spec == /\ Init /\ [][Next]_vars
        /\ WF_vars(Updater) /\ SF_vars(Recover) /\ SF_vars(Read)
        /\ SF_vars(Reconcile("ok"))
        /\ SF_vars(AttemptRequested("ok"))
        /\ SF_vars(Outdated /\ disk' # disk)

-----------------------------------------------------------------------------
(* Properties.                                                             *)

TypeOK ==
    /\ disk \in State /\ durable \in State
    /\ installed \in Nat /\ txn \in Nat \cup {None}
    /\ run \in [step : {"idle", "recover", "read", "decide", "update",
                        "replace", "conclude", "succeeded", "failed"},
                manual : BOOLEAN, target : Releases \cup {None}]
    /\ dispatch \in [Clients -> Releases \cup {None}]
    /\ slips \in 0..MaxSlips /\ now \in 0..MaxNow /\ crashes \in 0..MaxCrashes

\* No sequence of operations, failures and stops writes a file that load
\* rejects, which would end every check, every policy change and every update.
Loadable == Valid(disk) /\ Valid(durable)

\* The executor works only under an intention that survives a power failure:
\* the next Run knows that, and which, update was interrupted.
IntentDurable ==
    run.step \in {"update", "replace", "conclude", "succeeded", "failed"} =>
        durable.state = "updating" /\ durable.cand = run.target

\* What an update may install.  A requested one: exactly what the
\* administrator saw when asking for it.  An automatic one: only when enabled,
\* only what every check of the observation period returned, version and
\* digest, and nothing that was already tried since (a recovery that failed
\* forgets the attempt).  Neither ever goes back to an older version.
Starts == run.step # "update" /\ run'.step = "update"
Authorised ==
    [][Starts =>
        /\ Newer(run'.target)
        /\ run'.manual => run'.target = disk.wish
        /\ ~run'.manual => /\ disk.enabled /\ disk'.sight = run'.target
                           /\ now - disk'.since >= Hold
                           /\ disk.tried # run'.target]_vars

\* A request for an immediate install is always answered: it is tried,
\* cancelled or dropped; and an interrupted update is always concluded.
UpdateSettles ==
    /\ disk.requested ~> ~disk.requested
    /\ disk.state = "updating" ~> disk.state # "updating"
=============================================================================
