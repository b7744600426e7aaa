--------------------------- MODULE TerminalBatch ---------------------------
(***************************************************************************)
(* Batch execution of one command on many hosts (internal/terminalbatch):  *)
(* the durable list of jobs, the workers of the one batch that runs, and   *)
(* the rounds that retry the close of the sessions a batch left behind.    *)
(*                                                                         *)
(* Sessions are driven through calls whose outcome may be unknown, writes  *)
(* of the job file may fail (MayFail), the batch may be stopped, time out  *)
(* or lose the access to a host, and the Panel may close, crash and start  *)
(* again, at any step.  Every job has the same owner: the Panel has one    *)
(* administrator.  A result stands for the pair of its state and error.    *)
(***************************************************************************)
EXTENDS Naturals, FiniteSets, Functions

CONSTANTS
    Ids,         \* identities of batches, chosen by the browser
    Hosts,       \* hosts of a batch
    Workers,     \* workers of a batch, 4 in the source
    None,
    MayFail,     \* bound of the model: may a write of the job file fail
    MaxCrashes   \* bound of the model: times the Panel stops

ASSUME WorkersAssumption == Workers \in Nat \ {0}
ASSUME NoneAssumption == None \notin Ids
ASSUME BoundsAssumption == MayFail \in BOOLEAN /\ MaxCrashes \in Nat

VARIABLES
    disk,       \* jobs.json: a function from some of Ids to jobs
    jobs,       \* Manager.jobs, the same in memory
    panel,      \* "up", "closing", "closed" (Close has returned) or "down"
    available,  \* Manager.available
    running,    \* the batch in Manager.active, or None
    ctx,        \* its context: "live", "stopped" or "timeout"
    bound,      \* per host: the context bound to the access to that host
    exec,       \* per host: the worker's progress in the running batch
    cleanup,    \* Manager.cleanup: per batch, hosts whose session may be open
    cleaning,   \* Manager.cleaning: batches with a cleanup round
    round,      \* per batch: hosts whose close the round still retries
    dirty,      \* batches whose round has changed a result
    crashes,    \* stops of the Panel so far
    session,    \* history, per batch and host: what became of its session
    starts,     \* history, per batch and host: times its command may have begun
    truth       \* history, per batch and host: outcome of the command, if known

stored == <<disk, jobs>>
live == <<running, ctx, bound, exec>>
rounds == <<cleanup, cleaning, round, dirty>>
history == <<session, starts, truth>>
vars == <<stored, panel, available, live, rounds, crashes, history>>

-----------------------------------------------------------------------------
Confirmed == {"succeeded", "exit_failed"}
Outcomes == Confirmed \cup {"exec_failed", "stop_failed"}
\* terminalState: results that the history may keep.
Final == Outcomes \cup {"stopped", "timed_out", "interrupted"}
Results == Final \cup {"queued", "waiting", "connecting", "running", "closing"}

NoSessions == [i \in Ids |-> [h \in Hosts |-> "none"]]
NewExec == [pc |-> "queued", completed |-> FALSE, outcome |-> "exec_failed", unconfirmed |-> FALSE]
Idle == [h \in Hosts |-> NewExec]

Init ==
    /\ disk = << >> /\ jobs = << >>
    /\ panel = "up" /\ available = TRUE
    /\ running = None /\ ctx = "live" /\ bound = [h \in Hosts |-> "live"] /\ exec = Idle
    /\ cleanup = [i \in Ids |-> {}] /\ cleaning = {}
    /\ round = [i \in Ids |-> {}] /\ dirty = {}
    /\ crashes = 0
    /\ session = NoSessions /\ truth = NoSessions
    /\ starts = [i \in Ids |-> [h \in Hosts |-> 0]]

-----------------------------------------------------------------------------
(* The job file.                                                           *)

\* persistLocked: the file is replaced, or stays what it was.
Persisted(js) == disk' = js \/ (MayFail /\ disk' = disk)

\* update: a result changes in memory and, if the write succeeds, in the file.
Update(h, r) ==
    /\ jobs' = [jobs EXCEPT ![running].result[h] = r]
    /\ IF jobs' = jobs THEN UNCHANGED disk ELSE Persisted(jobs')

\* Records that retention lets go of: settled, a day old and without cleanup.
Expired(js) == {i \in DOMAIN js : js[i].state # "running" /\ js[i].old /\ cleanup[i] = {}}

\* A record that is gone takes its history along: its identity is free again.
Forget(ids) ==
    /\ session' = [i \in Ids |-> IF i \in ids THEN NoSessions[i] ELSE session[i]]
    /\ truth' = [i \in Ids |-> IF i \in ids THEN NoSessions[i] ELSE truth[i]]
    /\ starts' = [i \in Ids |-> IF i \in ids THEN [h \in Hosts |-> 0] ELSE starts[i]]

NewJob == [state |-> "running", result |-> [h \in Hosts |-> "queued"], old |-> FALSE]

\* Mutant: the batch starts although its record may not have been written.
AdmittedAnyway(js) == Persisted(js)

\* Admission needs the record on disk.
Admitted(js) == disk' = js

\* A known identity and a second batch change nothing; a failed write neither.
Create(i) ==
    /\ panel = "up" /\ available
    /\ i \notin DOMAIN jobs /\ running = None
    /\ LET all == [j \in DOMAIN jobs \cup {i} |-> IF j = i THEN NewJob ELSE jobs[j]]
           gone == Expired(all)
       IN  /\ jobs' = Restrict(all, DOMAIN all \ gone)
           /\ Admitted(jobs')
           /\ Forget(gone)
    /\ running' = i /\ ctx' = "live"
    /\ bound' = [h \in Hosts |-> "live"] /\ exec' = Idle
    /\ UNCHANGED <<panel, available, rounds, crashes>>

Removable(i) == running # i /\ cleanup[i] = {}

Remove(i) ==
    /\ panel # "down"
    /\ i \in DOMAIN jobs /\ Removable(i)
    /\ jobs' = Restrict(jobs, DOMAIN jobs \ {i})
    /\ disk' = jobs'
    /\ Forget({i})
    /\ UNCHANGED <<panel, available, live, rounds, crashes>>

\* A settled record becomes older than the retention.
Age(i) ==
    /\ panel # "down"
    /\ i \in DOMAIN jobs /\ jobs[i].state # "running"
    /\ jobs' = [jobs EXCEPT ![i].old = TRUE]
    /\ disk' = IF i \in DOMAIN disk THEN [disk EXCEPT ![i].old = TRUE] ELSE disk
    /\ UNCHANGED <<panel, available, live, rounds, crashes, history>>

-----------------------------------------------------------------------------
(* One host of the running batch: execute and its deferred close.          *)

At(h, pc) == running # None /\ exec[h].pc = pc
Ended(h) == bound[h] # "live"
Goes(h, pc) == exec' = [exec EXCEPT ![h].pc = pc]

\* stopped: the result of a host whose context has ended.
StopResult(h) ==
    IF panel # "up" THEN "interrupted" ELSE IF bound[h] = "timeout" THEN "timed_out" ELSE "stopped"

GivesUpHost(h) == Update(h, StopResult(h)) /\ Goes(h, "done")

HostStep == UNCHANGED <<panel, available, running, ctx, bound, cleaning, round, dirty, crashes>>

Busy == {h \in Hosts : exec[h].pc \notin {"queued", "done"}}

FreeWorker == Cardinality(Busy) < Workers

Take(h) ==
    /\ At(h, "queued") /\ FreeWorker
    /\ IF Ended(h) THEN GivesUpHost(h) ELSE Update(h, "connecting") /\ Goes(h, "opening")
    /\ HostStep /\ UNCHANGED <<cleanup, history>>

OpenOk(h) ==
    /\ At(h, "opening")
    /\ session' = [session EXCEPT ![running][h] = "open"]
    /\ Update(h, "running") /\ Goes(h, "sending")
    /\ HostStep /\ UNCHANGED <<cleanup, starts, truth>>

\* Mutant: the end of the batch does not end the wait for a free session.
AfterLimitForever(h) == Update(h, "waiting") /\ Goes(h, "backoff")

AfterLimit(h) ==
    IF Ended(h) THEN GivesUpHost(h) ELSE Update(h, "waiting") /\ Goes(h, "backoff")

\* The shared pool is full: nothing was created, and the open is retried.
OpenLimit(h) ==
    /\ At(h, "opening")
    /\ AfterLimit(h)
    /\ HostStep /\ UNCHANGED <<cleanup, history>>

\* Mutant: an open of unknown outcome is retried.
AfterOpenErrorRetried(h) == Update(h, "waiting") /\ Goes(h, "backoff")

AfterOpenError(h) == Update(h, "exec_failed") /\ Goes(h, "done")

\* Any other error: a session may exist that nobody knows.
OpenError(h) ==
    /\ At(h, "opening")
    /\ \E s \in {session[running][h], "lost"} : session' = [session EXCEPT ![running][h] = s]
    /\ IF Ended(h) THEN GivesUpHost(h) ELSE AfterOpenError(h)
    /\ HostStep /\ UNCHANGED <<cleanup, starts, truth>>

Backoff(h) ==
    /\ At(h, "backoff")
    /\ \/ Ended(h) /\ GivesUpHost(h)
       \/ Goes(h, "opening") /\ UNCHANGED stored
    /\ HostStep /\ UNCHANGED <<cleanup, history>>

Began(h) == starts' = [starts EXCEPT ![running][h] = @ + 1]

\* The deferred close begins; what the worker knows is kept in its outcome.
ToClosing(h, done, outcome) ==
    /\ exec' = [exec EXCEPT ![h] = [pc |-> "closing", completed |-> done, outcome |-> outcome,
                                    unconfirmed |-> FALSE]]
    /\ Update(h, "closing")

\* The frames of the command; one that fails may have been delivered.
Send(h) ==
    /\ At(h, "sending")
    /\ \/ Began(h) /\ Goes(h, "reading") /\ UNCHANGED stored
       \/ (Began(h) \/ UNCHANGED starts) /\ ToClosing(h, FALSE, "exec_failed")
    /\ HostStep /\ UNCHANGED <<cleanup, session, truth>>

\* The output tells the exit status, or that the shell is gone.
ReadExit(h) ==
    /\ At(h, "reading")
    /\ \E r \in Confirmed :
        /\ truth' = [truth EXCEPT ![running][h] = r]
        /\ ToClosing(h, TRUE, r)
    /\ HostStep /\ UNCHANGED <<cleanup, session, starts>>

\* The context has ended, the output fails, or no completion can be found.
ReadFails(h) ==
    /\ At(h, "reading")
    /\ ToClosing(h, FALSE, "exec_failed")
    /\ HostStep /\ UNCHANGED <<cleanup, history>>

\* Close is confirmed by its answer, or by a session that is not found.
CloseOk(h) ==
    /\ At(h, "closing")
    /\ session' = [session EXCEPT ![running][h] = "closed"]
    /\ Goes(h, "finishing")
    /\ HostStep /\ UNCHANGED <<stored, cleanup, starts, truth>>

\* No answer: the session may be closed or not.
CloseError(h) ==
    /\ At(h, "closing")
    /\ \E s \in {session[running][h], "closed"} : session' = [session EXCEPT ![running][h] = s]
    /\ Goes(h, "retry")
    /\ HostStep /\ UNCHANGED <<stored, cleanup, starts, truth>>

CloseAgain(h) ==
    /\ At(h, "retry")
    /\ Goes(h, "closing")
    /\ HostStep /\ UNCHANGED <<stored, cleanup, history>>

\* Mutant: a stop during the close overrides a command that has completed.
StopUnconfirmedAlways(h) == Ended(h)

StopUnconfirmed(h) == Ended(h) /\ ~exec[h].completed

\* The batch has ended, or the deadline of the close has passed.
CloseGivesUp(h) ==
    /\ At(h, "retry")
    /\ exec' = [exec EXCEPT ![h] =
                    [pc |-> "finishing", completed |-> @.completed, unconfirmed |-> TRUE,
                     outcome |-> IF StopUnconfirmed(h) THEN "stop_failed" ELSE @.outcome]]
    /\ HostStep /\ UNCHANGED <<stored, cleanup, history>>

Finish(h) ==
    /\ At(h, "finishing")
    /\ LET e == exec[h]
       IN  Update(h, IF StopUnconfirmed(h) /\ e.outcome # "stop_failed" THEN StopResult(h) ELSE e.outcome)
    /\ Goes(h, IF exec[h].unconfirmed THEN "remembering" ELSE "done")
    /\ HostStep /\ UNCHANGED <<cleanup, history>>

\* Mutant: an unconfirmed session is remembered only if its command failed.
RememberedIfFailed(h) == IF exec[h].completed THEN {} ELSE {h}

Remembered(h) == {h}

\* rememberCleanup
Remember(h) ==
    /\ At(h, "remembering")
    /\ cleanup' = [cleanup EXCEPT ![running] = @ \cup Remembered(h)]
    /\ Goes(h, "done")
    /\ HostStep /\ UNCHANGED <<stored, history>>

\* The end of run, when the workers have drained the queue.
EndRun ==
    /\ running # None /\ \A h \in Hosts : exec[h].pc = "done"
    /\ jobs' = [jobs EXCEPT ![running].state =
                    IF panel # "up" THEN "interrupted" ELSE IF ctx # "live" THEN "stopped" ELSE "completed"]
    /\ Persisted(jobs')
    /\ running' = None /\ ctx' = "live"
    /\ bound' = [h \in Hosts |-> "live"] /\ exec' = Idle
    /\ UNCHANGED <<panel, available, rounds, crashes, history>>

-----------------------------------------------------------------------------
(* What ends a batch.                                                      *)

Ending(c, why) == IF c = "live" THEN why ELSE c

CancelBatch(why) ==
    /\ ctx' = Ending(ctx, why)
    /\ bound' = [h \in Hosts |-> Ending(bound[h], why)]

\* The batch has had its four hours.
Timeout ==
    /\ running # None /\ ctx = "live"
    /\ CancelBatch("timeout")
    /\ UNCHANGED <<stored, panel, available, running, exec, rounds, crashes, history>>

\* The access to one host is withdrawn.
Revoke(h) ==
    /\ running # None /\ bound[h] = "live"
    /\ bound' = [bound EXCEPT ![h] = "stopped"]
    /\ UNCHANGED <<stored, panel, available, running, ctx, exec, rounds, crashes, history>>

\* Mutant: a round may start after Close.
MayCleanAlways(i) == i \notin cleaning /\ cleanup[i] # {}

\* startCleanupLocked
MayClean(i) == panel = "up" /\ i \notin cleaning /\ cleanup[i] # {}

StartRounds(ids) ==
    LET new == {i \in ids : MayClean(i)}
    IN  /\ cleaning' = cleaning \cup new
        /\ round' = [i \in Ids |-> IF i \in new THEN cleanup[i] ELSE round[i]]
        /\ UNCHANGED <<cleanup, dirty>>

\* One stop also retries the sessions of the owner's other batches.
Stop(i) ==
    /\ panel # "down" /\ i \in DOMAIN jobs
    /\ IF running = i THEN CancelBatch("stopped") ELSE UNCHANGED <<ctx, bound>>
    /\ StartRounds(DOMAIN jobs)
    /\ UNCHANGED <<stored, panel, available, running, exec, crashes, history>>

-----------------------------------------------------------------------------
(* Cleanup: rounds that retry only the close.                              *)

CleanupTick ==
    /\ panel = "up"
    /\ StartRounds(Ids)
    /\ UNCHANGED <<stored, panel, available, live, crashes, history>>

AwaitsClose(r) == r = "stop_failed"

RoundCloseOk(i, h) ==
    /\ h \in round[i]
    /\ session' = [session EXCEPT ![i][h] = "closed"]
    /\ cleanup' = [cleanup EXCEPT ![i] = @ \ {h}]
    /\ round' = [round EXCEPT ![i] = @ \ {h}]
    /\ IF i \in DOMAIN jobs /\ AwaitsClose(jobs[i].result[h])
       THEN /\ jobs' = [jobs EXCEPT ![i] = [state |-> @.state, old |-> FALSE,
                                            result |-> [@.result EXCEPT ![h] = "stopped"]]]
            /\ dirty' = dirty \cup {i}
       ELSE UNCHANGED <<jobs, dirty>>
    /\ UNCHANGED <<disk, panel, available, live, cleaning, crashes, starts, truth>>

RoundCloseError(i, h) ==
    /\ h \in round[i]
    /\ session' = [session EXCEPT ![i][h] = "closed"]
    /\ UNCHANGED <<stored, panel, available, live, rounds, crashes, starts, truth>>

\* The round's deadline has passed, or the Panel closes.
RoundGivesUp(i, h) ==
    /\ h \in round[i]
    /\ round' = [round EXCEPT ![i] = @ \ {h}]
    /\ UNCHANGED <<stored, panel, available, live, cleanup, cleaning, dirty, crashes, history>>

\* Mutant: the end of a round forgets to clear its mark.
AfterRoundKept(i) == cleaning

AfterRound(i) == cleaning \ {i}

EndRound(i) ==
    /\ i \in cleaning /\ round[i] = {}
    /\ cleaning' = AfterRound(i) /\ dirty' = dirty \ {i}
    /\ UNCHANGED jobs
    /\ IF i \in dirty THEN Persisted(jobs) ELSE UNCHANGED disk
    /\ UNCHANGED <<panel, available, live, cleanup, round, crashes, history>>

-----------------------------------------------------------------------------
(* The Panel closes, crashes and starts.                                   *)

CloseBegins ==
    /\ panel = "up"
    /\ panel' = "closing"
    /\ CancelBatch("stopped")
    /\ UNCHANGED <<stored, available, running, exec, rounds, crashes, history>>

\* wg.Wait
CloseReturns ==
    /\ panel = "closing" /\ running = None /\ cleaning = {}
    /\ panel' = "closed"
    /\ UNCHANGED <<stored, available, live, rounds, crashes, history>>

\* The process ends, wherever it is: what is not on disk is gone.
Crash ==
    /\ panel # "down" /\ crashes < MaxCrashes
    /\ panel' = "down" /\ crashes' = crashes + 1
    /\ jobs' = << >>
    /\ running' = None /\ ctx' = "live"
    /\ bound' = [h \in Hosts |-> "live"] /\ exec' = Idle
    /\ cleanup' = [i \in Ids |-> {}] /\ cleaning' = {}
    /\ round' = [i \in Ids |-> {}] /\ dirty' = {}
    /\ session' = [i \in Ids |-> [h \in Hosts |->
                      IF session[i][h] = "open" THEN "lost" ELSE session[i][h]]]
    /\ UNCHANGED <<disk, available, starts, truth>>

\* Mutant: only the batch is marked, not the hosts it was busy with.
InterruptedBatchOnly(j) ==
    [j EXCEPT !.state = IF @ = "running" THEN "interrupted" ELSE @,
              !.old = @ /\ j.state # "running"]

\* What a start makes of a saved job: nothing that was under way goes on.
Interrupted(j) ==
    [j EXCEPT !.result = [h \in Hosts |-> IF @[h] \in Final THEN @[h] ELSE "interrupted"],
              !.state = IF @ = "running" THEN "interrupted" ELSE @,
              !.old = @ /\ j.state # "running"]

\* Open: if the interruption cannot be saved, no batch is admitted.
Restart ==
    /\ panel = "down"
    /\ panel' = "up"
    /\ LET all == [i \in DOMAIN disk |-> Interrupted(disk[i])]
           gone == Expired(all)
       IN  /\ jobs' = Restrict(all, DOMAIN all \ gone)
           /\ Forget(gone)
    /\ \/ disk' = jobs' /\ available' = TRUE
       \/ MayFail /\ disk' = disk /\ available' = FALSE
    /\ UNCHANGED <<live, rounds, crashes>>

-----------------------------------------------------------------------------
WorkerStep(h) ==
    \/ Take(h) \/ OpenOk(h) \/ OpenLimit(h) \/ OpenError(h) \/ Backoff(h) \/ Send(h)
    \/ ReadExit(h) \/ ReadFails(h) \/ CloseOk(h) \/ CloseError(h) \/ CloseAgain(h)
    \/ CloseGivesUp(h) \/ Finish(h) \/ Remember(h)

RoundStep(i) ==
    \/ \E h \in Hosts : RoundCloseOk(i, h) \/ RoundCloseError(i, h) \/ RoundGivesUp(i, h)
    \/ EndRound(i)

Next ==
    \/ \E i \in Ids : Create(i) \/ Remove(i) \/ Age(i) \/ Stop(i) \/ RoundStep(i)
    \/ \E h \in Hosts : WorkerStep(h) \/ Revoke(h)
    \/ EndRun \/ Timeout \/ CleanupTick
    \/ CloseBegins \/ CloseReturns \/ Crash \/ Restart

Spec == Init /\ [][Next]_vars

\* Goroutines run, calls and their retries have deadlines, a batch has one too,
\* and the ticker ticks.
Fairness ==
    /\ \A h \in Hosts : WF_vars(WorkerStep(h)) /\ SF_vars(CloseGivesUp(h))
    /\ \A i \in Ids : WF_vars(EndRound(i)) /\ \A h \in Hosts : WF_vars(RoundGivesUp(i, h))
    /\ WF_vars(EndRun) /\ WF_vars(Timeout) /\ WF_vars(CleanupTick) /\ WF_vars(CloseReturns)

FairSpec == Spec /\ Fairness

\* A host whose close is retried again and again confirms it at last.
ReachableSpec ==
    FairSpec /\ \A i \in Ids : \A h \in Hosts : SF_vars(RoundCloseOk(i, h))

-----------------------------------------------------------------------------
Jobs == [state : {"running", "completed", "stopped", "interrupted"},
         result : [Hosts -> Results], old : BOOLEAN]
Pcs == {"queued", "opening", "backoff", "sending", "reading", "closing", "retry",
        "finishing", "remembering", "done"}
Execs == [pc : Pcs, completed : BOOLEAN, outcome : Outcomes, unconfirmed : BOOLEAN]
Contexts == {"live", "stopped", "timeout"}

Types ==
    /\ DOMAIN jobs \subseteq Ids /\ \A i \in DOMAIN jobs : jobs[i] \in Jobs
    /\ DOMAIN disk \subseteq Ids /\ \A i \in DOMAIN disk : disk[i] \in Jobs
    /\ panel \in {"up", "closing", "closed", "down"} /\ available \in BOOLEAN
    /\ running \in Ids \cup {None}
    /\ ctx \in Contexts /\ bound \in [Hosts -> Contexts]
    /\ exec \in [Hosts -> Execs]
    /\ cleanup \in [Ids -> SUBSET Hosts] /\ round \in [Ids -> SUBSET Hosts]
    /\ cleaning \subseteq Ids /\ dirty \subseteq Ids
    /\ crashes \in 0..MaxCrashes
    /\ session \in [Ids -> [Hosts -> {"none", "open", "closed", "lost"}]]
    /\ truth \in [Ids -> [Hosts -> Confirmed \cup {"none"}]]
    /\ starts \in [Ids -> [Hosts -> Nat]]

TypeOK == Types /\ Cardinality(Busy) <= Workers

(***************************************************************************)
(* "Never replay saved commands" (store.go), "retries only Close, never    *)
(* the user's command" (cleanup.go): under one record, a host begins the   *)
(* command at most once, whatever is resubmitted, lost, retried, not       *)
(* written or restarted.                                                   *)
(***************************************************************************)
CommandOnce == \A i \in Ids : \A h \in Hosts : starts[i][h] <= 1

(***************************************************************************)
(* "Open may be retried ONLY when it returns terminal.ErrLimit (no PTY was *)
(* created)": a host that may have had a session for this record is never  *)
(* given another one.                                                      *)
(***************************************************************************)
OpenOnce ==
    [][\A i \in Ids : \A h \in Hosts :
        session[i][h] \in {"closed", "lost"} => session'[i][h] # "open"]_vars

(***************************************************************************)
(* No session is left to itself while the Panel lives: one that may be     *)
(* open is held by a worker of the running batch, or waits in the cleanup  *)
(* of a batch whose record the user can still see and stop.                *)
(***************************************************************************)
Held(i, h) == i = running /\ exec[h].pc \notin {"queued", "opening", "backoff", "done"}

Accounted ==
    /\ \A i \in Ids : \A h \in Hosts : session[i][h] = "open" => Held(i, h) \/ h \in cleanup[i]
    /\ \A i \in Ids : cleanup[i] # {} => i \in DOMAIN jobs

(***************************************************************************)
(* The result of a command is reported as it was: success or exit status   *)
(* appear only if the output said so, and once they are known, no stop,    *)
(* failing close, cleanup or end of the Panel changes what is reported;    *)
(* only a record that a crash cut short says "interrupted".                *)
(***************************************************************************)
ResultIsTrue ==
    \A i \in DOMAIN jobs : \A h \in Hosts :
        LET r == jobs[i].result[h]
            settled == i # running \/ exec[h].pc \in {"remembering", "done"}
        IN  /\ r \in Confirmed => truth[i][h] = r
            /\ truth[i][h] # "none" /\ settled
                => r = truth[i][h] \/ (r = "interrupted" /\ crashes > 0)

(***************************************************************************)
(* A batch that nobody executes shows nothing as under way: neither after  *)
(* its end, nor after a restart from whatever the disk had kept.           *)
(***************************************************************************)
SettledWhenIdle ==
    \A i \in DOMAIN jobs : i # running =>
        /\ jobs[i].state # "running"
        /\ \A h \in Hosts : jobs[i].result[h] \in Final

(***************************************************************************)
(* A final result stays while its record and the Panel live, except that   *)
(* a stop whose close was unconfirmed becomes "stopped".                   *)
(***************************************************************************)
FinalIsFinal ==
    [][\A i \in DOMAIN jobs \cap DOMAIN jobs' : \A h \in Hosts :
        LET r == jobs[i].result[h]
        IN  r \in Final =>
                jobs'[i].result[h] \in {r} \cup (IF r = "stop_failed" THEN {"stopped"} ELSE {})]_vars

(***************************************************************************)
(* After Close has returned, no goroutine of the manager is left, and no   *)
(* late request starts one.                                                *)
(***************************************************************************)
QuietAfterClose == panel = "closed" => running = None /\ cleaning = {}

(***************************************************************************)
(* A batch ends: full pools, silent hosts and failing closes hold it up    *)
(* only for the time it has.                                               *)
(***************************************************************************)
BatchEnds == \A i \in Ids : running = i ~> running # i

(***************************************************************************)
(* A session left behind is closed without the user's help, as long as its *)
(* host can be reached at last and the Panel runs.                         *)
(***************************************************************************)
CleanupDrains ==
    \A i \in Ids : \A h \in Hosts : h \in cleanup[i] ~> (h \notin cleanup[i] \/ panel # "up")
=============================================================================
