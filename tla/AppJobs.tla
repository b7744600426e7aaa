------------------------------- MODULE AppJobs -------------------------------
(***************************************************************************)
(* Background application tasks: the Agent (appmarket/jobs.go,             *)
(* parallel_jobs.go) admits a task, launches a unit of the init system     *)
(* (jobcontrol/jobcontrol.go) and answers polls and cancellations, while   *)
(* the worker in that unit (appmarket/terminal.go) runs the script.  The   *)
(* two processes share only files: the task's record, its cancellation     *)
(* marker and its input pipe.  Neither locks the other out, so every read  *)
(* of the record may be stale by the time the record is written.           *)
(*                                                                         *)
(* The lock Service.actions serialises starts and cancellations, so one    *)
(* variable op is the handler that holds it.  Polls take no lock.  A       *)
(* record is its status; the stages the properties tell apart, cancelling  *)
(* and interrupted, are statuses here.                                     *)
(***************************************************************************)
EXTENDS Naturals, FiniteSets

CONSTANTS
    Jobs,         \* task identities, each used by one start
    Keys,         \* applications, ports, containers and data a task reserves
    KeysOf,       \* the resource keys of each task
    MaxActive,    \* maxConcurrentAppJobs
    Pollers,      \* requests reading the task list
    MaxCancels,   \* bound: cancellations accepted
    MaxRestarts,  \* bound: crashes of the Agent or of the host
    None

ASSUME KeysAssumption == KeysOf \in [Jobs -> SUBSET Keys]
ASSUME NoneAssumption == None \notin Jobs
ASSUME BoundAssumption ==
    MaxActive \in Nat /\ MaxCancels \in Nat /\ MaxRestarts \in Nat
ASSUME PollerAssumption == "op" \notin Pollers

VARIABLES
    rec,       \* the record file: its status, "absent" when there is none
    marker,    \* the cancellation marker exists
    pipe,      \* the input pipe exists
    worker,    \* where the worker of the unit is
    verdict,   \* what the worker is about to record
    stopping,  \* the init system was asked to stop the unit
    op,        \* the handler holding Service.actions
    recon,     \* per caller: the record it reconciles, and how far it is
    agent,     \* "up", "down", "recovering"
    snapshot,  \* recovery: the tasks read as active when the Agent started
    restarts,
    result,    \* history: how the script ended
    recorded,  \* history: the end the worker wrote
    asked,     \* history: the tasks whose cancellation was accepted
    cancels

files   == <<rec, marker, pipe>>
unit    == <<worker, verdict, stopping>>
process == <<op, recon, agent, snapshot, restarts>>
history == <<result, recorded, asked, cancels>>
vars    == <<files, unit, process, history>>

Callers == {"op"} \cup Pollers
Ends    == {"succeeded", "failed", "interrupted", "cancelled"}
Status  == {"absent", "queued", "running", "cancelling"} \cup Ends

ActiveStatus == {"queued", "running", "cancelling"}
Active(j)    == rec[j] \in ActiveStatus
Recorded     == {j \in Jobs : rec[j] # "absent"}

\* What the init system reports: the unit is active until its process exits.
Alive(j) == worker[j] \notin {"none", "gone"}

Idle == [job |-> None, step |-> "next"]
NoOp == [kind |-> "none", job |-> None, step |-> "free", was |-> "absent",
         todo |-> {}]

Init ==
    /\ rec = [j \in Jobs |-> "absent"]
    /\ marker = [j \in Jobs |-> FALSE]
    /\ pipe = [j \in Jobs |-> FALSE]
    /\ worker = [j \in Jobs |-> "none"]
    /\ verdict = [j \in Jobs |-> "none"]
    /\ stopping = [j \in Jobs |-> FALSE]
    /\ op = NoOp
    /\ recon = [p \in Callers |-> Idle]
    /\ agent = "up"
    /\ snapshot = {}
    /\ restarts = 0
    /\ result = [j \in Jobs |-> "none"]
    /\ recorded = [j \in Jobs |-> "none"]
    /\ asked = {}
    /\ cancels = 0

(***************************************************************************)
(* reconcileInactiveScriptJobs: a poll runs it over the records it was     *)
(* asked for, a start over all of them before admission, a cancellation    *)
(* over its own task.                                                      *)
(***************************************************************************)
Step(p, step) == [recon EXCEPT ![p].step = step]
Rest(p)       == [recon EXCEPT ![p] = Idle]

\* Wrong: the launch grace is forgotten.
SuspectAtOnce(j) == Active(j)

\* Wrong: a task being cancelled is left to its worker.
SuspectUncancelled(j) ==
    rec[j] \in {"queued", "running"} /\ ~(op.step = "launch" /\ op.job = j)

\* A record is looked at when it is active and either being cancelled or older
\* than the launch grace, which is longer than a launch takes; an active
\* record that is younger, and any other, is passed over.
Suspect(j) == Active(j) /\ ~(op.step = "launch" /\ op.job = j)
MayPass(j) == rec[j] # "cancelling"

Look(p, j) ==
    /\ agent = "up" /\ recon[p] = Idle
    /\ \/ Suspect(j) /\ recon' = [recon EXCEPT ![p] = [job |-> j, step |-> "inspect"]]
       \/ MayPass(j) /\ recon' = recon

\* AppJob, and AppJobs for one record after another.
Poll(p, j) ==
    /\ p \in Pollers /\ Look(p, j)
    /\ UNCHANGED <<files, unit, op, agent, snapshot, restarts, history>>

ReconOwn ==
    /\ \E j \in op.todo : Look("op", j) /\ op' = [op EXCEPT !.todo = @ \ {j}]
    /\ UNCHANGED <<files, unit, agent, snapshot, restarts, history>>

\* The unit is seen inactive.
ReconDead(p) ==
    /\ agent = "up" /\ recon[p].step = "inspect"
    /\ ~Alive(recon[p].job)
    /\ recon' = Step(p, "reread")
    /\ UNCHANGED <<files, unit, op, agent, snapshot, restarts, history>>

\* The unit is running, or its state cannot be told.
ReconSkip(p) ==
    /\ agent = "up" /\ recon[p].step = "inspect"
    /\ recon' = Rest(p)
    /\ UNCHANGED <<files, unit, op, agent, snapshot, restarts, history>>

\* Wrong: the first read decides.
ReconRereadNever(p) ==
    /\ agent = "up" /\ recon[p].step = "reread"
    /\ recon' = Step(p, IF marker[recon[p].job] THEN "finish" ELSE "interrupt")
    /\ UNCHANGED <<files, unit, op, agent, snapshot, restarts, history>>

\* Wrong: the marker is not asked for.
ReconRereadUnmarked(p) ==
    /\ agent = "up" /\ recon[p].step = "reread"
    /\ recon' = IF ~Active(recon[p].job) THEN Rest(p) ELSE Step(p, "finish")
    /\ UNCHANGED <<files, unit, op, agent, snapshot, restarts, history>>

\* The record is read again, since the worker may have written its end
\* between the first read and the answer of the init system.
ReconReread(p) ==
    /\ agent = "up" /\ recon[p].step = "reread"
    /\ LET j == recon[p].job IN
       recon' = IF ~Active(j) THEN Rest(p)
                ELSE Step(p, IF marker[j] THEN "finish" ELSE "interrupt")
    /\ UNCHANGED <<files, unit, op, agent, snapshot, restarts, history>>

\* finishCancelledJob: the record first, then the pipe and the marker.
ReconFinish(p) ==
    /\ agent = "up" /\ recon[p].step = "finish"
    /\ rec' = [rec EXCEPT ![recon[p].job] = "cancelled"]
    /\ recon' = Step(p, "clear")
    /\ UNCHANGED <<marker, pipe, unit, op, agent, snapshot, restarts,
                   history>>

ReconClear(p) ==
    /\ agent = "up" /\ recon[p].step = "clear"
    /\ pipe' = [pipe EXCEPT ![recon[p].job] = FALSE]
    /\ marker' = [marker EXCEPT ![recon[p].job] = FALSE]
    /\ recon' = Rest(p)
    /\ UNCHANGED <<rec, unit, op, agent, snapshot, restarts, history>>

ReconInterrupt(p) ==
    /\ agent = "up" /\ recon[p].step = "interrupt"
    /\ rec' = [rec EXCEPT ![recon[p].job] = "interrupted"]
    /\ pipe' = [pipe EXCEPT ![recon[p].job] = FALSE]
    /\ recon' = Rest(p)
    /\ UNCHANGED <<marker, unit, op, agent, snapshot, restarts, history>>

\* The record could not be written: a later pass tries again.
ReconUnwritten(p) ==
    /\ agent = "up" /\ recon[p].step \in {"finish", "interrupt"}
    /\ recon' = Rest(p)
    /\ UNCHANGED <<files, unit, op, agent, snapshot, restarts, history>>

Reconcile(p) == \/ ReconDead(p) \/ ReconSkip(p) \/ ReconReread(p)
                \/ ReconFinish(p) \/ ReconClear(p) \/ ReconInterrupt(p)
                \/ ReconUnwritten(p)

(***************************************************************************)
(* StartInstall and StartScriptMutation, from the lock to the launch.      *)
(***************************************************************************)
Start(j) ==
    /\ agent = "up" /\ op = NoOp /\ rec[j] = "absent"
    /\ op' = [NoOp EXCEPT !.kind = "start", !.job = j, !.step = "reconcile",
                          !.todo = Recorded]
    /\ UNCHANGED <<files, unit, recon, agent, snapshot, restarts, history>>

Reconciled == op.step = "reconcile" /\ op.todo = {} /\ recon["op"] = Idle

\* canStart: no active task shares a key, and a slot is free.  A read of a
\* record may only be out of date towards refusing: an active record can
\* become an end while the list is read, never the reverse under the lock.
Conflict(j, k) == KeysOf[j] \cap KeysOf[k] # {}

CanStart(j) ==
    LET active == {k \in Jobs : Active(k)}
    IN  /\ \A k \in active : ~Conflict(j, k)
        /\ Cardinality(active) < MaxActive

Admit ==
    /\ agent = "up" /\ op.kind = "start" /\ Reconciled /\ CanStart(op.job)
    /\ rec' = [rec EXCEPT ![op.job] = "queued"]
    /\ op' = [op EXCEPT !.step = "launch"]
    /\ UNCHANGED <<marker, pipe, unit, recon, agent, snapshot, restarts,
                   history>>

\* Refused, or the record could not be written.
Refuse ==
    /\ agent = "up" /\ op.kind = "start" /\ Reconciled
    /\ op' = NoOp
    /\ UNCHANGED <<files, unit, recon, agent, snapshot, restarts, history>>

\* launchScriptJob and jobcontrol.Launch: the pipe, then the unit, which the
\* init system reports as activating from then on.
Launch ==
    /\ agent = "up" /\ op.step = "launch"
    /\ pipe' = [pipe EXCEPT ![op.job] = TRUE]
    /\ worker' = [worker EXCEPT ![op.job] = "started"]
    /\ op' = NoOp
    /\ UNCHANGED <<rec, marker, verdict, stopping, recon, agent, snapshot,
                   restarts, history>>

LaunchFails ==
    /\ agent = "up" /\ op.step = "launch"
    /\ pipe' = [pipe EXCEPT ![op.job] = FALSE]
    /\ rec' = [rec EXCEPT ![op.job] = "failed"]
    /\ op' = NoOp
    /\ UNCHANGED <<marker, unit, recon, agent, snapshot, restarts, history>>

(***************************************************************************)
(* CancelAppJob.                                                           *)
(***************************************************************************)
Cancel(j) ==
    /\ agent = "up" /\ op = NoOp /\ cancels < MaxCancels /\ rec[j] # "absent"
    /\ op' = [NoOp EXCEPT !.kind = "cancel", !.job = j, !.step = "reconcile",
                          !.todo = {j}]
    /\ UNCHANGED <<files, unit, recon, agent, snapshot, restarts, history>>

\* The record is read; a task that ended, or whose cancellation is under way,
\* is answered at once.
CancelRead ==
    /\ agent = "up" /\ op.kind = "cancel" /\ Reconciled
    /\ LET j == op.job IN
       op' = IF ~Active(j) \/ (rec[j] = "cancelling" /\ marker[j]) THEN NoOp
             ELSE [op EXCEPT !.step = "mark", !.was = rec[j]]
    /\ UNCHANGED <<files, unit, recon, agent, snapshot, restarts, history>>

CancelMark ==
    /\ agent = "up" /\ op.step = "mark" /\ cancels < MaxCancels
    /\ cancels' = cancels + 1
    /\ marker' = [marker EXCEPT ![op.job] = TRUE]
    /\ asked' = asked \cup {op.job}
    /\ op' = [op EXCEPT !.step = "show"]
    /\ UNCHANGED <<rec, pipe, unit, recon, agent, snapshot, restarts,
                   result, recorded>>

\* The copy read before the marker is written back as cancelling.
CancelShow ==
    /\ agent = "up" /\ op.step = "show"
    /\ rec' = [rec EXCEPT ![op.job] = "cancelling"]
    /\ op' = [op EXCEPT !.step = "stop"]
    /\ UNCHANGED <<marker, pipe, unit, recon, agent, snapshot, restarts,
                   history>>

CancelShowFails ==
    /\ agent = "up" /\ op.step = "show"
    /\ marker' = [marker EXCEPT ![op.job] = FALSE]
    /\ op' = NoOp
    /\ UNCHANGED <<rec, pipe, unit, recon, agent, snapshot, restarts,
                   history>>

CancelStop ==
    /\ agent = "up" /\ op.step = "stop"
    /\ stopping' = [stopping EXCEPT ![op.job] = Alive(op.job)]
    /\ pipe' = [pipe EXCEPT ![op.job] = FALSE]
    /\ op' = NoOp
    /\ UNCHANGED <<rec, marker, worker, verdict, recon, agent, snapshot,
                   restarts, history>>

\* The stop is refused, or times out after the signal was delivered: the
\* marker goes, then the record as it was read comes back.
CancelStopFails ==
    /\ agent = "up" /\ op.step = "stop"
    /\ \E delivered \in BOOLEAN :
         stopping' = [stopping EXCEPT ![op.job] = @ \/ (delivered /\ Alive(op.job))]
    /\ marker' = [marker EXCEPT ![op.job] = FALSE]
    /\ op' = [op EXCEPT !.step = "restore"]
    /\ UNCHANGED <<rec, pipe, worker, verdict, recon, agent, snapshot,
                   restarts, history>>

CancelRestore ==
    /\ agent = "up" /\ op.step = "restore"
    /\ rec' = [rec EXCEPT ![op.job] = op.was]
    /\ op' = NoOp
    /\ UNCHANGED <<marker, pipe, unit, recon, agent, snapshot, restarts,
                   history>>

Handle == \/ ReconOwn \/ Admit \/ Refuse \/ Launch \/ LaunchFails
          \/ CancelRead \/ CancelMark \/ CancelShow \/ CancelShowFails
          \/ CancelStop \/ CancelStopFails \/ CancelRestore

(***************************************************************************)
(* RunInteractiveAppJob, in the unit.                                      *)
(***************************************************************************)
\* The record is valid, the script is found and the pipe opens: the script
\* runs from here on, before the record says so.
WorkerOpen(j) ==
    /\ worker[j] = "started" /\ pipe[j]
    /\ worker' = [worker EXCEPT ![j] = "open"]
    /\ UNCHANGED <<files, verdict, stopping, process, history>>

\* The script or the pipe is missing, or the log cannot be opened and the
\* script is killed: registry.fail.
WorkerUnable(j) ==
    /\ worker[j] \in {"started", "running"}
    /\ result' = [result EXCEPT ![j] = "bad"]
    /\ rec' = [rec EXCEPT ![j] = "failed"]
    /\ recorded' = [recorded EXCEPT ![j] = "failed"]
    /\ worker' = [worker EXCEPT ![j] = "exiting"]
    /\ UNCHANGED <<marker, pipe, verdict, stopping, process, asked, cancels>>

WorkerRun(j) ==
    /\ worker[j] = "open"
    /\ rec' = [rec EXCEPT ![j] = "running"]
    /\ worker' = [worker EXCEPT ![j] = "running"]
    /\ UNCHANGED <<marker, pipe, verdict, stopping, process, history>>

\* The record cannot be written: the script is killed and nothing is recorded.
WorkerRunFails(j) ==
    /\ worker[j] = "open"
    /\ result' = [result EXCEPT ![j] = "bad"]
    /\ worker' = [worker EXCEPT ![j] = "exiting"]
    /\ UNCHANGED <<files, verdict, stopping, process, recorded, asked, cancels>>

\* updateInteractiveProgress writes the worker's own copy, stage included.
WorkerProgress(j) ==
    /\ worker[j] = "running"
    /\ rec' = [rec EXCEPT ![j] = "running"]
    /\ UNCHANGED <<marker, pipe, unit, process, history>>

\* The script exits, fails, or is killed by the time limit of the worker or by
\* the signal of a stop, and the worker looks for the cancellation marker.
ScriptEnds(j) ==
    /\ worker[j] = "running"
    /\ \E how \in {"ok", "bad"} : result' = [result EXCEPT ![j] = how]
    /\ verdict' = [verdict EXCEPT ![j] =
           IF marker[j] THEN "cancelled"
           ELSE IF result'[j] = "ok" THEN "succeeded" ELSE "failed"]
    /\ worker' = [worker EXCEPT ![j] = "judged"]
    /\ UNCHANGED <<files, stopping, process, recorded, asked, cancels>>

WorkerRecord(j) ==
    /\ worker[j] = "judged"
    /\ rec' = [rec EXCEPT ![j] = verdict[j]]
    /\ recorded' = [recorded EXCEPT ![j] = verdict[j]]
    /\ verdict' = [verdict EXCEPT ![j] = "none"]
    /\ worker' = [worker EXCEPT ![j] = "exiting"]
    /\ UNCHANGED <<marker, pipe, stopping, process, result, asked, cancels>>

\* The last write fails and the record keeps saying that the task runs.
WorkerUnrecorded(j) ==
    /\ worker[j] = "judged"
    /\ verdict' = [verdict EXCEPT ![j] = "none"]
    /\ worker' = [worker EXCEPT ![j] = "exiting"]
    /\ UNCHANGED <<files, stopping, process, history>>

\* The deferred removals, and the end of the process.
WorkerExit(j) ==
    /\ worker[j] = "exiting"
    /\ pipe' = [pipe EXCEPT ![j] = FALSE]
    /\ marker' = [marker EXCEPT ![j] = FALSE]
    /\ worker' = [worker EXCEPT ![j] = "gone"]
    /\ stopping' = [stopping EXCEPT ![j] = FALSE]
    /\ UNCHANGED <<rec, verdict, process, history>>

\* The init system ends the process group of a unit it was asked to stop.
UnitKilled(j) ==
    /\ stopping[j] /\ Alive(j)
    /\ worker' = [worker EXCEPT ![j] = "gone"]
    /\ verdict' = [verdict EXCEPT ![j] = "none"]
    /\ stopping' = [stopping EXCEPT ![j] = FALSE]
    /\ UNCHANGED <<files, process, history>>

Worker(j) == \/ WorkerOpen(j) \/ WorkerUnable(j) \/ WorkerRun(j)
             \/ WorkerRunFails(j) \/ WorkerProgress(j) \/ ScriptEnds(j)
             \/ WorkerRecord(j) \/ WorkerUnrecorded(j)
             \/ WorkerExit(j) \/ UnitKilled(j)

(***************************************************************************)
(* The restart of the Agent.                                               *)
(***************************************************************************)
\* The Agent stops, and what its handlers held in memory is lost.
AgentStops ==
    /\ agent # "down" /\ restarts < MaxRestarts
    /\ agent' = "down"
    /\ restarts' = restarts + 1
    /\ op' = NoOp
    /\ recon' = [p \in Callers |-> Idle]
    /\ snapshot' = {}
    /\ UNCHANGED <<files, history>>

\* The Agent alone: the units are not its children.
Crash == AgentStops /\ UNCHANGED unit

\* The host: no unit survives it.
Reboot ==
    /\ AgentStops
    /\ worker' = [j \in Jobs |-> IF Alive(j) THEN "gone" ELSE worker[j]]
    /\ verdict' = [j \in Jobs |-> "none"]
    /\ stopping' = [j \in Jobs |-> FALSE]

\* configureJobs reads every record, then recovers one after another.
Restart ==
    /\ agent = "down"
    /\ agent' = "recovering"
    /\ snapshot' = {j \in Jobs : Active(j)}
    /\ UNCHANGED <<files, unit, op, recon, restarts, history>>

\* recoverInterruptedJobs: a task whose unit runs, or cannot be told, is kept.
RecoverKeep(j) ==
    /\ agent = "recovering" /\ j \in snapshot
    /\ snapshot' = snapshot \ {j}
    /\ UNCHANGED <<files, unit, op, recon, agent, restarts, history>>

\* A task whose unit is gone ends, by the record read at the start.
RecoverEnd(j) ==
    /\ agent = "recovering" /\ j \in snapshot /\ ~Alive(j)
    /\ rec' = [rec EXCEPT ![j] = IF marker[j] THEN "cancelled" ELSE "interrupted"]
    /\ pipe' = [pipe EXCEPT ![j] = FALSE]
    /\ marker' = [marker EXCEPT ![j] = FALSE]
    /\ snapshot' = snapshot \ {j}
    /\ UNCHANGED <<unit, op, recon, agent, restarts, history>>

Serve ==
    /\ agent = "recovering" /\ snapshot = {}
    /\ agent' = "up"
    /\ UNCHANGED <<files, unit, op, recon, snapshot, restarts, history>>

Next ==
    \/ \E p \in Callers : Reconcile(p) \/ \E j \in Jobs : Poll(p, j)
    \/ \E j \in Jobs : Start(j) \/ Cancel(j) \/ Worker(j)
                       \/ RecoverKeep(j) \/ RecoverEnd(j)
    \/ Handle \/ Crash \/ Reboot \/ Restart \/ Serve

(***************************************************************************)
(* Fairness: somebody looks at the list, handlers run to their end, the    *)
(* init system tells the state of a unit and the disk takes a record at    *)
(* some point if asked again and again, and a worker ends its script,      *)
(* which its context limits to 45 minutes.                                 *)
(***************************************************************************)
WorkerAdvances(j) ==
    \/ WorkerOpen(j) \/ WorkerUnable(j) \/ WorkerRun(j) \/ WorkerRunFails(j)
    \/ ScriptEnds(j) \/ WorkerRecord(j)
    \/ WorkerUnrecorded(j) \/ WorkerExit(j)

Fairness ==
    /\ \A p \in Pollers :
         /\ WF_vars(Reconcile(p))
         /\ \A j \in Jobs :
              /\ SF_vars(Poll(p, j))
              /\ SF_vars(recon[p].job = j /\ ReconDead(p))
              /\ SF_vars(recon[p].job = j /\ (ReconFinish(p) \/ ReconInterrupt(p)))
    /\ WF_vars(Reconcile("op") \/ Handle)
    /\ \A j \in Jobs : WF_vars(WorkerAdvances(j))
    /\ WF_vars(Restart \/ Serve \/ \E j \in Jobs : RecoverKeep(j) \/ RecoverEnd(j))

Spec == Init /\ [][Next]_vars /\ Fairness

(***************************************************************************)
(* Properties.                                                             *)
(***************************************************************************)
TypeOK ==
    /\ rec \in [Jobs -> Status] /\ snapshot \subseteq Jobs
    /\ marker \in [Jobs -> BOOLEAN] /\ pipe \in [Jobs -> BOOLEAN]
    /\ worker \in [Jobs -> {"none", "started", "open", "running",
                             "judged", "exiting", "gone"}]
    /\ verdict \in [Jobs -> Ends \cup {"none"}]
    /\ recorded \in [Jobs -> Ends \cup {"none"}]
    /\ result \in [Jobs -> {"none", "ok", "bad"}]
    /\ stopping \in [Jobs -> BOOLEAN] /\ asked \subseteq Jobs
    /\ cancels \in 0..MaxCancels /\ restarts \in 0..MaxRestarts
    /\ agent \in {"up", "down", "recovering"}
    /\ op \in [kind : {"none", "start", "cancel"}, job : Jobs \cup {None},
               step : {"free", "reconcile", "launch", "mark", "show", "stop",
                       "restore"}, was : Status, todo : SUBSET Jobs]
    /\ recon \in [Callers -> [job : Jobs \cup {None},
                     step : {"next", "inspect", "reread", "finish", "clear",
                             "interrupt"}]]

\* The script of the task may be acting on the host.
Busy(j) == worker[j] \in {"started", "open", "running"}

\* A task keeps its resources until its process has ended, whatever
\* cancellations, polls and restarts of the Agent come between: no record
\* says that it is over while its script runs, and two tasks that share an
\* application, a container, a port or data never run at the same time.
Exclusive ==
    \A j \in Jobs : Busy(j) =>
        /\ rec[j] \notin Ends
        /\ \A k \in Jobs \ {j} : Busy(k) => ~Conflict(j, k)

\* A task shown as done was done, and one shown as cancelled was cancelled.
EndIsTrue ==
    \A j \in Jobs : /\ rec[j] = "succeeded" => result[j] = "ok"
                    /\ rec[j] = "cancelled" => j \in asked

\* The end a worker wrote stays, unless the task was being cancelled or the
\* Agent restarted: no poll, and no start, takes a finished task for an
\* interrupted one.
WorkersEndKept ==
    \A j \in Jobs :
        recorded[j] # "none" /\ j \notin asked /\ restarts = 0 =>
            rec[j] = recorded[j]

\* Every admitted task ends, although its worker may be killed or unable to
\* write its end, and the Agent and the host may restart.
JobSettles == \A j \in Jobs : Active(j) ~> ~Active(j)

\* What the documentation promises of a restart: a task is marked
\* interrupted only when it left no result.
InterruptedHasNoResult ==
    \A j \in Jobs : rec[j] = "interrupted" => recorded[j] = "none"
=============================================================================
