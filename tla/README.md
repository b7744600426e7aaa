# KPanel: specifications, model checks and proofs

TLA+ models of KPanel (Go, `src/internal`, `src/cmd`, and one file of the web
frontend), TLC instances that check them, and theorems that TLAPS checks. Read
it next to the sources: every definition of a module corresponds to lines of
the code, listed under `map` in `PROJECT.json`. Line numbers refer to the same
commit as `src/`.

Contents: [1 the system](#1-the-system) ·
[2 inventory](#2-inventory) · [3 modules](#3-modules) · [4 runs](#4-runs) ·
[5 fairness](#5-fairness) · [6 proofs](#6-proofs) · [7 findings](#7-findings) ·
[8 not modelled](#8-what-is-not-modelled) · [9 plan](#9-plan) ·
[10 how to run it](#10-how-to-run-it)

## 1 The system

KPanel manages Linux servers for one administrator. Its processes:

    browser (web/)                 AI tools (kpanel-mcp)
        | HTTPS, WebSocket              | HTTP, OAuth tokens
        v                               v
    paneld  -- unprivileged: login, public API, JSON store, cluster, batches
        | Unix socket (agentclient)          | signed HTTPS, streams
        v                                    v
    kejilion-agent -- root, this host    kejilion-node / other panels
        |  PTYs, task units, Docker, files   |  telemetry, terminal broker
        v                                    v
      shells and jobs                      shells of light nodes

* **paneld** authenticates the administrator, keeps its state in one JSON file
  (`store/store.go`, rewritten and renamed at every change), relays terminals
  and files and runs batches on many hosts.
* **kejilion-agent** runs as root and does everything that touches the host:
  shells, application jobs as service units, Docker, files, backups, updates.
* **kejilion-node** is the light node: telemetry, and a broker of root shells.
* The **browser** keeps state that matters too: typed input that has not been
  acknowledged lives in the page (`web/src/lib/terminalDuplexInput.ts`).

What makes it hard is spread over these borders: a shell is spawned outside the
lock that admitted it and must not escape a revocation or a backup; the kill of
a process tree may fail half way; typed bytes must reach a shell exactly once
through connections that break; a command sent to many hosts must never run
twice, although each answer may be lost and the panel may stop at any point;
a task's record is written by two processes that lock each other out nowhere; a
restore replaces data, services, or the administrator's identity one after
another and may be cut off between any two; logins run in parallel under limits that each of them reads before it
writes.

## 2 Inventory

The components, with state, operations, what is hard, and what would make each
correct. `PROJECT.json` lists the same components with their status.

### Modelled

| Component | State | Operations | Hard | Correct means |
|---|---|---|---|---|
| terminal session manager `terminal/manager.go` | sessions, reservations per owner with an epoch, close flags, process and PTY, bounded cache of finished sessions | Open, Close, CloseOwner, CloseAll, capture, reap, Busy | spawn outside `Manager.mu`; kill and PTY close fail separately; revocation while spawning; one spawn mutex | exact counters, both quotas, no process out of sight of `Busy`, nothing survives a revocation, failed cleanup is retried, Open returns |
| reliable PTY input `terminal/input.go` | stream, acknowledged number, window of hashes, fenced writers, freeze | claim, handoff, frame, bare write | the PTY write is outside the state lock; frames arrive twice, late, with other bytes | no frame twice, in order, an acknowledgement means written, an uncertain write is the last |
| task terminal input `terminalDuplexInput.ts`, `panel/terminal_input*.go`, `panel/job_terminal_input.go`, `agent/job_input.go`, `terminal/sequencer.go` | page window and queue, relay, registry of sequencers with epochs, FIFO | connect, send, batch, acknowledge, retry, claim, restart, end of task | two transports, calls of an abandoned attempt still waiting at the Agent, registry lost in a restart | at most once, no gap, acknowledged is complete, input settles |
| batch commands `terminalbatch/*.go` | jobs in memory and on disk, one running batch, worker per host, cleanup lists and rounds | Create, Remove, Stop, run, execute, close, cleanup tick, Close, Open | unknown outcome of every call, failing writes, crash and restart, shutdown | a command begins at most once, sessions accounted for, results tell the truth, batches and Close end |
| login budgets `auth/service.go`, `auth/passkey.go`, `auth/compute_budget.go`, login attempts of `store/store.go` | reservations, table of attempts, hash slots, password work | Login, BeginLogin, FinishLogin and their records | check-then-act across a slow hash; bounded table; crash | no budget answers too many failures, reservations returned, room for each record |
| application jobs `appmarket/jobs.go`, `parallel_jobs.go`, `terminal.go`, and background task control `jobcontrol/jobcontrol.go` | job records, cancel markers and input pipes on disk, shared by Agent and worker; units of the init system; resource keys | start, cancel, progress, end of the script, reconcile, recover | two processes write one record without a lock; launch grace; units that vanish; stops that fail after they were delivered | tasks of one resource never run together, no running task is shown as over, an end that is shown is true, every task ends |
| host backup and restore `hostbackup/restore.go`, `restore_workspace.go`, `recovery.go` | journal with phases; per data tree the target, the old copy, the staged and the discarded one; old and new containers; volumes, networks | Restore, rollback, cleanup, Recover | stop between a side effect and its journal entry; calls whose answer is lost; a rollback that is itself cut off | everything restored or everything as before, old copies kept until the commit, no service on data being moved, every restore ends |
| self update `selfupdate/service.go`, `executor.go`, `starter.go`, `agent/self_update.go` | one state file shared by Agent and updater under a lock: channel, candidate with its digest, request, failed release; the executor's transaction | SetPolicy, Check, QueueInstall, CancelQueuedInstall, Run | stop between intention, transaction and result; unsynced file; the release changes under the same version; late cancellation | an update runs only under a durable intention, installs only what was seen or observed, every request and interruption is concluded, the file stays loadable |
| identity and sessions `store/store.go`, `store/passkeys.go`, `auth/service.go`, `auth/passkey.go`, `panel/passkey.go` | the account with credential epoch and version, TOTP secret and last step, recovery codes, passkeys, sessions; pending enrollment and ceremonies; passkey origin | Login, Logout, changes of password, name, factors and keys, ceremonies in two requests, origin bound or disabled, offline recovery | slow checks between a read of the account and a write; two kinds of locks; ceremonies that outlive a change; writes that fail | a session only under the credentials in force, a code accepted once, keys and secrets only from ceremonies still valid, what protects the account can be used |
| panel identity backup `panel/backup_restore.go`, `panel/backup_handlers.go`, `store/backup.go`, `cmd/paneld/main.go` | journal with phases, record, settings files, key file, store, delegated access | export, stage, drain, apply, roll back, commit, start | requests under way, each write may fail or be the last one, the rollback too | all of the backup or nothing, no session or delegated access survives, the Panel serves again |

### Next

| Component | State | Operations | Hard | Correct means |
|---|---|---|---|---|
| terminal output `terminal/buffer.go`, `hostpty/output_log.go` | ring with base and next, log segments | Append, Output with waiting, Fail, Recover, rotate | overlap and gaps after a re-attachment, readers behind the ring | every byte once or a reported truncation, no reader sleeps past data |
| remote downloads `remotedownload/*.go` | job list and its file, segments | Create, Update, Delete, List, Open | update kept in memory after a failed write; restart; full list | active jobs never dropped, restart leaves none active |
| notifications `notification/*.go` | alert states, incidents with pending deliveries | evaluate, deliver, Configure | message sent but not recorded, channel changed meanwhile | each transition reported, none to a channel chosen later |
| cluster guards and light nodes `cluster/guard.go`, `light_store.go` | replay cache, windows, enrollments, hosts and key files | Accept, Allow, EnrollHost, DeleteHost | full caches, enrollment that fails half way | a nonce once, an enrollment once, no key without host after a start |

### Left out or late

Cluster pairing and file relay, node program, AI assistant, MCP access, remote
browser and monitoring have state of their own and come late in the plan or not
at all. The remaining ones (containers, sites, system management and
information, virtual machines, file manager, web environment, diagnostics,
redaction, metadata, offers, desktop settings, command and terminal history,
Windows node, installers, the rest of the web frontend) are calls of an external
program or kernel, functions on text, or small stores under one mutex, where a
model of the interleavings would say little. Each has a row with its reason in
`PROJECT.json`.

## 3 Modules

    SlotPool  <---implements---  TerminalSessions      ReliableInput     TaskInput
                                    ^                      ^               ^
                       TerminalSessionsProofs              +- InputProofs -+

    TerminalBatch <- TerminalBatchProofs      LoginThrottle <- LoginThrottleProofs

    SelfUpdate <- SelfUpdateProofs            AppJobs <- AppJobsProofs

    RestoreOutcome  <---implements---  HostRestore <- HostRestoreProofs

    Credentials  <---extends---  PanelRestore <- PanelRestoreProofs

Each module has an `MC...` module that only defines constants for TLC and
symmetry sets. Definitions marked "Mutant" or "Wrong" are variants of the
definition that follows them, with a plausible mistake; they are not part of the
specification and serve to show that a property can fail (`mutants` in
`PROJECT.json` says which breaks which).

### TerminalSessions (`terminal/manager.go`) and SlotPool

One element of `Calls` is one Open call; it registers at most one session, so it
also names the session. An Open call moves through `pc`: `Reserve`
(reserveOpen), `Enter` (openSpawnMu is taken and the admission is checked
again), `Start` (the starter, outside the lock), `Register` (release of the
reservation and registration in one critical section, also of a process that
came with an error), and for a failed call its own Close. `CloseBegin`, `Kill`,
`ClosePty`, `CloseFinish` are the steps of Close under `closeMu`; kill and PTY
close each have a failing outcome. `CloseOwner` raises the owner's epoch,
`CloseAll` closes the manager. `Append`, `CaptureExit`, `CapturePending` are the
capture goroutine; `Reap` the reaper with the trim of the cache. Output is only
its size, because only the byte bound of the cache reads it.

`SlotPool` is what the manager promises: a slot within the limits, given back
only when its process is gone, none granted after the pool is shut.
`TerminalSessions` implements it with `held` = calls in flight and active
sessions, `live` = processes and PTYs not known to be gone.

### ReliableInput (`terminal/input.go`, `Manager.InputContext`)

The owner of one PTY. Any frame may be offered at any time; that covers all a
network and several pages can do. A write is two steps, `BeginWrite` and its
outcome, because the state lock is not held during the PTY write while
`inputGate` is. `Handoff` is a claim by another page of a retained session.
`written` and `acks` are history variables: what the PTY was given, what was
acknowledged.

### TaskInput (page, relay, Agent)

The same promise end to end for a task's terminal, with the state machine of the
page (`page[p]`), the frames and replies of its present attempt (`relay`,
`replies`), and the Agent's registry: `entry`, `sequencer[e]`, and the call that
holds its gate. An attempt has a number `conn`; when the page gives it up
(`GivesUp`), nobody hears its replies any more, but `calls` that reached the Agent
are carried out there, and the Panel's handler goes on: nothing cancels it while
it waits for a claim (`panel/terminal_input.go:164`, and a task's target always
counts as alive), nor does it stop with a frame that it has read. The frames it
has not passed on move to `late`, and `DispatchLate` passes them on in order at any
later time, also to an Agent that has restarted. Any of them may be lost instead,
because a step of `late` is never forced. `AgentRestart` loses the registry, `TaskStep` starts
and ends the job. `taken` and `complete` are history: the frames of which the
job's FIFO took bytes, and those it took entirely; `stray` says that a claim of an
attempt given up has bound a sequencer its page does not know of. Some names differ from those of
`ReliableInput` only because `InputProofs` extends both modules.

### TerminalBatch (`terminalbatch/store.go`, `runner.go`, `cleanup.go`)

`jobs` is the manager's list and `disk` the file; `Persisted` is a write that may
fail when `MayFail`. `exec[h]` is the worker's progress on a host. Every remote
call has an outcome "unknown": `OpenError` may have made a session (`lost` if
nobody knows it), `CloseError` may have closed it, `Send` may have begun the
command. `Stop`, `Timeout`, `Revoke`, `CloseBegins` cancel contexts. `cleanup`
and `round` are the sessions left behind and the rounds that retry only their
close. `Crash` at any step keeps only `disk`; `Restart` is Open, which marks what
was under way as interrupted. `session`, `starts` and `truth` are history: what
became of each session, how often the command may have begun, what it really
answered.

### LoginThrottle (`auth/service.go`, `passkey.go`, `compute_budget.go`, `store.go`)

One element of `Attempts` is one request: a password login, a passkey login, or
the request for a passkey challenge. `Arrive` dates it, `Reserve` (under
`loginMu`) compares each budget's recorded failures plus the reservations of
others with its limit, and the room of the table with the records still to come.
`TakeSlot`, `VerifyPassword`, `VerifyPasskey` stand for the hash slot, the lock
`credentialMu` and the comparison, `RecordSecond` and `Record` for the writes,
`Leave` for the deferred releases. `Crash` forgets the memory, not the table.
Every record is dated with the arrival of its request, and the table is pruned
with that date as well, as in the code.

### AppJobs (`appmarket/jobs.go`, `parallel_jobs.go`, `terminal.go`, `jobcontrol/jobcontrol.go`)

Agent and worker are two processes that share files only: `rec[j]` is the status
in the record, `marker[j]` the cancellation marker, `pipe[j]` the input pipe.
`op` is the one handler that holds `Service.actions`: a start (`Start`, the
reconciliation of all records, `Admit` or `Refuse`, `Launch` or `LaunchFails`) or
a cancellation (`CancelRead`, `CancelMark`, `CancelShow`, `CancelStop`, each with
its failure; a stop that failed may have been delivered). `recon[p]` is a
reconciliation under way, by a reader of the list or within `op`, in the steps of
the code: look at the record, ask for the state of the unit, read again, write.
`worker[j]` is the worker in its unit, from `WorkerOpen` to `WorkerExit`;
`UnitKilled` is the effect of a stop. `Crash` stops the Agent, `Reboot` the host
with its units; `Restart`, `RecoverKeep`, `RecoverEnd` are `configureJobs` and
`recoverInterruptedJobs`, which decides by records read earlier (`snapshot`).

The stages "cancelling" and "interrupted" are statuses of the model, because
properties tell them apart. Assumed: a launch takes less than the 15 seconds of
grace; a launch that reports an error has not started the unit.

### HostRestore (`hostbackup/restore.go`, `restore_workspace.go`, `recovery.go`) and RestoreOutcome

`slot[r]` is what lies in the target, previous, next and discard directory of a
data tree; `oldc`, `newc` are the containers of each name; `made` the volumes and
networks created. The journal is `mem` in the running code and `disk` in the
file. `pc` is the step, the entry at hand and the entries a loop has left; which
entry comes next is open. A step is one Docker call, file operation or journal
write with one of three outcomes: it worked, it was refused, or it was done and
reported as failed, which for the journal is the failed sync of the directory
after the rename (`backup/files.go:156`). Before the commit any failure leads to the rollback
(`Forward`), in the rollback it is remembered and the loop goes on (`Onward`),
after the commit the rest is left to a later pass (`Cleaning`). `Crash` forgets
everything but `disk` and the host; `Recover` continues by the phase on disk.

Folded: the journal write that follows the publication of a tree, and the
connection of further networks, which touch nothing the properties read. Only the
Agent stops, not the host, so Docker's restart policies play no part. A Docker
call has no effect after its answer. Other parties that replace directories or
containers meanwhile (the identity checks) are left out.

`RestoreOutcome` is the promise: the host is anything until the decision, the
decision is "committed" only with everything restored and "undone" only with
everything as it was, and it is final. `HostRestore` implements it, with the
decision read from the journal and the site from the host. One case is part of
the promise because the code has it: the write that commits fails after its
rename. The journal then says committed, and the restore is rolled back. The
decision is "doubtful" until another record replaces it (history variable
`doubt`): the host may change, and the record may go on to "open" or to "undone",
the latter only with everything as it was. Section 7 says what a stop of the Agent
does at that point.

### SelfUpdate (`selfupdate/service.go`, `executor.go`, `starter.go`, `agent/self_update.go`)

`disk` is the state file, `durable` what a power failure leaves of it: `Save`
succeeds, is refused, or renames without syncing the directory, which the code
reports only where Run must not go on (`Attempt`). A release is a version and a
digest; `Releases` may hold two of the same version. `SetPolicy`, `Check`,
`QueueInstall` and `CancelQueuedInstall` are the Agent's operations. Each loads,
decides and saves under the file lock, so each is one step, and only while no
updater holds the lock (`run = Idle`); the lock is never waited for. A request
whose resource version is not that of the file changes nothing and is left out.
`dispatch[c]` is the call of the service manager after `QueueInstall`, outside
the lock: it may fail while the updater runs, and a cancellation that meets the
lock is lost, since the handler ignores its error.

`run` is the updater, which holds the lock from `Begin` to its end: it undoes
an open transaction (`Recover`), reads the installed version, concludes an
interrupted attempt (`Reconcile`), decides, writes its intention (`Attempt`),
hands over to the host's script (`Prepare`, `Replace`, `Conclude`, `Fail`: the
transaction `txn` keeps the version to go back to) and records the result.
`Crash` kills the updater, `PowerLoss` the host, `UpgradeByHand` is the
administrator's own update. The fields `wish`, `sight`, `since` and `tried` of
the record are history, written together with what they remember.

### Credentials (`store/store.go`, `store/passkeys.go`, `auth/*.go`, `panel/passkey.go`)

One element of `Requests` is one thing a client does: a login, a change, or a
ceremony of two HTTP requests; what it creates carries its name. `store` is the
memory and the file at once, since `Persist` (persistLocked) writes before it
answers and undoes the memory if the write fails. `store.at` numbers the states
of the credentials, a session remembers the one it was issued for, and
`spent` the second factors accepted; both are history.

A request goes through `pc`: an `Arrive` finds its session, `Verify` holds
`credentialMu` alone and consumes a factor, `CommitCodes`, `CommitOff`,
`CommitRegister`, `CommitDelete` and `CommitDisable` write. A password login
holds the lock shared (`LoginRead`, `LoginFactor`, `LoginCommit`), so two of them
check the same code at once, but ConsumeUserTOTPStep compares again. Ceremonies
keep what they saw of the account (`seen`) between their requests: `Enrol` and
`Confirm`, `CommitRegister` and `FinishRegister`, `BeginKeyLogin` and `VerifyKey`.
The locks are read off the requests (`CredentialsAlone`, `KeysShared`, ...).
`SwapService` is the new passkey service after the store has the new origin. A
version at `MaxVersion` starts again under a fresh epoch, as 2^64 - 1 does.
`Recover` is `paneld reset-password`, which needs the store's file lock and so
runs only while no Panel does.

Folded: wrong passwords, spent budgets and audits that fail are `Refuse`; the
relying party is its origin. Not in the model: expiry, limits of sessions and
ceremonies, an origin set by configuration, counters of keys, the first account.

### PanelRestore (`panel/backup_restore.go`, `cmd/paneld/main.go`)

`Credentials` with the process around it. `stage` is where that process is: it
serves, a worker has marked the record (`Mark`) and written the journal
(`StageJournal`), it drains its requests (`Drain`; those that outlast the
deadline end the process), or it is at some step of ApplyPanelRestore,
recoverPanelRestore or FinalizePanelRestore. Each step is one write, which works,
fails without effect, or fails after the file was put in place (`AtomicFile`).
`Stop` ends the process at any step, and `Start` continues by the phase of the
journal (`Resumes`). `Mark` takes the backup exported before (`Export`), which is
older than the present account, or one of another Panel. The settings files are
one value that is "mixed" while they are exchanged; `grants` is the delegated
access (MCP, OAuth, managed hosts). `store.line` counts the restores in force, to
tell accounts of different pasts apart. While the worker runs, handlers that ask
`backups.Busy` turn requests away (`Welcome`).

Folded: the record is written twice at the commit; one restore is followed, and
who may start it, its preview and its host modules are left out.

## 4 Runs

Ten runs pass; two find what section 7 reports. Every property of a passing
run has a mutant of the model that TLC rejects under the run's own
configuration. Deadlock is not checked: each of these systems may come to rest
(sessions closed, batches and tasks done, requests answered).

| Run | States | Shows |
|---|---|---|
| `terminal_concurrent` | 217 000 | Two calls of one owner, a revocation, shutdown, failing kills and closes, one retained session: `AccountingExact`, `NothingSurvivesRevocation`, refinement `ImplementsPool`, liveness `OpenReturns` |
| `terminal_cleanup` | 31 000 | The reaper and its clock: liveness `CleanupRetried` |
| `reliable_retained` | 3 100 | Three pages, two payloads, window 2, three numbers: `AtMostOnce`, `InOrder`, `AckMeansWritten` |
| `task_one_page` | 1 250 000 | One page, three frames, both transports, late delivery of an attempt given up, Agent restarts, retries: `OnceUnlessStray`, `AckedIsComplete`, liveness `InputSettles` |
| `batch` | 67 000 | One batch on one host, failing writes, two crashes, stop, timeout, shutdown, cleanup rounds: `CommandOnce`, `SettledWhenIdle`, `Accounted`, `ResultIsTrue`, `QuietAfterClose`, `OpenOnce`, liveness `BatchEnds`, `CleanupDrains` |
| `login_budgets` | 2 600 000 | Three requests of two addresses on one account, limits of one, a table of three: `Throttled`, `Balanced`, `RoomKept` |
| `app_jobs` | 153 000 | Two tasks that need one port, a reader of the list, a cancellation, a restart of the Agent or the host: `Exclusive`, `EndIsTrue`, `WorkersEndKept`, liveness `JobSettles` |
| `restore_crash` | 86 000 | Two data trees (one exists already), two containers (one replaces another), a volume, a network, three failing steps, two stops: `NothingOldLost`, `NoWriterDuringMove`, refinement `AllOrNothing`, liveness `RestoreSettles` |
| `update_crash` | 351 000 | One stable release, one preview published under two digests, a page, failing and unsynced writes, a stop or power failure, an upgrade by hand: `Loadable`, `IntentDurable`, `Authorised`, liveness `UpdateSettles` |
| `panel_restore` | 1 170 000 | Two requests of any kinds, two origins, one time step, a failing write, a stop, an own or foreign backup: `SessionsCurrent`, `FactorOnce`, `FactorsUsable`, `SwitchIsWhole`, `StaleNeverCommits`, liveness `PanelReturns` |
| `task_replay` | violation | `ReadOnce` with two pages |
| `app_restart` | violation | `InterruptedHasNoResult` |

### Bounds and why they are enough

* **Terminal sessions.** Two calls of one owner are needed for a quota to be
  contended, for one call to wait behind another at the spawn mutex, and for an
  owner's epoch to outlive the first call; further owners act on disjoint state
  and share only the global limit, which the theorems cover for any number. One
  revocation (`MaxRevocations`) hits every phase of a call. `MaxClock` 2 or 3
  passes every timeout of the instance (1 or 2). The liveness of `OpenReturns`
  does not depend on the clock, which is off there (`MaxClock = 0`), so the
  reaper closes only what exited or failed. The quotas are a theorem (`Quota`)
  and have no run of their own.
* **Input.** Window 2 with three numbers makes the ring wrap and an old frame
  fall out. Three pages fill the list of fenced writers (`MaxWriters = 1`) and
  hand over beyond it. `MaxBare` bounds writes of the old route.
* **Task input.** `MaxDrops` bounds only losses of the connection without a
  reason; those caused by answers and restarts are limited by `MaxRetries` as in
  the page. `MaxEpochs` bounds the sequencers created, and a restart comes only
  while another sequencer can follow, so a restart never leaves the page at an
  Agent that could not answer it. Three epochs let a page lose its owner and
  lose the next one, too. `MaxLate = 1` lets the frames of the first attempt
  arrive late, at any later time and after every restart; later attempts only
  repeat the case. The two safety properties are proved for any bounds;
  only `InputSettles` rests on these. With two pages one epoch suffices, since
  what goes wrong there needs no restart.
* **Batches.** One host, because what goes wrong goes wrong between the steps of
  one host, the file, and a crash; all of the run's safety is proved for any
  number of hosts, workers and batches, so only the two liveness properties rest
  on this bound. Hosts meet only at the worker they wait for, and a worker is
  left within the time limit whatever its host does. Two crashes (`MaxCrashes`)
  include one during the life after a restart.
* **Login.** Limits of one make each budget contended by two requests. The
  table of three holds one password login's two records and one more, so the
  room is contended as well. `MaxNow = 3` with a window of two lets records go
  out of the window while requests wait. The limit of two that challenge
  requests have is not reached by a single such request; the theorem covers it.
* **Application jobs.** Two tasks contend for a resource; a third adds another
  pair. One reader races every handler and worker; further readers do the same
  steps. One cancellation and one restart (`MaxCancels`, `MaxRestarts`) reach the
  races of each with a worker; the other task stays free to start meanwhile.
* **Restore.** One tree that exists and one that does not, one container that
  replaces a running one and one that is new, are the cases of the code's
  conditions; entries of a loop do not interact otherwise. Three failing steps
  (`MaxFaults`) fail the restore, its rollback and the recovery's; two stops
  (`MaxCrashes`) interrupt the restore and its recovery. Any of the failures may
  be the sync after a journal's rename, at the commit too.

* **Credentials and panel restore.** The properties speak of a session, a factor
  or a key and what happened to its account meanwhile: two requests meet pairwise
  in every order, also at the two locks, next to a session that exists before.
  One time step makes
  every login use the same code; versions up to 2 make each second change reach
  the counter's end. One failing write and one stop (`MaxFaults`, `MaxCrashes`)
  fail or cut off each step once, and the rollback that follows a failure can be
  stopped; a failure in the rollback of a failure is left out of the run. All of
  the run's safety is proved for any bounds, so only `PanelReturns` rests on them.

* **Self update.** Three releases are an installed one, a newer one, and the
  newer one under another digest; more of them repeat these relations. A period
  of one tick (`Hold`, `MaxNow`) separates "just seen" from "observed". One
  unsynced write (`MaxSlips`) and one stop (`MaxCrashes`) make a power failure
  undo any single save, or a kill interrupt any step; every write may be refused
  at any time.

## 5 Fairness

Safety is checked and proved without fairness. The liveness runs assume:

* `TerminalSessions!ProgressSpec`: goroutines run (weak fairness of each step of
  Open and Close). Open's own Close competes for `closeMu` with clients that may
  close for ever; `sync.Mutex` serves a waiter after one millisecond of
  starvation, hence strong fairness there. No outcome of kill or close is
  assumed: `OpenReturns` holds although they always fail.
* `CleanupSpec` adds the reaper's ticker, and that a kill and a close repeated
  for ever succeed at last. Without it nothing can be promised: a process in
  uninterruptible sleep is never killed.
* `TaskInput!FairSpec`: the page's event loop and the Agent's handlers run; a
  FIFO write has a deadline (`appmarket/terminal.go`), so it ends. Arrival of a
  new frame, late delivery of an attempt given up, loss of a connection, restart
  and the end of the task are never forced.
* `TerminalBatch!FairSpec`: workers, rounds and the ticker run, the batch has a
  timeout, and every close ends at its deadline (strong fairness of
  `CloseGivesUp`, because `closing` and `retry` alternate until then).
  `ReachableSpec` adds that a host whose close is repeated answers at last; only
  `CleanupDrains` needs it.

* `AppJobs!Spec`: handlers and workers run, a script ends within the 45 minutes
  of its context, somebody reads the list again and again (each page that shows
  tasks polls). The record is written and the unit's state told at last if asked
  again and again (strong fairness of the reader's steps); without it nothing can
  bring an abandoned record to its end.
* `HostRestore!Spec`: the code runs, and an unfinished restore is recovered: the
  Agent calls Recover when it starts, the administrator afterwards. Failures are
  finite (`MaxFaults`), which is the assumption that Docker and the disk work at
  last.
* `SelfUpdate!Spec`: the timer fires and the updater runs to its end. The
  recovery, the reading of the version and the writes of the file work at last if
  tried again and again (strong fairness of those steps, because each failure
  ends Run and the next one starts over). No check and no update need succeed.

* `PanelRestore!RestoreSpec`: the process that restores goes on (weak fairness
  of `Restoring` as a whole: it is one thread of control), its HTTP shutdown ends
  by its deadline, and a process that ended is started again, as the shipped
  compose file does (`restart: unless-stopped`). Requests are
  not forced to end. Failures are finite (`MaxFaults`): the disk works at last.

## 6 Proofs

TLAPS checks these for every value of the constants under the named assumptions
of the modules (finite sets of calls or requests, positive limits and windows).
The theorems worth knowing are listed under `theorems` in `PROJECT.json`.

**TerminalSessionsProofs.** `Inductive`: `IInv == TypeOK /\ Lifecycle /\
AccountingExact /\ Quota`. Accounting alone is not inductive, since the types
must exclude a second release; `Lifecycle` ties flags, process and place of each
call together: a process or PTY not known to be gone belongs to a call that is
about to register or to an active session, a Close or capture goroutine only to
a registered one, and only active sessions await a retry. From
it: `TypeCorrect`, `AccountingCorrect`, `QuotaCorrect`, `BusyCorrect`. `Quota`
needs that a step moves a call from reserved to active without leaving the set
`Held`, and that trimming the cache never drops an active session (`TrimActive`);
cardinalities are compared through the library's theorems on finite sets.
`Implements` is the refinement of `SlotPool`: the initial states, and one lemma
per group of actions that maps each to a step of the pool or a stutter.
`RevocationReaches` (`NothingSurvivesRevocation`) is about the epochs: a call that
was revoked while its spawn was under way still carries the epoch it read, and its
owner's epoch is later than that as long as any of the owner's calls is in flight
(`EpochsCatch`; `ReleaseEpochs`: it is forgotten only with the last one), so the
registration sees the difference and closes the session. A Close publishes
`closeFailed` before it lets go of the request and keeps it until the session is
closed (`CloseIsVisible`).

**InputProofs, the owner of a PTY.** `IInv` is `TypeOK`, `Fencing`, `OneWrite` and `Counting`
together with the invariants themselves: whoever wrote is the present writer or
fenced for good, and never both; a write in progress is the present writer's next
frame; the last entry of the history is the frame the counter speaks of.
`NeverTwice`, `Ordered`, `OneWriterOnly`, `InputTypes` and `Frozen` follow. `AckCorrect` needs
in addition that the hash in a slot belongs to the last number written there
(`Recorded`); its lemma `SlotsDiffer` shows that two numbers less than a window
apart never share a slot, for every window size, from the definition of `%`.

**InputProofs, a task's terminal.** `NothingLost` (`AckedIsComplete`, any number of
pages) says that an acknowledgement is true wherever it stands. `TaskInv` follows it
along its way: what a sequencer has counted is complete (`CountIsWhole`), because the
gate is held for the next frame of the stream it is bound to (`HolderIsNext`); what a
reply on its way says is complete (`ReplyIsWhole`); and a reply reaches a page only
within the attempt that sent the call, so it speaks of the page's present stream
(`CallsFit`, `RelayFits`). The same invariant gives `NothingSkipped` (the action
property `InTurn`, any number of pages): the job is given bytes of a frame only when
every earlier frame of its stream is complete. `OnceForOnePage`
(`OnceUnlessStray`) assumes that there is one page, because with two it is false
(section 7), and concludes for as long as no claim of an attempt given up has bound a
sequencer unknown to the page, because afterwards it is false, too. It covers every
stream the page takes, and all frames that arrive late. The invariant `OnceInv` has
two parts. `Orderly` holds whatever claims come late: the registry knows every
sequencer that works, unless the task has ended (`RegistryKnows`); bytes given to the
FIFO are in the history before their write ends (`HeldRead`); and an attempt is one
claim, or data of a page that has claimed (`Attempt`). `Once` holds while none has
strayed: all data that waits anywhere is of the page's present stream, and there is
none before its first claim (`Owns`); and a page's data is read once for one of two
reasons. Either the registry's sequencer is one the page was told of, which then
counts what the job has read of the stream (`Bound`); or, before batches have claimed,
there is one copy of each frame on its way, and none that waits has been read or
acknowledged (`Single`). The second reason is needed because the
Agent may restart while the first claim's acknowledgement is on its way: a late claim
of the same stream may then bind the fresh sequencer before the socket's frames meet it.

**TerminalBatchProofs.** `Base` (types and how the worker's places fit the
running batch) carries five strengthenings, each with its own step lemma:
`Sessions` (a session that may be open is with a worker or remembered; only the
running batch's session can be before its open) gives `SessionsAccountedFor`;
`Counted` (a command that may have begun belongs to a known record and to a
worker past its `sending`) gives `CommandAtMostOnce` and `SessionAtMostOnce`,
across any number of crashes: a record on disk is what keeps its identity from
being admitted again; `Reported` gives `IdleIsSettled`; `Staffed` gives the bound
of workers in `TypeCorrect`; `NothingAfterClose` follows from `Base` alone.
`Truthful` links what the output said (`truth`), the worker's outcome and the
results in memory and on disk: a worker past its reading holds the confirmed
outcome until it has recorded it, and no other result in either place is a
confirmed one. It gives `ReportsAreTrue`, and with `Base` the action property
`FinalResultsStay`.

**LoginThrottleProofs.** `Throttled` is not inductive: a request already let in
will add a failure later. `Capped` bounds what counts and what is about to: the
failures of the window together with the requests that hold a reservation and
are not decided never exceed the limit. `Reserve` preserves it because it counts
the same two sets under one lock (`Balanced` turns the counter into a set), the
later steps because they move a request from the second set into the first.
`Places` and `Verdicts` say what each request holds where; `Kept` says that a
failure answered and still in the window is still in the table: pruning with an
older date drops only what no budget counts any more. With these
`GuessesBounded`, `ReservationsReturned`, `LoginTypeCorrect`. `RoomIsKept`
(`RoomKept`) needs that, for a request under way, the records it counts and those
that may still get a date before its own fit the table together (`Roomy`): debts
are counted by date, since a request that waits long prunes by its old date.
`InFlight`, a sum over the reservations, is shown to be the number of debts, one
per request and budget it holds (`InFlightIsDebts`). The sum is a fold, and the
induction over the size of the set it needs goes by the least number at which it
would fail (`LeastNumber`, from well-foundedness of the naturals).

**SelfUpdateProofs.** `Sound` is what every saved file satisfies, history fields
included: `Valid`; a request is for the candidate the administrator saw; a
candidate is what the last successful check returned, and was first seen no
earlier than that release has been returned by every check; what was tried and
not seen installed is recorded as failed or is being attempted. One lemma per
operation shows that what it saves is sound, so that it does not matter which of
the saved files a power failure leaves. `Announced` links the updater to the
file: it works under the attempt that the file and its durable copy announce, and
decides only about a file without one. From `IInv`: `UpdateLoadable`,
`UpdateIntentDurable`, `UpdateTypeCorrect`, and the action property
`UpdateAuthorised`, for any releases, pages, observation period and number of
stops.

**AppJobsProofs.** `Exclusive` is not inductive: a poll that is about to write
an end decided on what it saw earlier. `ReconInv` says what it still knows when
it writes: the task had been admitted, it is not being launched, and its unit was
seen without a process; a task launched once, or given up, never gets a process
again, so this stays true however long the poll takes. `JobInv` ties record,
process and verdict of a task together (a process runs only under an active
record, a marker only after an accepted request), `OpInv` says what the handler
that holds the lock relies on (a start has no record yet, a launch is alone with
its resources, a cancellation holds a copy of an active record), and `PairInv`
keeps two running tasks apart. A step of a unit touches only its own task
(`UnitStep`), as does a step of the handler (`HandlerStep`). From the invariant
follow `JobsExclusive`, `JobEndsTrue` and `JobEndsKept`, for any tasks, resources,
polls, cancellations and restarts.

**PanelRestoreProofs.** The theorems are about
`RestoreSpec`, the account with the process around it. What a request or a
ceremony remembers of the account is either what the account is, or can never
match it again (`Fresh`): epochs are not reused, and within one the version only
grows. One lemma per action of `Credentials` shows what it does to the account
and the request (`Effect`); `EffectKeeps` draws the invariant from it, and
`TakesIn` says what may be added to the account, and by whom. While the identity
is replaced or put back nobody holds anything (`Quiet`), because the drain ended
each request; `PanelInv` adds the types and the journal. It gives `PanelTypes`
(`TypeOK`), `NoOldSession` (`SessionsCurrent`) and `OnlyPresentCommits`
(`StaleNeverCommits`). `SwitchInv` says per phase of the journal and stage of the
process what is on disk, hence `AllOfBackupOrNothing` (`SwitchIsWhole`).
`OriginInv` is about the lock of the passkeys: one request at a time moves the
origin, none registers a key meanwhile, and whoever has moved it holds the lock
until the service follows; with `SwitchInv` it gives `FactorsStayUsable`.
`SpentInv` says that a factor once accepted is not good any more, neither in the
account nor in the one a rollback may put back, and that the names of accepted
factors belong to requests that are done, so that none is made twice
(`CodesAcceptedOnce`, that is `FactorOnce`). Requests, origins, time steps,
failures, stops and `MaxVersion` are arbitrary.

**HostRestoreProofs.** `IInv` has one part per question. `PcOK`: which entries a
loop goes over. `JournalOK`: on the way forward memory and disk agree, and while
any code runs memory holds at least what the disk does, so that a rollback from
memory undoes no less than one after a restart. `TouchOK`: what the journal on
disk does not know of has not been touched; every change is preceded by its
entry. `DataOK`: before the commit the old tree of a root is in `target` or in
`previous`, never in both, and a tree without a predecessor is in place only when
the journal says that it may be; this is what makes a second rollback after half
of a first one safe, and gives `OldIsKept` (`NothingOldLost`). `OrderOK`: on the
way forward old containers are quiet before data moves, data is in place before
new containers exist, and each is recorded before any of them starts. `UndoOK`:
a rollback that has met no error has put back all it went over; a container whose
identity never reached the journal does not run (`OrderOK`), so a lookup that
misses it lets no writer survive. `NoWriterDuringMove` follows (`NoWriter`).
`RestoreIsAllOrNothing` is the refinement of
`RestoreOutcome`; `DecisionStep` lists the only steps that change the recorded
decision, and `WriteDecides` what a write of the journal does to it: it is in doubt
when a write that commits fails after its rename, and stays so until another record
replaces it. The one hypothesis is that there is a root, an old container that runs or a new one to
start: otherwise "as it was" and "as the backup says" are the same host and the
mapping calls both "original". Roots, containers, resources, failures and stops are
arbitrary.

**Only model-checked.** All liveness (outside this prover's reach, as is
`ENABLED`): the nine liveness properties of section 4. Every safety invariant of a
passing run is a theorem. Conversely, `Frozen`, `NothingSkipped`, `BusyCorrect`,
`QuotaCorrect` and `FinalResultsStay` are proved and have no run of their own. No
module here uses recursive operators.

## 7 Findings

* **`task_replay`.** `InputSequencer` keeps nothing of a writer that another one
  has fenced. If page A has a frame under way, page B claims the task, and A
  reconnects, A is a new writer with the count 0 under the same epoch, so A does
  not notice the change and its unacknowledged first frame is written again. The
  page's comment (`web/src/lib/terminalDuplexInput.ts:175`) says such frames
  "must never be replayed". Sessions of `Manager` keep the fenced writers and are
  not affected (theorem `NeverTwice`).
* **`app_restart`.** Recovery at the start of the Agent takes each record as it
  read it before it asked for the unit (`appmarket/jobs.go:144`), and writes it
  back as interrupted. A worker that records its success in between loses it,
  although `docs/architecture.md:121` allows that mark only for a task without a
  result, and forbids old copies. The reconciliation of a running Agent reads
  again (`:194`) and is not affected (`WorkersEndKept`).

Observed with the models and not held by a run of the project (each can be
confirmed by adding the named formula to the run of its module):

* **A claim that comes late.** One page by itself is safe (theorem
  `OnceForOnePage`) until a claim of an attempt it gave up binds a sequencer that
  it does not know of (`stray`). The page gives up its socket's claim, which the
  Panel's handler still holds; its batches claim the stream, and the first batch is
  given up with its frame written or under way. The Agent restarts, and the late
  claim reaches it: a fresh sequencer is bound to the page's present stream with the
  count 0. A page that writes batches does not claim again once it has
  (`terminalDuplexInput.ts:196`), so its retry goes there without a word of
  the new epoch, and the frame is written a second time, which the comment at
  `terminalDuplexInput.ts:175` rules out. After a loss of its owner the page's own
  earlier stream can do the same as the second page of `task_replay`: a late claim
  of it makes the sequencer forget the present one. Replace `OnceUnlessStray` by
  `ReadOnce` in `task_one_page`: TLC finds the first case within seconds.
* **A login that is not recorded.** `FinishLogin` reserves room for one record of
  the table (`auth/passkey.go:379`), but a success writes two
  (`auth/service.go:865`). With the table nearly full, the second takes the room
  promised to a login in flight, whose failure is then not recorded although its
  password was compared, which the comment at `auth/service.go:571` rules out
  (`RecordedIfEvaluated`). `RoomKept` states the guarantee that remains: it fails
  only next to such a success.
* **A failed release that is not quarantined.** If the recovery of an interrupted
  update fails, `Run` records "failed" without the release
  (`selfupdate/service.go:372`), and the next run no longer sees that an attempt
  was interrupted. When recovery works later, the same release is tried again by
  the timer, although `docs/release-channels.md:61` says that a failed version
  and digest are isolated. `Authorised` excepts exactly that (`RecoverFails`
  forgets `tried`).
* **A quarantine that the policy hides.** While updates are disabled, the
  updater's rest state is "disabled"; a policy change then shows a candidate
  that failed before as "waiting" (`service.go:254`), and it can be installed
  by hand until the next check blocks it.
* **A cancellation of another request.** A dispatch that failed late cancels
  whatever request for the same candidate is pending (`service.go:341`), also one
  that was made after its own had been carried out or dropped.
* **A commit that is reported as failed.** `AtomicFile` renames the journal and
  then syncs the directory. If that sync fails at the commit, the journal says
  `cleanup_pending` while `Restore` begins to roll back; if the Agent stops
  before the rollback is recorded, the next start takes the restore for committed
  and deletes the old containers and data. The run and the theorem include this
  failure: `AllOrNothing` states it as the decision "doubtful", the one case in which
  what the journal calls completed need not be restored. `CompletedIsRestored`
  says that it is, and is violated in `restore_crash` (`docs/backup-center.md`
  says that a commit is followed only by the cleanup of old copies). If the
  rollback had already started the old containers again, that cleanup refuses
  to delete them and the restore stays at `cleanup_pending`, which
  `RestoreSettles` excepts (`[]doubt`).
* **A container nobody finds.** The rollback looks up a container whose creation
  was not recorded; an error of that lookup counts as none found
  (`restore.go:670`). The container never ran and stays behind with its
  generated name: `NothingLeftBehind` is violated (with `Volumes = {}`, else
  the volume in use makes the rollback report an error).
* **A tree nobody owns.** If the Agent stops between the creation of the staging
  directory and its identity in the journal, no rollback may claim it, and the
  restore stays in `needs_attention`; `RestoreSettles` excepts exactly that.
* **A cancellation that never stops.** If the Agent stops between the record
  "cancelling" and the stop of the unit, later cancellations are answered as
  under way (`jobs.go:627`) and none sends the stop; the task ends by its time
  limit. A cancellation also writes over an end recorded meanwhile (`:632`) and,
  if the stop fails, restores what it had read (`:658`); reconciliation brings
  the record to an end again, as `JobSettles` shows, but not always to the true
  one.

* **A restore against a recovered password.** `paneld reset-password` looks only
  at the store, not at `panel-restore.json`. If it runs while a restore is
  pending or half done (the Panel stopped in between), the next start restores
  the identity of the backup or puts the old one back, with its password and its
  sessions, although the command has printed that all existing sessions were
  revoked (`docs/password-recovery.md` says the same). The sessions that return
  belong to the account that returns, so `SessionsCurrent` holds.
* **Codes after a restore.** A backup carries the last TOTP step of its time, so a
  code accepted shortly before a restore may be accepted once more after it.
  `FactorOnce` is stated per account history (`line`).
* **A failed preflight that touched live data.** Delegated access is reset before
  the phase "applying" (`panel/backup_restore.go:163`), so a restore that fails
  there is withdrawn with "live data untouched" (comment `:127`) but the tokens
  and grants are gone. `SwitchIsWhole` therefore says nothing of `grants` after a
  failure.
* **A record that stays "restarting".** A stop between the mark of the record
  (`panel/backup_handlers.go:694`) and the journal leaves it so: nothing at the
  next start looks for a record without a journal.
* **A restore nobody may start.** If the directory sync fails after the journal
  was renamed into place, the worker reports a failure, and a pending journal
  stays while the Panel serves. Further restores are answered as busy until the
  next start, which withdraws it. `PanelReturns` is stated from `~up` for that
  reason.

## 8 What is not modelled

* Of modelled components: text of output and command lines; a corrupt job file;
  the legacy input protocol and expiry of panel sessions in the relay; entries of
  other tasks in the Agent's registry; re-authentication next to the login budgets
  (it can make `TakeSlot` or `VerifyPassword` fail, which the model allows at any
  time); the durability of a rename whose directory was not synced, except in the
  self update.
* Of the credentials and the restore of the identity: what sections 3 and 7 name,
  and the merge of the peers' authorizations into the restored cluster state,
  which is a function on two files.
* A narrow race of the batches: one stopped between the deadline of a close and
  its record (`terminalbatch/runner.go:198`) reports "stopped" with the session
  still in cleanup.
* The components of section 2 that are planned, late or left out.

The map covers a small share of the repository's 175 000 lines. Most of these
are calls of external programs, pages, parsers and stores under one mutex; and
every model here has to be faithful and to be checked within minutes, so the
project takes the parts where order and failure decide, one after another,
rather than all of them shallowly.

* Of the self update: the parsing of releases, notes and versions, the size limit
  of the file, the host script behind the executor (its contract is assumed), a
  check with the Agent's own version after an upgrade by hand that the Agent has
  not noticed.
* Of the restore: the export of a backup with its own restart journal, the review
  of an archive, the checks before the first change, the restore of identities.
* Of the application jobs: the non-interactive worker, which only old records
  name; declarative installs, whose catalogue is empty; pruning; limits of size.

## 9 Plan

Done, in this order because the damage of a mistake is largest: shells that
escape, input typed twice, commands run twice, guessing, tasks that collide,
restores that lose data, updates that nobody asked for, sessions that outlive
their credentials.

1. **TerminalBuffer**: ring, re-attachment, readers. Abstract specification: an
   append-only log with a floor; `Buffer` implements it. Run: window of three
   bytes, two readers. Theorems: offsets and content agree with the log; a reader
   that waits is woken.
2. **DownloadJobs**, **ClusterGuard**, **LightEnrollment**,
   **Notifications**: one small module each.
3. **Composition**: `TerminalSessions` with `TerminalBatch` through `SlotPool`:
   the batch's open is a request for a slot of the remote pool.

## 10 How to run it

    tlc -workers 2 -config MCBatch.cfg MCTerminalBatch
    tlapm TerminalBatchProofs.tla

The longest TLC run takes two minutes on two cores, the proofs of a module a few
minutes.
