---------------------------- MODULE AppJobsProofs ----------------------------
(***************************************************************************)
(* Proofs about AppJobs.  The argument: whoever is about to write an end   *)
(* into a record has seen the unit of that task without a process, and a   *)
(* task that was launched once, or whose launch was given up, never gets a *)
(* process again.                                                          *)
(***************************************************************************)
EXTENDS AppJobs, TLAPS

WorkerStates == {"none", "started", "open", "running", "judged", "exiting", "gone"}
OpSteps      == {"free", "reconcile", "launch", "mark", "show", "stop", "restore"}
ReconSteps   == {"next", "inspect", "reread", "finish", "clear", "interrupt"}
OpType       == [kind : {"none", "start", "cancel"}, job : Jobs \cup {None},
                 step : OpSteps, was : Status, todo : SUBSET Jobs]
ReconType    == [job : Jobs \cup {None}, step : ReconSteps]

Typed ==
    /\ rec \in [Jobs -> Status]
    /\ marker \in [Jobs -> BOOLEAN]
    /\ worker \in [Jobs -> WorkerStates]
    /\ verdict \in [Jobs -> Ends \cup {"none"}]
    /\ recorded \in [Jobs -> Ends \cup {"none"}]
    /\ result \in [Jobs -> {"none", "ok", "bad"}]
    /\ op \in OpType
    /\ recon \in [Callers -> ReconType]
    /\ snapshot \subseteq Jobs
    /\ restarts \in Nat

\* A task: its process comes after its record, runs only under an active one,
\* and what is recorded or judged agrees with how the script ended.
JobInv(j) ==
    /\ rec[j] = "absent" => worker[j] = "none"
    /\ Busy(j) => Active(j)
    /\ worker[j] \in {"none", "started", "open", "running", "judged"} =>
         recorded[j] = "none"
    /\ verdict[j] = "none" <=> worker[j] # "judged"
    /\ verdict[j] = "succeeded" => result[j] = "ok"
    /\ verdict[j] = "cancelled" => j \in asked
    /\ marker[j] => j \in asked
    /\ rec[j] = "succeeded" => result[j] = "ok"
    /\ rec[j] = "cancelled" => j \in asked
    /\ recorded[j] # "none" /\ j \notin asked /\ restarts = 0 => rec[j] = recorded[j]
    /\ j \in snapshot => rec[j] # "absent"

PairInv(j, k) == j # k /\ Busy(j) /\ Busy(k) => ~Conflict(j, k)

\* The handler that holds the lock: a start before its admission has no
\* record, one that launches is alone with its resources, a cancellation
\* holds a copy of an active record.
Launching(j) == op.step = "launch" /\ op.job = j

OpInv ==
    /\ op.kind = "none" => op.step = "free"
    /\ op.kind = "start" => op.step \in {"reconcile", "launch"} /\ op.job \in Jobs
    /\ op.kind = "start" /\ op.step = "reconcile" => rec[op.job] = "absent"
    /\ op.step = "launch" => op.kind = "start" /\ rec[op.job] = "queued"
                             /\ worker[op.job] = "none"
                             /\ \A k \in Jobs : Busy(k) => ~Conflict(op.job, k)
    /\ op.kind = "cancel" =>
         /\ op.step \in {"reconcile", "mark", "show", "stop", "restore"}
         /\ op.job \in Jobs /\ rec[op.job] # "absent"
    /\ op.step \in {"mark", "show", "stop", "restore"} =>
         op.kind = "cancel" /\ op.was \in ActiveStatus
    /\ op.step \in {"show", "stop", "restore"} => op.job \in asked
    /\ agent # "up" => op = NoOp
    /\ agent # "up" => restarts > 0

\* A caller that reconciles: the task was admitted before and is not being
\* launched; once seen without a process it has none.
ReconInv(p) ==
    /\ recon[p].step # "next" =>
         /\ recon[p].job \in Jobs /\ rec[recon[p].job] # "absent"
         /\ ~Launching(recon[p].job)
    /\ recon[p].step \in {"reread", "finish", "interrupt", "clear"} =>
         ~Alive(recon[p].job)
    /\ recon[p].step = "finish" => recon[p].job \in asked
    /\ recon[p].step \in {"finish", "interrupt"} =>
         recorded[recon[p].job] = "none" \/ recon[p].job \in asked \/ restarts > 0

IInv ==
    /\ Typed /\ OpInv
    /\ \A j \in Jobs : JobInv(j)
    /\ \A j, k \in Jobs : PairInv(j, k)
    /\ \A p \in Callers : ReconInv(p)

\* Nothing changes but the place of a reconciliation.
LEMMA ReconOnly ==
    ASSUME IInv, UNCHANGED <<files, unit, op, agent, snapshot, restarts, history>>,
           NEW p \in Callers, NEW r \in ReconType,
           recon' = [recon EXCEPT ![p] = r],
           r.step # "next" => /\ r.job \in Jobs /\ rec[r.job] # "absent"
                              /\ ~Launching(r.job),
           r.step \in {"reread", "finish", "interrupt", "clear"} => ~Alive(r.job),
           r.step = "finish" => r.job \in asked,
           r.step \in {"finish", "interrupt"} =>
             recorded[r.job] = "none" \/ r.job \in asked \/ restarts > 0
    PROVE  IInv'
<1> USE DEF files, unit, history
<1>1. Typed'
  BY DEF IInv, Typed
<1>2. OpInv'
  BY DEF IInv, OpInv, Busy, Conflict
<1>3. ASSUME NEW j \in Jobs PROVE JobInv(j)'
  BY DEF IInv, JobInv, Busy, Active
<1>4. ASSUME NEW j \in Jobs, NEW k \in Jobs PROVE PairInv(j, k)'
  BY DEF IInv, PairInv, Busy, Conflict
<1>5. ASSUME NEW q \in Callers PROVE ReconInv(q)'
  <2>1. CASE q = p
    <3>1. recon'[q] = r
      BY <2>1 DEF IInv, Typed
    <3> QED BY <3>1 DEF ReconInv, Launching, Alive
  <2>2. CASE q # p
    <3>1. recon'[q] = recon[q]
      BY <2>2 DEF IInv, Typed
    <3> QED BY <3>1 DEF IInv, ReconInv, Launching, Alive
  <2> QED BY <2>1, <2>2
<1> QED BY <1>1, <1>2, <1>3, <1>4, <1>5 DEF IInv

LEMMA PollKeeps ==
    ASSUME IInv, NEW p \in Callers, NEW j \in Jobs, Poll(p, j) PROVE IInv'
<1>1. UNCHANGED <<files, unit, op, agent, snapshot, restarts, history>>
  BY DEF Poll
<1>2. CASE Suspect(j) /\ recon' = [recon EXCEPT ![p] = [job |-> j, step |-> "inspect"]]
  <2> DEFINE r == [job |-> j, step |-> "inspect"]
  <2>1. r \in ReconType /\ r.job = j /\ r.step = "inspect"
    BY DEF ReconType, ReconSteps
  <2>2. rec[j] # "absent" /\ ~Launching(j)
    BY <1>2 DEF Suspect, Active, ActiveStatus, Launching
  <2> HIDE DEF r
  <2>3. recon' = [recon EXCEPT ![p] = r]
    BY <1>2 DEF r
  <2> QED BY <1>1, <2>1, <2>2, <2>3, ReconOnly
<1>3. CASE recon' = recon
  <2>1. recon[p] = Idle
    BY DEF Poll, Look
  <2>2. Idle \in ReconType /\ Idle.step = "next"
    BY DEF Idle, ReconType, ReconSteps
  <2>3. recon' = [recon EXCEPT ![p] = Idle]
    BY <1>3, <2>1 DEF IInv, Typed
  <2> QED BY <1>1, <2>2, <2>3, ReconOnly
<1> QED BY <1>2, <1>3 DEF Poll, Look

\* The next step of a reconciliation, as a record.
LEMMA StepIs ==
    ASSUME IInv, NEW p \in Callers, NEW s \in ReconSteps
    PROVE  /\ [job |-> recon[p].job, step |-> s] \in ReconType
           /\ Step(p, s) = [recon EXCEPT ![p] = [job |-> recon[p].job, step |-> s]]
           /\ Idle \in ReconType /\ Idle.step = "next"
<1>1. recon \in [Callers -> ReconType] /\ recon[p] \in ReconType
  BY DEF IInv, Typed
<1>2. [job |-> recon[p].job, step |-> s] \in ReconType
  BY <1>1 DEF ReconType
<1>3. [recon[p] EXCEPT !.step = s] = [job |-> recon[p].job, step |-> s]
  BY <1>1 DEF ReconType
<1>4. Step(p, s) = [recon EXCEPT ![p] = [recon[p] EXCEPT !.step = s]]
  BY <1>1 DEF Step
<1>5. Idle \in ReconType /\ Idle.step = "next"
  BY DEF Idle, ReconType, ReconSteps
<1> QED BY <1>2, <1>3, <1>4, <1>5

\* A reconciliation writes an end, for a task that has no process.
LEMMA ReconWrites ==
    ASSUME IInv, NEW p \in Callers, NEW j \in Jobs, NEW e \in {"cancelled", "interrupted"},
           ~Alive(j), rec[j] # "absent", ~Launching(j), agent = "up",
           e = "cancelled" => j \in asked,
           recorded[j] = "none" \/ j \in asked \/ restarts > 0,
           rec' = [rec EXCEPT ![j] = e],
           UNCHANGED <<marker, unit, op, agent, snapshot, restarts, history>>,
           NEW r \in ReconType, recon' = [recon EXCEPT ![p] = r],
           r.step \in {"next", "clear"},
           r.step = "clear" => r.job = j
    PROVE  IInv'
<1> USE DEF unit, history
<1>1. Typed'
  BY DEF IInv, Typed, Status, Ends
<1>2. OpInv'
  <2>1. op.kind = "start" /\ op.step = "reconcile" => op.job # j
    BY DEF IInv, OpInv
  <2>2. op.step = "launch" => op.job # j
    BY DEF Launching
  <2>3. \A k \in Jobs : rec'[k] = IF k = j THEN e ELSE rec[k]
    BY DEF IInv, Typed
  <2>4. op.kind = "cancel" => rec'[op.job] # "absent"
    BY <2>3 DEF IInv, OpInv
  <2>5. op.step = "launch" => rec'[op.job] = "queued"
    BY <2>2, <2>3 DEF IInv, OpInv
  <2>6. op.kind = "start" /\ op.step = "reconcile" => rec'[op.job] = "absent"
    BY <2>1, <2>3 DEF IInv, OpInv
  <2> QED BY <2>4, <2>5, <2>6 DEF IInv, OpInv, Busy, Conflict
<1>3. ASSUME NEW k \in Jobs PROVE JobInv(k)'
  <2>1. rec'[k] = IF k = j THEN e ELSE rec[k]
    BY DEF IInv, Typed
  <2>2. CASE k = j
    BY <2>1, <2>2 DEF IInv, JobInv, Typed, Busy, Active, ActiveStatus, Alive, Ends
  <2>3. CASE k # j
    BY <2>1, <2>3 DEF IInv, JobInv, Busy, Active
  <2> QED BY <2>2, <2>3
<1>4. ASSUME NEW i \in Jobs, NEW k \in Jobs PROVE PairInv(i, k)'
  BY DEF IInv, PairInv, Busy, Conflict
<1>5. ASSUME NEW q \in Callers PROVE ReconInv(q)'
  <2>1. \A k \in Jobs : rec'[k] = IF k = j THEN e ELSE rec[k]
    BY DEF IInv, Typed
  <2>2. CASE q = p
    <3>1. recon'[q] = r
      BY <2>2 DEF IInv, Typed
    <3> QED BY <2>1, <3>1 DEF ReconInv, Launching, Alive
  <2>3. CASE q # p
    <3>1. recon'[q] = recon[q]
      BY <2>3 DEF IInv, Typed
    <3> QED BY <2>1, <3>1 DEF IInv, ReconInv, Launching, Alive
  <2> QED BY <2>2, <2>3
<1> QED BY <1>1, <1>2, <1>3, <1>4, <1>5 DEF IInv

LEMMA ReconcileKeeps ==
    ASSUME IInv, NEW p \in Callers, Reconcile(p) PROVE IInv'
<1> DEFINE j == recon[p].job
<1>1. ReconInv(p) /\ recon[p] \in ReconType
  BY DEF IInv, Typed
<1>2. CASE ReconDead(p)
  <2> DEFINE r == [job |-> j, step |-> "reread"]
  <2>1. r \in ReconType /\ recon' = [recon EXCEPT ![p] = r]
    BY <1>2, StepIs DEF ReconDead, ReconSteps
  <2>2. r.step = "reread" /\ r.job = j
    OBVIOUS
  <2>3. j \in Jobs /\ rec[j] # "absent" /\ ~Launching(j) /\ ~Alive(j)
    BY <1>1, <1>2 DEF ReconDead, ReconInv
  <2>4. UNCHANGED <<files, unit, op, agent, snapshot, restarts, history>>
    BY <1>2 DEF ReconDead
  <2> HIDE DEF r
  <2> QED BY <2>1, <2>2, <2>3, <2>4, ReconOnly
<1>3. CASE ReconSkip(p) \/ ReconUnwritten(p)
  <2>1. recon' = [recon EXCEPT ![p] = Idle]
        /\ UNCHANGED <<files, unit, op, agent, snapshot, restarts, history>>
    BY <1>3 DEF ReconSkip, ReconUnwritten, Rest
  <2>2. Idle \in ReconType /\ Idle.step = "next"
    BY StepIs DEF ReconSteps
  <2> QED BY <2>1, <2>2, ReconOnly
<1>4. CASE ReconReread(p)
  <2>1. j \in Jobs /\ rec[j] # "absent" /\ ~Launching(j) /\ ~Alive(j)
    BY <1>1, <1>4 DEF ReconReread, ReconInv
  <2>2. UNCHANGED <<files, unit, op, agent, snapshot, restarts, history>>
    BY <1>4 DEF ReconReread
  <2>3. CASE ~Active(j)
    <3>1. recon' = [recon EXCEPT ![p] = Idle]
      BY <1>4, <2>3 DEF ReconReread, Rest
    <3>2. Idle \in ReconType /\ Idle.step = "next"
      BY StepIs DEF ReconSteps
    <3> QED BY <2>2, <3>1, <3>2, ReconOnly
  <2>4. CASE Active(j)
    <3> DEFINE s == IF marker[j] THEN "finish" ELSE "interrupt"
               r == [job |-> j, step |-> s]
    <3>1. recon' = Step(p, s)
      BY <1>4, <2>4 DEF ReconReread
    <3>2. s \in {"finish", "interrupt"} /\ (s = "finish" => marker[j])
      OBVIOUS
    <3>3. recorded[j] = "none" \/ j \in asked \/ restarts > 0
      BY <2>1, <2>4 DEF IInv, JobInv, Typed, Active, ActiveStatus, Ends
    <3>4. s = "finish" => j \in asked
      BY <2>1, <3>2 DEF IInv, JobInv
    <3> HIDE DEF s
    <3>5. r \in ReconType /\ recon' = [recon EXCEPT ![p] = r]
      BY <3>1, <3>2, StepIs DEF ReconSteps
    <3>6. r.step = s /\ r.job = j
      OBVIOUS
    <3> HIDE DEF r
    <3> QED BY <2>1, <2>2, <3>2, <3>3, <3>4, <3>5, <3>6, ReconOnly
  <2> QED BY <2>3, <2>4
<1>5. CASE ReconFinish(p)
  <2> DEFINE r == [job |-> j, step |-> "clear"]
  <2>1. r \in ReconType /\ recon' = [recon EXCEPT ![p] = r]
    BY <1>5, StepIs DEF ReconFinish, ReconSteps
  <2>2. r.step = "clear" /\ r.job = j
    OBVIOUS
  <2>3. /\ j \in Jobs /\ rec[j] # "absent" /\ ~Launching(j) /\ ~Alive(j)
        /\ j \in asked
    BY <1>1, <1>5 DEF ReconFinish, ReconInv
  <2>4. /\ UNCHANGED <<marker, unit, op, agent, snapshot, restarts, history>>
        /\ rec' = [rec EXCEPT ![j] = "cancelled"] /\ agent = "up"
    BY <1>5 DEF ReconFinish
  <2> HIDE DEF r
  <2> QED BY <2>1, <2>2, <2>3, <2>4, ReconWrites
<1>6. CASE ReconInterrupt(p)
  <2>1. recon' = [recon EXCEPT ![p] = Idle]
    BY <1>6 DEF ReconInterrupt, Rest
  <2>2. Idle \in ReconType /\ Idle.step = "next"
    BY StepIs DEF ReconSteps
  <2>3. /\ j \in Jobs /\ rec[j] # "absent" /\ ~Launching(j) /\ ~Alive(j)
        /\ recorded[j] = "none" \/ j \in asked \/ restarts > 0
    BY <1>1, <1>6 DEF ReconInterrupt, ReconInv
  <2>4. /\ UNCHANGED <<marker, unit, op, agent, snapshot, restarts, history>>
        /\ rec' = [rec EXCEPT ![j] = "interrupted"] /\ agent = "up"
    BY <1>6 DEF ReconInterrupt
  <2> QED BY <2>1, <2>2, <2>3, <2>4, ReconWrites
<1>7. CASE ReconClear(p)
  <2> USE DEF unit, history
  <2>1. recon' = [recon EXCEPT ![p] = Idle] /\ marker' = [marker EXCEPT ![j] = FALSE]
        /\ UNCHANGED <<rec, unit, op, agent, snapshot, restarts, history>>
    BY <1>7 DEF ReconClear, Rest
  <2>2. Idle \in ReconType /\ Idle.step = "next"
    BY StepIs DEF ReconSteps
  <2>3. Typed'
    BY <2>1, <2>2 DEF IInv, Typed
  <2>4. OpInv'
    BY <2>1 DEF IInv, OpInv, Busy, Conflict
  <2>5. ASSUME NEW k \in Jobs PROVE JobInv(k)'
    <3>1. marker'[k] => marker[k]
      BY <2>1 DEF IInv, Typed
    <3> QED BY <2>1, <3>1 DEF IInv, JobInv, Busy, Active
  <2>6. ASSUME NEW i \in Jobs, NEW k \in Jobs PROVE PairInv(i, k)'
    BY <2>1 DEF IInv, PairInv, Busy, Conflict
  <2>7. ASSUME NEW q \in Callers PROVE ReconInv(q)'
    <3>1. recon'[q] = IF q = p THEN Idle ELSE recon[q]
      BY <2>1 DEF IInv, Typed
    <3> QED BY <2>1, <2>2, <3>1 DEF IInv, ReconInv, Launching, Alive
  <2> QED BY <2>3, <2>4, <2>5, <2>6, <2>7 DEF IInv
<1> QED BY <1>2, <1>3, <1>4, <1>5, <1>6, <1>7 DEF Reconcile

\* A step of a unit that is alive changes nothing but its own task.
LEMMA UnitStep ==
    ASSUME IInv, NEW j \in Jobs, Alive(j), UNCHANGED <<process, asked>>, Typed',
           \A k \in Jobs \ {j} : /\ rec'[k] = rec[k] /\ marker'[k] = marker[k]
                                 /\ worker'[k] = worker[k] /\ verdict'[k] = verdict[k]
                                 /\ result'[k] = result[k] /\ recorded'[k] = recorded[k],
           JobInv(j)', rec'[j] # "absent", Busy(j)' => Busy(j)
    PROVE  IInv'
<1> USE DEF process
<1>1. \A k \in Jobs : Busy(k)' => Busy(k)
  BY DEF Busy
<1>2. OpInv'
  <2>1. op.kind = "start" /\ op.step = "reconcile" => op.job # j /\ op.job \in Jobs
    BY DEF IInv, OpInv, JobInv, Alive
  <2>2. op.step = "launch" => op.job # j /\ op.job \in Jobs
    BY DEF IInv, OpInv, Alive
  <2>3. op.kind = "cancel" => rec'[op.job] # "absent"
    BY DEF IInv, OpInv
  <2>4. op.step = "launch" =>
          /\ rec'[op.job] = "queued" /\ worker'[op.job] = "none"
          /\ \A k \in Jobs : Busy(k)' => ~Conflict(op.job, k)
    BY <1>1, <2>2 DEF IInv, OpInv
  <2>5. op.kind = "start" /\ op.step = "reconcile" => rec'[op.job] = "absent"
    BY <2>1 DEF IInv, OpInv
  <2> QED BY <2>3, <2>4, <2>5 DEF IInv, OpInv, Conflict
<1>3. ASSUME NEW k \in Jobs PROVE JobInv(k)'
  <2>1. CASE k = j
    BY <2>1
  <2>2. CASE k # j
    BY <2>2 DEF IInv, JobInv, Busy, Active
  <2> QED BY <2>1, <2>2
<1>4. ASSUME NEW i \in Jobs, NEW k \in Jobs PROVE PairInv(i, k)'
  BY <1>1 DEF IInv, PairInv, Conflict
<1>5. ASSUME NEW q \in Callers PROVE ReconInv(q)'
  <2>1. ReconInv(q) /\ recon'[q] = recon[q] /\ op' = op
    BY DEF IInv
  <2>2. CASE recon[q].job = j
    BY <2>1, <2>2 DEF ReconInv, Launching, Typed, IInv, ReconType, ReconSteps
  <2>3. CASE recon[q].job # j
    BY <2>1, <2>3 DEF ReconInv, Launching, Alive, Typed, IInv, ReconType, ReconSteps
  <2> QED BY <2>2, <2>3
<1> QED BY <1>2, <1>3, <1>4, <1>5 DEF IInv

LEMMA WorkerKeeps ==
    ASSUME IInv, NEW j \in Jobs, Worker(j) PROVE IInv'
<1> USE DEF files, history, process
<1> DEFINE Others ==
      \A k \in Jobs \ {j} : /\ rec'[k] = rec[k] /\ marker'[k] = marker[k]
                            /\ worker'[k] = worker[k] /\ verdict'[k] = verdict[k]
                            /\ result'[k] = result[k] /\ recorded'[k] = recorded[k]
<1>1. Typed /\ JobInv(j)
  BY DEF IInv
<1>2. CASE WorkerOpen(j)
  <2>1. Typed' /\ Others /\ UNCHANGED <<process, asked>>
    BY <1>1, <1>2 DEF WorkerOpen, Typed, WorkerStates, Status, Ends
  <2>2. Alive(j) /\ rec'[j] # "absent" /\ (Busy(j)' => Busy(j))
    BY <1>1, <1>2 DEF WorkerOpen, Typed, JobInv, Alive, Busy, Status, Ends
  <2>3. JobInv(j)'
    BY <1>1, <1>2, <2>2 DEF WorkerOpen, Typed, JobInv, Busy, Active, ActiveStatus, Ends
  <2> QED BY <2>1, <2>2, <2>3, UnitStep
<1>3. CASE WorkerUnable(j)
  <2>1. Typed' /\ Others /\ UNCHANGED <<process, asked>>
    BY <1>1, <1>3 DEF WorkerUnable, Typed, WorkerStates, Status, Ends
  <2>2. Alive(j) /\ rec'[j] # "absent" /\ (Busy(j)' => Busy(j))
    BY <1>1, <1>3 DEF WorkerUnable, Typed, JobInv, Alive, Busy, Status, Ends
  <2>3. JobInv(j)'
    BY <1>1, <1>3, <2>2 DEF WorkerUnable, Typed, JobInv, Busy, Active, ActiveStatus, Ends
  <2> QED BY <2>1, <2>2, <2>3, UnitStep
<1>4. CASE WorkerRun(j)
  <2>1. Typed' /\ Others /\ UNCHANGED <<process, asked>>
    BY <1>1, <1>4 DEF WorkerRun, Typed, WorkerStates, Status, Ends
  <2>2. Alive(j) /\ rec'[j] # "absent" /\ (Busy(j)' => Busy(j))
    BY <1>1, <1>4 DEF WorkerRun, Typed, JobInv, Alive, Busy, Status, Ends
  <2>3. JobInv(j)'
    BY <1>1, <1>4, <2>2 DEF WorkerRun, Typed, JobInv, Busy, Active, ActiveStatus, Ends
  <2> QED BY <2>1, <2>2, <2>3, UnitStep
<1>5. CASE WorkerProgress(j)
  <2>1. Typed' /\ Others /\ UNCHANGED <<process, asked>>
    BY <1>1, <1>5 DEF WorkerProgress, Typed, WorkerStates, Status, Ends, unit
  <2>2. Alive(j) /\ rec'[j] # "absent" /\ (Busy(j)' => Busy(j))
    BY <1>1, <1>5 DEF WorkerProgress, Typed, JobInv, Alive, Busy, Status, Ends, unit
  <2>3. JobInv(j)'
    BY <1>1, <1>5, <2>2 DEF WorkerProgress, Typed, JobInv, Busy, Active, ActiveStatus, Ends, unit
  <2> QED BY <2>1, <2>2, <2>3, UnitStep
<1>6. CASE WorkerRunFails(j)
  <2>1. Typed' /\ Others /\ UNCHANGED <<process, asked>>
    BY <1>1, <1>6 DEF WorkerRunFails, Typed, WorkerStates, Status, Ends
  <2>2. Alive(j) /\ rec'[j] # "absent" /\ (Busy(j)' => Busy(j))
    BY <1>1, <1>6 DEF WorkerRunFails, Typed, JobInv, Alive, Busy, Status, Ends
  <2>3. JobInv(j)'
    BY <1>1, <1>6, <2>2 DEF WorkerRunFails, Typed, JobInv, Busy, Active, ActiveStatus, Ends
  <2> QED BY <2>1, <2>2, <2>3, UnitStep
<1>7. CASE ScriptEnds(j)
  <2>1. Typed' /\ Others /\ UNCHANGED <<process, asked>>
    BY <1>1, <1>7 DEF ScriptEnds, Typed, WorkerStates, Status, Ends
  <2>2. Alive(j) /\ rec'[j] # "absent" /\ (Busy(j)' => Busy(j))
    BY <1>1, <1>7 DEF ScriptEnds, Typed, JobInv, Alive, Busy, Status, Ends
  <2>3. JobInv(j)'
    BY <1>1, <1>7, <2>2 DEF ScriptEnds, Typed, JobInv, Busy, Active, ActiveStatus, Ends
  <2> QED BY <2>1, <2>2, <2>3, UnitStep
<1>8. CASE WorkerRecord(j)
  <2>1. verdict[j] \in Ends
    BY <1>1, <1>8 DEF WorkerRecord, Typed, JobInv
  <2>2. verdict[j] \in Status \ {"absent"}
    BY <2>1 DEF Status, Ends
  <2>3. Typed' /\ Others /\ UNCHANGED <<process, asked>>
    BY <1>1, <1>8, <2>1, <2>2 DEF WorkerRecord, Typed, WorkerStates
  <2>4. rec'[j] = verdict[j] /\ worker'[j] = "exiting"
    BY <1>1, <1>8 DEF WorkerRecord, Typed
  <2>5. Alive(j) /\ rec'[j] # "absent" /\ (Busy(j)' => Busy(j))
    BY <1>8, <2>2, <2>4 DEF WorkerRecord, Alive, Busy
  <2>6. JobInv(j)'
    BY <1>1, <1>8, <2>5 DEF WorkerRecord, Typed, JobInv, Busy, Active, ActiveStatus, Ends
  <2> QED BY <2>3, <2>5, <2>6, UnitStep
<1>9. CASE WorkerUnrecorded(j)
  <2>1. Typed' /\ Others /\ UNCHANGED <<process, asked>>
    BY <1>1, <1>9 DEF WorkerUnrecorded, Typed, WorkerStates, Status, Ends
  <2>2. Alive(j) /\ rec'[j] # "absent" /\ (Busy(j)' => Busy(j))
    BY <1>1, <1>9 DEF WorkerUnrecorded, Typed, JobInv, Alive, Busy, Status, Ends
  <2>3. JobInv(j)'
    BY <1>1, <1>9, <2>2 DEF WorkerUnrecorded, Typed, JobInv, Busy, Active, ActiveStatus, Ends
  <2> QED BY <2>1, <2>2, <2>3, UnitStep
<1>10. CASE WorkerExit(j)
  <2>1. Typed' /\ Others /\ UNCHANGED <<process, asked>>
    BY <1>1, <1>10 DEF WorkerExit, Typed, WorkerStates, Status, Ends
  <2>2. Alive(j) /\ rec'[j] # "absent" /\ (Busy(j)' => Busy(j))
    BY <1>1, <1>10 DEF WorkerExit, Typed, JobInv, Alive, Busy, Status, Ends
  <2>3. JobInv(j)'
    BY <1>1, <1>10, <2>2 DEF WorkerExit, Typed, JobInv, Busy, Active, ActiveStatus, Ends
  <2> QED BY <2>1, <2>2, <2>3, UnitStep
<1>11. CASE UnitKilled(j)
  <2>1. Typed' /\ Others /\ UNCHANGED <<process, asked>>
    BY <1>1, <1>11 DEF UnitKilled, Typed, WorkerStates, Status, Ends
  <2>2. Alive(j) /\ rec'[j] # "absent" /\ (Busy(j)' => Busy(j))
    BY <1>1, <1>11 DEF UnitKilled, Typed, JobInv, Alive, Busy, Status, Ends
  <2>3. JobInv(j)'
    BY <1>1, <1>11, <2>2 DEF UnitKilled, Typed, JobInv, Busy, Active, ActiveStatus, Ends
  <2> QED BY <2>1, <2>2, <2>3, UnitStep
<1> QED BY <1>2, <1>3, <1>4, <1>5, <1>6, <1>7, <1>8, <1>9, <1>10, <1>11 DEF Worker

\* A step of the handler changes the handler, and files and unit of its task.
LEMMA HandlerStep ==
    ASSUME IInv, agent = "up", NEW j \in Jobs,
           UNCHANGED <<verdict, result, recorded, recon, agent, snapshot, restarts>>,
           Typed', OpInv',
           \A k \in Jobs \ {j} : /\ rec'[k] = rec[k] /\ marker'[k] = marker[k]
                                 /\ worker'[k] = worker[k],
           asked \subseteq asked', asked' \subseteq asked \cup {j},
           JobInv(j)', rec'[j] # "absent",
           Busy(j)' => Busy(j) \/ \A k \in Jobs : Busy(k) => ~Conflict(j, k),
           worker'[j] = worker[j] \/ Launching(j),
           op'.step = "launch" => op'.job = j /\ rec[j] = "absent"
    PROVE  IInv'
<1>1. ASSUME NEW k \in Jobs PROVE JobInv(k)'
  <2>1. CASE k = j
    BY <2>1
  <2>2. CASE k # j
    BY <2>2 DEF IInv, JobInv, Busy, Active
  <2> QED BY <2>1, <2>2
<1>2. ASSUME NEW i \in Jobs, NEW k \in Jobs PROVE PairInv(i, k)'
  <2>1. \A x \in Jobs \ {j} : Busy(x)' <=> Busy(x)
    BY DEF Busy
  <2>2. Conflict(i, k) <=> Conflict(k, i)
    BY DEF Conflict
  <2>3. PairInv(i, k)
    BY DEF IInv
  <2>4. CASE i # j /\ k # j
    BY <2>1, <2>3, <2>4 DEF PairInv, Conflict
  <2>5. CASE i = j /\ k # j
    BY <2>1, <2>3, <2>5 DEF PairInv, Conflict
  <2>6. CASE i # j /\ k = j
    BY <2>1, <2>2, <2>3, <2>6 DEF PairInv, Conflict
  <2>7. CASE i = k
    BY <2>7 DEF PairInv
  <2> QED BY <2>4, <2>5, <2>6, <2>7
<1>3. ASSUME NEW q \in Callers PROVE ReconInv(q)'
  <2>1. ReconInv(q) /\ recon'[q] = recon[q] /\ recon[q] \in ReconType
    BY DEF IInv, Typed
  <2>2. CASE recon[q].step = "next"
    BY <2>1, <2>2 DEF ReconInv
  <2>3. CASE recon[q].step # "next"
    <3>1. recon[q].job \in Jobs /\ rec[recon[q].job] # "absent" /\ ~Launching(recon[q].job)
      BY <2>1, <2>3 DEF ReconInv
    <3>2. rec'[recon[q].job] # "absent"
      BY <3>1
    <3>3. worker'[recon[q].job] = worker[recon[q].job]
      BY <3>1
    <3>4. ~Launching(recon[q].job)'
      BY <2>1, <3>1 DEF Launching
    <3> QED BY <2>1, <3>1, <3>2, <3>3, <3>4 DEF ReconInv, Alive
  <2> QED BY <2>2, <2>3
<1> QED BY <1>1, <1>2, <1>3 DEF IInv

\* Only the handler changes.
LEMMA OpStep ==
    ASSUME IInv, UNCHANGED <<rec, marker, worker, verdict, result, recorded, recon,
                             agent, snapshot, restarts, asked>>,
           op' \in OpType, OpInv', op'.step # "launch"
    PROVE  IInv'
<1>1. Typed'
  BY DEF IInv, Typed
<1>2. ASSUME NEW j \in Jobs PROVE JobInv(j)'
  BY DEF IInv, JobInv, Busy, Active
<1>3. ASSUME NEW j \in Jobs, NEW k \in Jobs PROVE PairInv(j, k)'
  BY DEF IInv, PairInv, Busy, Conflict
<1>4. ASSUME NEW q \in Callers PROVE ReconInv(q)'
  BY DEF IInv, ReconInv, Launching, Alive
<1> QED BY <1>1, <1>2, <1>3, <1>4 DEF IInv

LEMMA NoOpIs ==
    /\ NoOp \in OpType /\ NoOp.kind = "none" /\ NoOp.step = "free" /\ NoOp.job = None
    /\ NoOp.todo = {} /\ NoOp.was = "absent"
BY DEF NoOp, OpType, OpSteps, Status

LEMMA NoOpInv == ASSUME op' = NoOp, agent' = "up" PROVE OpInv'
BY NoOpIs DEF OpInv

LEMMA StartKeeps == ASSUME IInv, NEW j \in Jobs, Start(j) PROVE IInv'
<1> USE DEF files, unit, history
<1>1. op' = [kind |-> "start", job |-> j, step |-> "reconcile", was |-> "absent",
             todo |-> Recorded]
  BY DEF Start, NoOp
<1>2. op' \in OpType /\ op'.kind = "start" /\ op'.job = j /\ op'.step = "reconcile"
  BY <1>1 DEF OpType, OpSteps, Status, Recorded
<1>3. OpInv'
  BY <1>2 DEF Start, OpInv
<1> QED BY <1>2, <1>3, OpStep DEF Start

LEMMA CancelKeeps == ASSUME IInv, NEW j \in Jobs, Cancel(j) PROVE IInv'
<1> USE DEF files, unit, history
<1>1. op' = [kind |-> "cancel", job |-> j, step |-> "reconcile", was |-> "absent",
             todo |-> {j}]
  BY DEF Cancel, NoOp
<1>2. op' \in OpType /\ op'.kind = "cancel" /\ op'.job = j /\ op'.step = "reconcile"
  BY <1>1 DEF OpType, OpSteps, Status
<1>3. OpInv'
  BY <1>2 DEF Cancel, OpInv
<1> QED BY <1>2, <1>3, OpStep DEF Cancel

\* The handler reads one more record before its own step.
LEMMA ReconOwnKeeps == ASSUME IInv, ReconOwn PROVE IInv'
<1> USE DEF files, unit, history
<1>1. PICK j \in op.todo : Look("op", j) /\ op' = [op EXCEPT !.todo = @ \ {j}]
  BY DEF ReconOwn
<1>2. /\ Typed /\ op \in OpType /\ "op" \in Callers /\ j \in Jobs
      /\ agent' = agent /\ agent = "up"
  BY <1>1 DEF IInv, Typed, OpType, Callers, Look, ReconOwn
<1>3. /\ op' \in OpType /\ op'.kind = op.kind /\ op'.job = op.job
      /\ op'.step = op.step /\ op'.was = op.was
  BY <1>1, <1>2 DEF OpType
<1>4. /\ rec' = rec /\ marker' = marker /\ worker' = worker /\ verdict' = verdict
      /\ result' = result /\ recorded' = recorded /\ asked' = asked
      /\ snapshot' = snapshot /\ restarts' = restarts
  BY DEF ReconOwn
<1>5. \/ recon' = recon
      \/ /\ Suspect(j)
         /\ recon' = [recon EXCEPT !["op"] = [job |-> j, step |-> "inspect"]]
  BY <1>1 DEF Look
<1>6. recon' \in [Callers -> ReconType]
  BY <1>2, <1>5 DEF Typed, ReconType, ReconSteps
<1>7. Typed'
  BY <1>3, <1>4, <1>6 DEF IInv, Typed
<1>8. OpInv'
  <2>1. OpInv
    BY DEF IInv
  <2> QED BY <1>2, <1>3, <1>4, <2>1 DEF OpInv, Busy, Conflict
<1>9. ASSUME NEW k \in Jobs PROVE JobInv(k)'
  BY <1>4 DEF IInv, JobInv, Busy, Active
<1>10. ASSUME NEW i \in Jobs, NEW k \in Jobs PROVE PairInv(i, k)'
  BY <1>4 DEF IInv, PairInv, Busy, Conflict
<1>11. ASSUME NEW q \in Callers PROVE ReconInv(q)'
  <2>1. ReconInv(q)
    BY DEF IInv
  <2>2. CASE recon'[q] = recon[q]
    BY <1>3, <1>4, <2>1, <2>2 DEF ReconInv, Launching, Alive
  <2>3. CASE recon'[q] # recon[q]
    <3>1. q = "op" /\ Suspect(j) /\ recon'[q] = [job |-> j, step |-> "inspect"]
      BY <1>2, <1>5, <2>3 DEF Typed
    <3>2. recon'[q].job = j /\ recon'[q].step = "inspect"
      BY <3>1
    <3>3. rec[j] # "absent" /\ ~Launching(j)
      BY <3>1 DEF Suspect, Active, ActiveStatus, Launching
    <3> QED BY <1>2, <1>3, <1>4, <3>2, <3>3 DEF ReconInv, Launching
  <2> QED BY <2>2, <2>3
<1> QED BY <1>7, <1>8, <1>9, <1>10, <1>11 DEF IInv

LEMMA AdmitKeeps == ASSUME IInv, Admit PROVE IInv'
<1> USE DEF unit, history
<1>0. PICK j \in Jobs : j = op.job
  BY DEF IInv, Typed, OpType, Admit, Reconciled, OpInv
<1>1. /\ Typed /\ OpInv /\ op \in OpType /\ op.kind = "start"
      /\ op.step = "reconcile" /\ j \in Jobs /\ rec[j] = "absent"
  BY <1>0 DEF IInv, Typed, Admit, Reconciled, OpInv
<1>2. /\ op' \in OpType /\ op'.kind = "start" /\ op'.job = j /\ op'.step = "launch"
  BY <1>0, <1>1 DEF Admit, OpType, OpSteps
<1>3. \A k \in Jobs : rec'[k] = IF k = j THEN "queued" ELSE rec[k]
  BY <1>0, <1>1 DEF Admit, Typed
<1>4. /\ marker' = marker /\ worker' = worker /\ verdict' = verdict
      /\ result' = result /\ recorded' = recorded /\ asked' = asked
      /\ recon' = recon /\ agent' = agent /\ agent = "up"
      /\ snapshot' = snapshot /\ restarts' = restarts
  BY DEF Admit
<1>5. Typed'
  BY <1>0, <1>1, <1>2, <1>4 DEF Typed, Admit, Status
<1>6. worker[j] = "none"
  BY <1>0, <1>1 DEF IInv, JobInv
<1>7. \A k \in Jobs : Busy(k) => ~Conflict(j, k)
  BY <1>0 DEF IInv, JobInv, Admit, CanStart
<1>8. OpInv'
  <2>1. rec'[j] = "queued"
    BY <1>0, <1>1, <1>3
  <2>2. \A k \in Jobs : Busy(k)' => ~Conflict(j, k)
    BY <1>4, <1>7 DEF Busy
  <2> QED BY <1>2, <1>4, <1>6, <1>1, <2>1, <2>2 DEF OpInv, Conflict
<1>9. JobInv(j)'
  BY <1>0, <1>1, <1>3, <1>4, <1>6 DEF IInv, JobInv, Typed, Busy, Active, ActiveStatus, Ends
<1>10. rec'[j] # "absent" /\ (Busy(j)' => Busy(j)) /\ worker'[j] = worker[j]
  BY <1>0, <1>1, <1>3, <1>4 DEF Busy
<1> QED BY <1>0, <1>1, <1>2, <1>3, <1>4, <1>5, <1>8, <1>9, <1>10, HandlerStep

LEMMA LaunchKeeps == ASSUME IInv, Launch PROVE IInv'
<1> USE DEF history
<1>0. PICK j \in Jobs : j = op.job
  BY DEF IInv, Typed, OpType, Launch, OpInv
<1>1. /\ Typed /\ OpInv /\ op.kind = "start" /\ op.step = "launch" /\ j \in Jobs
      /\ rec[j] = "queued" /\ worker[j] = "none"
      /\ \A k \in Jobs : Busy(k) => ~Conflict(j, k)
  BY <1>0 DEF IInv, Launch, OpInv
<1>2. \A k \in Jobs : worker'[k] = IF k = j THEN "started" ELSE worker[k]
  BY <1>0, <1>1 DEF Launch, Typed
<1>3. /\ rec' = rec /\ marker' = marker /\ verdict' = verdict
      /\ result' = result /\ recorded' = recorded /\ asked' = asked
      /\ recon' = recon /\ agent' = agent /\ agent = "up"
      /\ snapshot' = snapshot /\ restarts' = restarts /\ op' = NoOp
  BY DEF Launch
<1>4. Typed'
  BY <1>0, <1>1, <1>3, NoOpIs DEF Typed, Launch, WorkerStates
<1>5. OpInv'
  BY <1>3, NoOpInv
<1>6. JobInv(j)'
  <2>1. JobInv(j)
    BY <1>0, <1>1 DEF IInv
  <2>2. worker'[j] = "started"
    BY <1>0, <1>1, <1>2
  <2>3. rec'[j] = "queued"
    BY <1>0, <1>1, <1>3
  <2> QED BY <1>0, <1>1, <1>3, <2>1, <2>2, <2>3 DEF JobInv, Busy, Active, ActiveStatus
<1>7. rec'[j] # "absent" /\ Launching(j) /\ op'.step # "launch"
  BY <1>0, <1>1, <1>3, NoOpIs DEF Launching
<1> QED BY <1>0, <1>1, <1>2, <1>3, <1>4, <1>5, <1>6, <1>7, HandlerStep

LEMMA LaunchFailsKeeps == ASSUME IInv, LaunchFails PROVE IInv'
<1> USE DEF unit, history
<1>0. PICK j \in Jobs : j = op.job
  BY DEF IInv, Typed, OpType, LaunchFails, OpInv
<1>1. /\ Typed /\ OpInv /\ op.kind = "start" /\ op.step = "launch" /\ j \in Jobs
      /\ rec[j] = "queued" /\ worker[j] = "none"
  BY <1>0 DEF IInv, LaunchFails, OpInv
<1>2. \A k \in Jobs : rec'[k] = IF k = j THEN "failed" ELSE rec[k]
  BY <1>0, <1>1 DEF LaunchFails, Typed
<1>3. /\ worker' = worker /\ marker' = marker /\ verdict' = verdict
      /\ result' = result /\ recorded' = recorded /\ asked' = asked
      /\ recon' = recon /\ agent' = agent /\ agent = "up"
      /\ snapshot' = snapshot /\ restarts' = restarts /\ op' = NoOp
  BY DEF LaunchFails
<1>4. Typed'
  BY <1>0, <1>1, <1>3, NoOpIs DEF Typed, LaunchFails, Status, Ends
<1>5. OpInv'
  BY <1>3, NoOpInv
<1>6. JobInv(j)'
  <2>1. JobInv(j)
    BY <1>0, <1>1 DEF IInv
  <2>2. rec'[j] = "failed"
    BY <1>0, <1>1, <1>2
  <2> QED BY <1>0, <1>1, <1>3, <2>1, <2>2 DEF JobInv, Busy
<1>7. rec'[j] # "absent" /\ (Busy(j)' => Busy(j)) /\ op'.step # "launch"
  BY <1>0, <1>1, <1>2, <1>3, NoOpIs DEF Busy
<1> QED BY <1>0, <1>1, <1>2, <1>3, <1>4, <1>5, <1>6, <1>7, HandlerStep

\* Steps after which the handler is free, or at another step of the same
\* cancellation.
LEMMA RefuseKeeps == ASSUME IInv, Refuse \/ CancelStop PROVE IInv'
<1>1. op' = NoOp /\ agent' = "up"
  BY DEF Refuse, CancelStop
<1>2. UNCHANGED <<rec, marker, worker, verdict, result, recorded, recon,
                  agent, snapshot, restarts, asked>>
  BY DEF Refuse, CancelStop, files, unit, history
<1> QED BY <1>1, <1>2, NoOpIs, NoOpInv, OpStep

LEMMA CancelReadKeeps == ASSUME IInv, CancelRead PROVE IInv'
<1>0. PICK j \in Jobs : j = op.job
  BY DEF IInv, Typed, OpType, CancelRead, OpInv
<1>1. /\ Typed /\ OpInv /\ op \in OpType /\ op.kind = "cancel" /\ agent = "up"
      /\ op.step = "reconcile" /\ j \in Jobs /\ rec[j] # "absent" /\ rec[j] \in Status
  BY <1>0 DEF IInv, Typed, CancelRead, Reconciled, OpInv
<1>2. UNCHANGED <<rec, marker, worker, verdict, result, recorded, recon,
                  agent, snapshot, restarts, asked>>
  BY DEF CancelRead, files, unit, history
<1>3. CASE op' = NoOp
  BY <1>0, <1>1, <1>2, <1>3, NoOpIs, NoOpInv, OpStep
<1>4. CASE Active(j) /\ op' = [op EXCEPT !.step = "mark", !.was = rec[j]]
  <2>1. /\ op' \in OpType /\ op'.kind = "cancel" /\ op'.job = j /\ op'.step = "mark"
        /\ op'.was = rec[j]
    BY <1>0, <1>1, <1>4 DEF OpType, OpSteps
  <2>2. rec[j] \in ActiveStatus
    BY <1>4 DEF Active
  <2>3. OpInv'
    BY <1>0, <1>1, <1>2, <2>1, <2>2 DEF OpInv, ActiveStatus
  <2> QED BY <1>2, <2>1, <2>3, OpStep
<1> QED BY <1>0, <1>3, <1>4 DEF CancelRead

LEMMA CancelMarkKeeps == ASSUME IInv, CancelMark PROVE IInv'
<1> USE DEF unit, history
<1>0. PICK j \in Jobs : j = op.job
  BY DEF IInv, Typed, OpType, CancelMark, OpInv
<1>1. /\ Typed /\ OpInv /\ op \in OpType /\ op.kind = "cancel" /\ agent = "up"
      /\ op.step = "mark" /\ rec[j] # "absent" /\ op.was \in ActiveStatus
  BY <1>0 DEF IInv, Typed, CancelMark, OpInv
<1>2. /\ op' \in OpType /\ op'.kind = "cancel" /\ op'.job = j /\ op'.step = "show"
      /\ op'.was = op.was
  BY <1>0, <1>1 DEF CancelMark, OpType, OpSteps
<1>3. /\ \A k \in Jobs \ {j} : marker'[k] = marker[k]
      /\ asked' = asked \cup {j}
  BY <1>0, <1>1 DEF CancelMark, Typed
<1>4. /\ rec' = rec /\ worker' = worker /\ verdict' = verdict
      /\ result' = result /\ recorded' = recorded
      /\ recon' = recon /\ agent' = agent
      /\ snapshot' = snapshot /\ restarts' = restarts
  BY DEF CancelMark
<1>5. Typed'
  BY <1>0, <1>1, <1>2, <1>4 DEF Typed, CancelMark
<1>6. OpInv'
  BY <1>1, <1>2, <1>3, <1>4 DEF OpInv
<1>7. JobInv(j)'
  BY <1>0, <1>1, <1>3, <1>4 DEF IInv, JobInv, Busy, Active
<1>8. rec'[j] # "absent" /\ (Busy(j)' => Busy(j))
  BY <1>1, <1>4 DEF Busy
<1>9. asked \subseteq asked' /\ asked' \subseteq asked \cup {j}
  BY <1>3
<1> QED BY <1>1, <1>2, <1>3, <1>4, <1>5, <1>6, <1>7, <1>8, <1>9, HandlerStep

\* The record is written as cancelling, or as it was read: under an active
\* status either way.
LEMMA CancelShowKeeps == ASSUME IInv, CancelShow PROVE IInv'
<1> USE DEF unit, history
<1>0. PICK j \in Jobs : j = op.job
  BY DEF IInv, Typed, OpType, CancelShow, OpInv
<1>1. /\ Typed /\ OpInv /\ op \in OpType /\ op.kind = "cancel" /\ agent = "up"
      /\ op.step = "show" /\ j \in asked /\ op.was \in ActiveStatus
  BY <1>0 DEF IInv, Typed, CancelShow, OpInv
<1>2. /\ op' \in OpType /\ op'.kind = "cancel" /\ op'.job = j /\ op'.step = "stop"
      /\ op'.was = op.was
  BY <1>0, <1>1 DEF CancelShow, OpType, OpSteps
<1>3. \A k \in Jobs : rec'[k] = IF k = j THEN "cancelling" ELSE rec[k]
  BY <1>0, <1>1 DEF CancelShow, Typed
<1>4. /\ marker' = marker /\ worker' = worker /\ verdict' = verdict
      /\ result' = result /\ recorded' = recorded /\ asked' = asked
      /\ recon' = recon /\ agent' = agent
      /\ snapshot' = snapshot /\ restarts' = restarts
  BY DEF CancelShow
<1>5. Typed'
  BY <1>0, <1>1, <1>2, <1>4 DEF Typed, CancelShow, Status
<1>6. rec'[j] = "cancelling" /\ rec'[j] # "absent" /\ (Busy(j)' => Busy(j))
  BY <1>3, <1>4 DEF Busy
<1>7. OpInv'
  BY <1>1, <1>2, <1>4, <1>6 DEF OpInv
<1>8. JobInv(j)'
  BY <1>0, <1>1, <1>4, <1>6 DEF IInv, JobInv, Typed, Busy, Active, ActiveStatus
<1> QED BY <1>1, <1>2, <1>3, <1>4, <1>5, <1>6, <1>7, <1>8, HandlerStep

LEMMA CancelRestoreKeeps == ASSUME IInv, CancelRestore PROVE IInv'
<1> USE DEF unit, history
<1>0. PICK j \in Jobs : j = op.job
  BY DEF IInv, Typed, OpType, CancelRestore, OpInv
<1>1. /\ Typed /\ OpInv /\ op \in OpType /\ op.kind = "cancel" /\ agent = "up"
      /\ op.step = "restore" /\ j \in asked /\ op.was \in ActiveStatus
  BY <1>0 DEF IInv, Typed, CancelRestore, OpInv
<1>2. op' = NoOp
  BY DEF CancelRestore
<1>3. \A k \in Jobs : rec'[k] = IF k = j THEN op.was ELSE rec[k]
  BY <1>0, <1>1 DEF CancelRestore, Typed
<1>4. /\ marker' = marker /\ worker' = worker /\ verdict' = verdict
      /\ result' = result /\ recorded' = recorded /\ asked' = asked
      /\ recon' = recon /\ agent' = agent
      /\ snapshot' = snapshot /\ restarts' = restarts
  BY DEF CancelRestore
<1>5. Typed'
  BY <1>0, <1>1, <1>2, <1>4, NoOpIs DEF Typed, CancelRestore, OpType
<1>6. rec'[j] \in ActiveStatus /\ rec'[j] # "absent" /\ (Busy(j)' => Busy(j))
  BY <1>1, <1>3, <1>4 DEF Busy, ActiveStatus
<1>7. OpInv'
  BY <1>1, <1>2, <1>4, NoOpInv
<1>8. JobInv(j)'
  BY <1>0, <1>1, <1>4, <1>6 DEF IInv, JobInv, Typed, Busy, Active, ActiveStatus
<1> QED BY <1>1, <1>2, <1>3, <1>4, <1>5, <1>6, <1>7, <1>8, NoOpIs, HandlerStep

\* The marker is taken back.
LEMMA CancelUndoKeeps ==
    ASSUME IInv, CancelShowFails \/ CancelStopFails PROVE IInv'
<1> USE DEF unit, history
<1>0. PICK j \in Jobs : j = op.job
  BY DEF IInv, Typed, OpType, CancelShowFails, CancelStopFails, OpInv
<1>1. /\ Typed /\ OpInv /\ op \in OpType /\ op.kind = "cancel" /\ agent = "up"
      /\ op.step \in {"show", "stop"} /\ j \in asked /\ op.was \in ActiveStatus
      /\ rec[j] # "absent"
  BY <1>0 DEF IInv, Typed, CancelShowFails, CancelStopFails, OpInv
<1>2. \/ op' = NoOp
      \/ /\ op' \in OpType /\ op'.kind = "cancel" /\ op'.job = j
         /\ op'.step = "restore" /\ op'.was = op.was
  BY <1>0, <1>1 DEF CancelShowFails, CancelStopFails, OpType, OpSteps
<1>3. marker' = [marker EXCEPT ![j] = FALSE]
  BY <1>0 DEF CancelShowFails, CancelStopFails
<1>4. /\ rec' = rec /\ worker' = worker /\ verdict' = verdict
      /\ result' = result /\ recorded' = recorded /\ asked' = asked
      /\ recon' = recon /\ agent' = agent
      /\ snapshot' = snapshot /\ restarts' = restarts
  BY DEF CancelShowFails, CancelStopFails
<1>5. Typed'
  BY <1>1, <1>2, <1>3, <1>4, NoOpIs DEF Typed
<1>6. marker'[j] = FALSE /\ \A k \in Jobs \ {j} : marker'[k] = marker[k]
  BY <1>1, <1>3 DEF Typed
<1>7. OpInv'
  <2>1. CASE op' = NoOp
    BY <1>1, <1>4, <2>1, NoOpInv
  <2>2. CASE op' # NoOp
    BY <1>1, <1>2, <1>4, <2>2 DEF OpInv
  <2> QED BY <2>1, <2>2
<1>8. JobInv(j)'
  BY <1>0, <1>4, <1>6 DEF IInv, JobInv, Busy, Active
<1>9. rec'[j] # "absent" /\ (Busy(j)' => Busy(j)) /\ op'.step # "launch"
  BY <1>1, <1>2, <1>4, NoOpIs DEF Busy
<1> QED BY <1>1, <1>4, <1>5, <1>6, <1>7, <1>8, <1>9, HandlerStep

LEMMA HandleKeeps == ASSUME IInv, Handle PROVE IInv'
BY ReconOwnKeeps, AdmitKeeps, LaunchKeeps, LaunchFailsKeeps, RefuseKeeps,
   CancelReadKeeps, CancelMarkKeeps, CancelShowKeeps, CancelRestoreKeeps,
   CancelUndoKeeps DEF Handle

\* The Agent stops: nobody holds the lock and nobody reconciles, and every
\* unit is as it was or has ended.
LEMMA AgentStopsKeeps == ASSUME IInv, Crash \/ Reboot PROVE IInv'
<1> USE DEF files, history
<1>1. /\ rec' = rec /\ marker' = marker /\ result' = result /\ recorded' = recorded
      /\ asked' = asked /\ op' = NoOp /\ recon' = [p \in Callers |-> Idle]
      /\ snapshot' = {} /\ restarts' = restarts + 1
  BY DEF Crash, Reboot, AgentStops
<1>2. Typed /\ restarts \in Nat
  BY DEF IInv, Typed
<1>3. Idle \in ReconType /\ Idle.step = "next"
  BY DEF Idle, ReconType, ReconSteps
<1>4. /\ worker' \in [Jobs -> WorkerStates] /\ verdict' \in [Jobs -> Ends \cup {"none"}]
      /\ \A j \in Jobs : \/ worker'[j] = worker[j] /\ verdict'[j] = verdict[j]
                         \/ worker'[j] = "gone" /\ verdict'[j] = "none" /\ Alive(j)
                         \/ worker'[j] = worker[j] /\ verdict'[j] = "none" /\ ~Alive(j)
  <2>1. CASE Crash
    BY <1>2, <2>1 DEF Crash, unit, Typed
  <2>2. CASE Reboot
    BY <1>2, <2>2 DEF Reboot, Typed, WorkerStates, Alive
  <2> QED BY <2>1, <2>2
<1>5. Typed'
  BY <1>1, <1>2, <1>3, <1>4, NoOpIs DEF Typed
<1>6. OpInv'
  <2>1. restarts' > 0
    BY <1>1, <1>2
  <2> QED BY <1>1, <2>1, NoOpIs DEF OpInv
<1>7. ASSUME NEW j \in Jobs PROVE JobInv(j)'
  <2>1. restarts' # 0
    BY <1>1, <1>2
  <2>2. JobInv(j)
    BY DEF IInv
  <2>3. CASE worker'[j] = worker[j] /\ verdict'[j] = verdict[j]
    BY <1>1, <2>1, <2>2, <2>3 DEF JobInv, Busy, Active
  <2>4. CASE worker'[j] = "gone" /\ verdict'[j] = "none" /\ Alive(j)
    BY <1>1, <2>1, <2>2, <2>4 DEF JobInv, Busy, Active, Alive
  <2>5. CASE worker'[j] = worker[j] /\ verdict'[j] = "none" /\ ~Alive(j)
    BY <1>1, <2>1, <2>2, <2>5 DEF JobInv, Busy, Active, Alive
  <2> QED BY <1>4, <2>3, <2>4, <2>5
<1>8. ASSUME NEW i \in Jobs, NEW k \in Jobs PROVE PairInv(i, k)'
  <2>1. (Busy(i)' => Busy(i)) /\ (Busy(k)' => Busy(k))
    BY <1>4 DEF Busy
  <2> QED BY <2>1 DEF IInv, PairInv, Conflict
<1>9. ASSUME NEW q \in Callers PROVE ReconInv(q)'
  BY <1>1, <1>3 DEF ReconInv
<1> QED BY <1>5, <1>6, <1>7, <1>8, <1>9 DEF IInv

\* Only the Agent's own progress through its restart changes.
LEMMA AgentStep ==
    ASSUME IInv, UNCHANGED <<rec, marker, worker, verdict, result, recorded, op,
                             recon, restarts, asked>>,
           agent # "up", snapshot' \subseteq {j \in Jobs : rec[j] # "absent"}
    PROVE  IInv'
<1>1. Typed'
  BY DEF IInv, Typed
<1>2. OpInv'
  <2>1. op' = NoOp /\ restarts' > 0
    BY DEF IInv, OpInv
  <2> QED BY <2>1, NoOpIs DEF OpInv
<1>3. ASSUME NEW j \in Jobs PROVE JobInv(j)'
  BY DEF IInv, JobInv, Busy, Active
<1>4. ASSUME NEW j \in Jobs, NEW k \in Jobs PROVE PairInv(j, k)'
  BY DEF IInv, PairInv, Busy, Conflict
<1>5. ASSUME NEW q \in Callers PROVE ReconInv(q)'
  BY DEF IInv, ReconInv, Launching, Alive
<1> QED BY <1>1, <1>2, <1>3, <1>4, <1>5 DEF IInv

LEMMA RecoverEndKeeps == ASSUME IInv, NEW j \in Jobs, RecoverEnd(j) PROVE IInv'
<1> USE DEF unit, history
<1>1. /\ Typed /\ OpInv /\ JobInv(j) /\ op = NoOp /\ restarts > 0
      /\ ~Alive(j) /\ j \in snapshot /\ rec[j] # "absent"
  BY DEF IInv, OpInv, JobInv, RecoverEnd
<1>2. PICK e \in {"cancelled", "interrupted"} :
        rec' = [rec EXCEPT ![j] = e] /\ (e = "cancelled" => j \in asked)
  BY <1>1 DEF RecoverEnd, JobInv
<1>3. /\ marker' = [marker EXCEPT ![j] = FALSE]
      /\ worker' = worker /\ verdict' = verdict /\ result' = result
      /\ recorded' = recorded /\ asked' = asked /\ op' = op /\ recon' = recon
      /\ agent' = agent /\ agent # "up" /\ restarts' = restarts
      /\ snapshot' = snapshot \ {j}
  BY DEF RecoverEnd
<1>4. \A k \in Jobs : /\ rec'[k] = IF k = j THEN e ELSE rec[k]
                      /\ marker'[k] => marker[k]
  BY <1>1, <1>2, <1>3 DEF Typed
<1>5. Typed'
  BY <1>1, <1>2, <1>3 DEF Typed, Status, Ends
<1>6. OpInv'
  BY <1>1, <1>3, NoOpIs DEF OpInv
<1>7. ASSUME NEW k \in Jobs PROVE JobInv(k)'
  <2>1. JobInv(k)
    BY DEF IInv
  <2>2. CASE k = j
    BY <1>1, <1>2, <1>3, <1>4, <2>1, <2>2 DEF JobInv, Busy, Alive
  <2>3. CASE k # j
    BY <1>3, <1>4, <2>1, <2>3 DEF JobInv, Busy, Active
  <2> QED BY <2>2, <2>3
<1>8. ASSUME NEW i \in Jobs, NEW k \in Jobs PROVE PairInv(i, k)'
  BY <1>3 DEF IInv, PairInv, Busy, Conflict
<1>9. ASSUME NEW q \in Callers PROVE ReconInv(q)'
  <2>1. ReconInv(q)
    BY DEF IInv
  <2>2. ~Launching(recon[q].job)'
    BY <1>1, <1>3, NoOpIs DEF Launching
  <2>3. recon[q].job \in Jobs => (rec[recon[q].job] # "absent" => rec'[recon[q].job] # "absent")
    BY <1>2, <1>4
  <2> QED BY <1>1, <1>3, <2>1, <2>2, <2>3 DEF ReconInv, Alive
<1> QED BY <1>5, <1>6, <1>7, <1>8, <1>9 DEF IInv

LEMMA AgentKeeps ==
    ASSUME IInv, \/ Crash \/ Reboot \/ Restart \/ Serve
                 \/ \E j \in Jobs : RecoverKeep(j) \/ RecoverEnd(j)
    PROVE  IInv'
<1> USE DEF files, unit, history
<1>1. CASE Restart
  BY <1>1, AgentStep DEF Restart, Active, ActiveStatus
<1>2. CASE Serve
  <2>1. Typed'
    BY <1>2 DEF IInv, Typed, Serve
  <2>2. OpInv'
    <3>1. op' = NoOp /\ agent' = "up"
      BY <1>2 DEF IInv, OpInv, Serve
    <3> QED BY <3>1, NoOpInv
  <2>3. ASSUME NEW j \in Jobs PROVE JobInv(j)'
    BY <1>2 DEF IInv, JobInv, Busy, Active, Serve
  <2>4. ASSUME NEW j \in Jobs, NEW k \in Jobs PROVE PairInv(j, k)'
    BY <1>2 DEF IInv, PairInv, Busy, Conflict, Serve
  <2>5. ASSUME NEW q \in Callers PROVE ReconInv(q)'
    BY <1>2 DEF IInv, ReconInv, Launching, Alive, Serve
  <2> QED BY <2>1, <2>2, <2>3, <2>4, <2>5 DEF IInv
<1>3. ASSUME NEW j \in Jobs, RecoverKeep(j) PROVE IInv'
  <2>1. snapshot' \subseteq {k \in Jobs : rec[k] # "absent"}
    BY <1>3 DEF RecoverKeep, IInv, JobInv, Typed
  <2> QED BY <1>3, <2>1, AgentStep DEF RecoverKeep
<1> QED BY <1>1, <1>2, <1>3, AgentStopsKeeps, RecoverEndKeeps

LEMMA InitKeeps == Init => IInv
<1> SUFFICES ASSUME Init PROVE IInv
  OBVIOUS
<1>1. Typed
  BY NoOpIs DEF Init, Typed, Status, Ends, WorkerStates, Idle, ReconType, ReconSteps
<1>2. OpInv
  BY NoOpIs DEF Init, OpInv
<1>3. ASSUME NEW j \in Jobs PROVE JobInv(j)
  BY DEF Init, JobInv, Busy
<1>4. ASSUME NEW j \in Jobs, NEW k \in Jobs PROVE PairInv(j, k)
  BY DEF Init, PairInv, Busy
<1>5. ASSUME NEW q \in Callers PROVE ReconInv(q)
  <2>1. recon[q].step = "next"
    BY DEF Init, Idle
  <2> QED BY <2>1 DEF ReconInv
<1> QED BY <1>1, <1>2, <1>3, <1>4, <1>5 DEF IInv

LEMMA StutterKeeps == IInv /\ UNCHANGED vars => IInv'
<1> SUFFICES ASSUME IInv, UNCHANGED vars PROVE IInv'
  OBVIOUS
<1> USE DEF vars, files, unit, process, history
<1>1. Typed'
  BY DEF IInv, Typed
<1>2. OpInv'
  BY DEF IInv, OpInv, Busy, Conflict
<1>3. ASSUME NEW j \in Jobs PROVE JobInv(j)'
  BY DEF IInv, JobInv, Busy, Active
<1>4. ASSUME NEW j \in Jobs, NEW k \in Jobs PROVE PairInv(j, k)'
  BY DEF IInv, PairInv, Busy, Conflict
<1>5. ASSUME NEW q \in Callers PROVE ReconInv(q)'
  BY DEF IInv, ReconInv, Launching, Alive
<1> QED BY <1>1, <1>2, <1>3, <1>4, <1>5 DEF IInv

LEMMA NextKeeps == IInv /\ Next => IInv'
BY ReconcileKeeps, PollKeeps, StartKeeps, CancelKeeps, WorkerKeeps, HandleKeeps,
   AgentKeeps DEF Next

\* The inductive invariant holds throughout.
THEOREM JobsInvariant == Spec => []IInv
BY InitKeeps, StutterKeeps, NextKeeps, PTL DEF Spec

\* For every set of tasks, of resources and of polls, and any number of
\* restarts: a task that shares an application, a container, a port or data
\* with another never runs beside it, and no record says that a task is over
\* while its script runs.
THEOREM JobsExclusive == Spec => []Exclusive
<1>1. IInv => Exclusive
  BY DEF IInv, JobInv, PairInv, Exclusive, Active, ActiveStatus, Ends
<1> QED BY <1>1, JobsInvariant, PTL

\* A task recorded as succeeded did succeed, and one recorded as cancelled had
\* its cancellation accepted, whichever of the worker, the polls, the handlers
\* and the recovery wrote the record last.
THEOREM JobEndsTrue == Spec => []EndIsTrue
<1>1. IInv => EndIsTrue
  BY DEF IInv, JobInv, EndIsTrue
<1> QED BY <1>1, JobsInvariant, PTL

\* As long as the Agent stays up, the end the worker wrote stays, unless the
\* task was being cancelled.
THEOREM JobEndsKept == Spec => []WorkersEndKept
<1>1. IInv => WorkersEndKept
  BY DEF IInv, JobInv, WorkersEndKept
<1> QED BY <1>1, JobsInvariant, PTL
=============================================================================
