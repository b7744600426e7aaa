------------------------ MODULE TerminalBatchProofs ------------------------
(***************************************************************************)
(* What batch execution guarantees for any number of batches, hosts,       *)
(* workers, failing writes and crashes: a command begins, and a session is *)
(* opened, at most once per record; no session is left to itself; nothing  *)
(* idle shows as under way; and nothing is left running after Close.       *)
(***************************************************************************)
EXTENDS TerminalBatch, FiniteSetTheorems, TLAPS

\* How the job file, the list in memory and the running batch fit together.
Fitting ==
    /\ DOMAIN jobs \subseteq DOMAIN disk
    /\ running # None => running \in DOMAIN jobs
    /\ panel = "down" => DOMAIN jobs = {} /\ running = None /\ cleaning = {}

Base == Types /\ Fitting

\* A change of the stored jobs that only touches results of the running batch.
OneResult(h, r) ==
    /\ running \in DOMAIN jobs /\ DOMAIN jobs' = DOMAIN jobs
    /\ \A i \in DOMAIN jobs : i # running => jobs'[i] = jobs[i]
    /\ jobs'[running].state = jobs[running].state
    /\ jobs'[running].result = [jobs[running].result EXCEPT ![h] = r]
    /\ jobs'[running] \in Jobs
    /\ disk' \in {disk, jobs'}

LEMMA UpdateEffect ==
    ASSUME Base, running # None, NEW h \in Hosts, NEW r \in Results, Update(h, r)
    PROVE  OneResult(h, r)
<1>1. running \in DOMAIN jobs /\ jobs[running] \in Jobs
  BY DEF Base, Types, Fitting
<1>2. jobs' = [jobs EXCEPT ![running].result[h] = r]
  BY DEF Update
<1>3. DOMAIN jobs' = DOMAIN jobs /\ \A i \in DOMAIN jobs : i # running => jobs'[i] = jobs[i]
  BY <1>2
<1>4. /\ jobs'[running].state = jobs[running].state
      /\ jobs'[running].result = [jobs[running].result EXCEPT ![h] = r]
      /\ jobs'[running] \in Jobs
  BY <1>1, <1>2 DEF Jobs
<1>5. disk' \in {disk, jobs'}
  BY DEF Update, Persisted
<1> QED BY <1>1, <1>3, <1>4, <1>5 DEF OneResult

\* What a step of the worker of h may change.
WorkerFrame(h) ==
    /\ running # None /\ HostStep
    /\ UNCHANGED stored \/ \E r \in Results : OneResult(h, r)
    /\ exec' \in [Hosts -> Execs] /\ \A g \in Hosts \ {h} : exec'[g] = exec[g]

LEMMA GoesTyped ==
    ASSUME Types, NEW h \in Hosts, NEW p \in Pcs, Goes(h, p)
    PROVE  /\ exec' \in [Hosts -> Execs] /\ \A g \in Hosts \ {h} : exec'[g] = exec[g]
           /\ exec'[h].pc = p /\ exec'[h].completed = exec[h].completed
           /\ exec'[h].outcome = exec[h].outcome /\ exec'[h].unconfirmed = exec[h].unconfirmed
<1>1. exec \in [Hosts -> Execs] /\ exec[h] \in Execs
  BY DEF Types
<1>2. exec' = [exec EXCEPT ![h] = [exec[h] EXCEPT !.pc = p]]
  BY <1>1 DEF Goes
<1> DEFINE e == [exec[h] EXCEPT !.pc = p]
<1>3. /\ e \in Execs /\ e.pc = p /\ e.completed = exec[h].completed
      /\ e.outcome = exec[h].outcome /\ e.unconfirmed = exec[h].unconfirmed
  BY <1>1 DEF Execs
<1>4. exec' \in [Hosts -> Execs] /\ exec'[h] = e /\ \A g \in Hosts \ {h} : exec'[g] = exec[g]
  BY <1>1, <1>2, <1>3
<1> QED BY <1>3, <1>4

LEMMA ToClosingTyped ==
    ASSUME Types, NEW h \in Hosts, NEW d \in BOOLEAN, NEW o \in Outcomes, ToClosing(h, d, o)
    PROVE  /\ exec' \in [Hosts -> Execs] /\ \A g \in Hosts \ {h} : exec'[g] = exec[g]
           /\ exec'[h].pc = "closing" /\ exec'[h].completed = d /\ exec'[h].outcome = o
           /\ ~exec'[h].unconfirmed
           /\ Update(h, "closing")
<1> DEFINE e == [pc |-> "closing", completed |-> d, outcome |-> o,
                 unconfirmed |-> FALSE]
<1>1. exec \in [Hosts -> Execs] /\ exec[h] \in Execs
  BY DEF Types
<1>2. e \in Execs
  BY <1>1 DEF Execs, Pcs
<1>4. exec' = [exec EXCEPT ![h] = e]
  BY DEF ToClosing
<1>5. exec' \in [Hosts -> Execs] /\ exec'[h] = e /\ \A g \in Hosts \ {h} : exec'[g] = exec[g]
  BY <1>1, <1>2, <1>4
<1> QED BY <1>5 DEF ToClosing

LEMMA GivesUpTyped ==
    ASSUME Types, NEW h \in Hosts, CloseGivesUp(h)
    PROVE  /\ exec' \in [Hosts -> Execs] /\ \A g \in Hosts \ {h} : exec'[g] = exec[g]
           /\ exec'[h].pc = "finishing" /\ exec'[h].unconfirmed
           /\ exec'[h].completed = exec[h].completed
           /\ exec'[h].outcome = IF StopUnconfirmed(h) THEN "stop_failed" ELSE exec[h].outcome
<1> DEFINE o == IF StopUnconfirmed(h) THEN "stop_failed" ELSE exec[h].outcome
           e == [pc |-> "finishing", completed |-> exec[h].completed, outcome |-> o,
                 unconfirmed |-> TRUE]
<1>1. exec \in [Hosts -> Execs] /\ exec[h] \in Execs
  BY DEF Types
<1>2. e \in Execs
  BY <1>1 DEF Execs, Pcs, Outcomes
<1>4. exec' = [exec EXCEPT ![h] = e]
  BY DEF CloseGivesUp
<1>5. exec' \in [Hosts -> Execs] /\ exec'[h] = e /\ \A g \in Hosts \ {h} : exec'[g] = exec[g]
  BY <1>1, <1>2, <1>4
<1> QED BY <1>5

LEMMA ResultKinds ==
    /\ Final \subseteq Results /\ Outcomes \subseteq Final
    /\ \A h : StopResult(h) \in Final
    /\ {"queued", "waiting", "connecting", "running", "closing"} \subseteq Results
    /\ Confirmed \subseteq Outcomes
    /\ {"queued", "waiting", "connecting", "running", "closing"} \cap Final = {}
BY DEF Final, Results, Outcomes, Confirmed, StopResult

LEMMA WorkerStepFrame ==
    ASSUME Base, NEW h \in Hosts, WorkerStep(h)
    PROVE  WorkerFrame(h)
<1> USE ResultKinds DEF Base
<1>0. running # None /\ HostStep
  BY DEF WorkerStep, Take, OpenOk, OpenLimit, OpenError, Backoff, Send, ReadExit, ReadFails,
         CloseOk, CloseError, CloseAgain, CloseGivesUp, Finish, Remember, At
<1>a. ASSUME NEW r \in Results, NEW p \in Pcs, Update(h, r), Goes(h, p) PROVE WorkerFrame(h)
  BY <1>0, <1>a, UpdateEffect, GoesTyped DEF WorkerFrame
<1>b. ASSUME NEW p \in Pcs, UNCHANGED stored, Goes(h, p) PROVE WorkerFrame(h)
  BY <1>0, <1>b, GoesTyped DEF WorkerFrame
<1>c. ASSUME NEW d \in BOOLEAN, NEW o \in Outcomes, ToClosing(h, d, o) PROVE WorkerFrame(h)
  BY <1>0, <1>c, UpdateEffect, ToClosingTyped DEF WorkerFrame
<1>d. ASSUME GivesUpHost(h) PROVE WorkerFrame(h)
  BY <1>a, <1>d DEF GivesUpHost, Pcs
<1>1. CASE Take(h)
  BY <1>1, <1>a, <1>d DEF Take, Pcs
<1>2. CASE OpenOk(h)
  BY <1>2, <1>a DEF OpenOk, Pcs
<1>3. CASE OpenLimit(h)
  BY <1>3, <1>a, <1>d DEF OpenLimit, AfterLimit, Pcs
<1>4. CASE OpenError(h)
  BY <1>4, <1>a, <1>d DEF OpenError, AfterOpenError, Pcs, Outcomes
<1>5. CASE Backoff(h)
  BY <1>5, <1>b, <1>d DEF Backoff, Pcs
<1>6. CASE Send(h)
  BY <1>6, <1>b, <1>c DEF Send, Pcs, Outcomes
<1>7. CASE ReadExit(h)
  BY <1>7, <1>c DEF ReadExit, Outcomes
<1>8. CASE ReadFails(h)
  BY <1>8, <1>c DEF ReadFails, Outcomes
<1>9. CASE CloseOk(h)
  BY <1>9, <1>b DEF CloseOk, Pcs
<1>10. CASE CloseError(h)
  BY <1>10, <1>b DEF CloseError, Pcs
<1>11. CASE CloseAgain(h)
  BY <1>11, <1>b DEF CloseAgain, Pcs
<1>12. CASE CloseGivesUp(h)
  <2>1. exec' \in [Hosts -> Execs] /\ \A g \in Hosts \ {h} : exec'[g] = exec[g]
    BY <1>12, GivesUpTyped
  <2> QED BY <1>0, <1>12, <2>1 DEF CloseGivesUp, WorkerFrame
<1>13. CASE Finish(h)
  <2>1. exec[h].outcome \in Results
    BY DEF Types, Execs
  <2>2. \E r \in Results : Update(h, r)
    BY <1>13, <2>1 DEF Finish
  <2>3. \E p \in Pcs : Goes(h, p)
    BY <1>13 DEF Finish, Pcs
  <2> QED BY <1>a, <2>2, <2>3
<1>14. CASE Remember(h)
  BY <1>14, <1>b DEF Remember, Pcs
<1> QED BY <1>1, <1>2, <1>3, <1>4, <1>5, <1>6, <1>7, <1>8, <1>9, <1>10, <1>11, <1>12, <1>13, <1>14
        DEF WorkerStep

-----------------------------------------------------------------------------
(* Types and the fit of the parts.                                         *)

HistoryTyped ==
    /\ cleanup \in [Ids -> SUBSET Hosts]
    /\ session \in [Ids -> [Hosts -> {"none", "open", "closed", "lost"}]]
    /\ truth \in [Ids -> [Hosts -> Confirmed \cup {"none"}]]
    /\ starts \in [Ids -> [Hosts -> Nat]]

\* A worker's step changes the history of its host in the running batch only.
LEMMA WorkerHistory ==
    ASSUME Base, NEW h \in Hosts, WorkerStep(h)
    PROVE  HistoryTyped'
<1>0. running \in Ids /\ HistoryTyped
  BY WorkerStepFrame DEF WorkerFrame, Base, Types, HistoryTyped
<1> USE <1>0 DEF HistoryTyped
<1>1. CASE Take(h) \/ OpenLimit(h) \/ Backoff(h) \/ ReadFails(h) \/ CloseAgain(h) \/ CloseGivesUp(h)
           \/ Finish(h)
  BY <1>1 DEF Take, OpenLimit, Backoff, ReadFails, CloseAgain, CloseGivesUp, Finish, history
<1>2. CASE OpenOk(h)
  BY <1>2 DEF OpenOk
<1>3. CASE OpenError(h)
  BY <1>3 DEF OpenError
<1>4. CASE Send(h)
  <2>1. UNCHANGED starts \/ starts' = [starts EXCEPT ![running][h] = @ + 1]
    BY <1>4 DEF Send, Began
  <2>2. UNCHANGED <<cleanup, session, truth>>
    BY <1>4 DEF Send
  <2>3. starts[running] \in [Hosts -> Nat] /\ starts[running][h] + 1 \in Nat
    OBVIOUS
  <2>4. [starts[running] EXCEPT ![h] = starts[running][h] + 1] \in [Hosts -> Nat]
    BY <2>3
  <2>5. starts' \in [Ids -> [Hosts -> Nat]]
    BY <2>1, <2>4
  <2> QED BY <2>2, <2>5
<1>5. CASE ReadExit(h)
  <2>1. PICK r \in Confirmed : truth' = [truth EXCEPT ![running][h] = r]
    BY <1>5 DEF ReadExit
  <2>2. UNCHANGED <<cleanup, session, starts>>
    BY <1>5 DEF ReadExit
  <2> QED BY <2>1, <2>2
<1>6. CASE CloseOk(h)
  BY <1>6 DEF CloseOk
<1>7. CASE CloseError(h)
  BY <1>7 DEF CloseError
<1>8. CASE Remember(h)
  <2>1. cleanup' = [cleanup EXCEPT ![running] = @ \cup {h}] /\ UNCHANGED <<session, starts, truth>>
    BY <1>8 DEF Remember, Remembered, history
  <2> QED BY <2>1
<1> QED BY <1>1, <1>2, <1>3, <1>4, <1>5, <1>6, <1>7, <1>8 DEF WorkerStep

\* Jobs and job file after a result of the running batch has changed.
LEMMA BaseWorker ==
    ASSUME Base, NEW h \in Hosts, WorkerStep(h)
    PROVE  Base'
<1>1. WorkerFrame(h) /\ HistoryTyped'
  BY WorkerStepFrame, WorkerHistory
<1>2. CASE UNCHANGED stored
  BY <1>1, <1>2 DEF WorkerFrame, HostStep, stored, HistoryTyped, Base, Types, Fitting, Jobs
<1>3. ASSUME NEW r \in Results, OneResult(h, r) PROVE Base'
  <2>1. \A i \in DOMAIN jobs : jobs'[i] \in Jobs
    BY <1>3 DEF OneResult, Base, Types
  <2>2. DOMAIN disk' \subseteq Ids /\ \A i \in DOMAIN disk' : disk'[i] \in Jobs
    BY <1>3, <2>1 DEF OneResult, Base, Types
  <2>3. Fitting'
    BY <1>1, <1>3 DEF WorkerFrame, HostStep, OneResult, Base, Fitting
  <2>4. /\ DOMAIN jobs' \subseteq Ids /\ \A i \in DOMAIN jobs' : jobs'[i] \in Jobs
        /\ running' \in Ids \cup {None} /\ exec' \in [Hosts -> Execs]
    BY <1>1, <1>3, <2>1 DEF WorkerFrame, HostStep, OneResult, Base, Types
  <2>5. /\ panel' = panel /\ available' = available /\ ctx' = ctx /\ bound' = bound
        /\ round' = round /\ cleaning' = cleaning /\ dirty' = dirty /\ crashes' = crashes
    BY <1>1 DEF WorkerFrame, HostStep
  <2> QED BY <1>1, <2>2, <2>3, <2>4, <2>5 DEF Base, Types, HistoryTyped
<1> QED BY <1>1, <1>2, <1>3 DEF WorkerFrame

LEMMA InitBase == Init => Base
BY BoundsAssumption DEF Init, Base, Types, Fitting, NoSessions, Idle, NewExec, Execs, Pcs, Outcomes,
   Confirmed, Contexts

LEMMA CancelTyped ==
    ASSUME NEW why \in Contexts, Types, CancelBatch(why)
    PROVE  ctx' \in Contexts /\ bound' \in [Hosts -> Contexts]
BY DEF Types, CancelBatch, Ending

LEMMA ForgetTyped ==
    ASSUME NEW ids, Types, Forget(ids)
    PROVE  /\ session' \in [Ids -> [Hosts -> {"none", "open", "closed", "lost"}]]
           /\ truth' \in [Ids -> [Hosts -> Confirmed \cup {"none"}]]
           /\ starts' \in [Ids -> [Hosts -> Nat]]
BY DEF Types, Forget, NoSessions

LEMMA RoundsTyped ==
    ASSUME NEW ids, Types, StartRounds(ids)
    PROVE  /\ cleanup' \in [Ids -> SUBSET Hosts] /\ round' \in [Ids -> SUBSET Hosts]
           /\ cleaning' \subseteq Ids \cup ids /\ dirty' \subseteq Ids
BY DEF Types, StartRounds

LEMMA IdleTyped ==
    /\ Idle \in [Hosts -> Execs] /\ [h \in Hosts |-> "live"] \in [Hosts -> Contexts]
    /\ "live" \in Contexts /\ NewJob \in Jobs
BY DEF Idle, NewExec, Execs, Pcs, Outcomes, Confirmed, Contexts, NewJob, Jobs, Results, Final

LEMMA InterruptedTyped ==
    ASSUME NEW j \in Jobs
    PROVE  /\ Interrupted(j) \in Jobs
           /\ Interrupted(j).state # "running"
           /\ \A h \in Hosts : Interrupted(j).result[h] \in Final
<1>1. j.result \in [Hosts -> Results] /\ j.old \in BOOLEAN /\ j.state \in {"running", "completed", "stopped", "interrupted"}
  BY DEF Jobs
<1>2. "interrupted" \in Final /\ Final \subseteq Results
  BY ResultKinds DEF Final
<1> DEFINE res == [h \in Hosts |-> IF j.result[h] \in Final THEN j.result[h] ELSE "interrupted"]
           st == IF j.state = "running" THEN "interrupted" ELSE j.state
           o == j.old /\ j.state # "running"
<1>3. Interrupted(j).result = res /\ Interrupted(j).state = st
  BY DEF Interrupted, Jobs
<1>4. res \in [Hosts -> Results] /\ \A h \in Hosts : res[h] \in Final
  BY <1>1, <1>2
<1>5. Interrupted(j) \in Jobs
  BY <1>1, <1>4 DEF Interrupted, Jobs
<1> QED BY <1>1, <1>3, <1>4, <1>5

LEMMA BaseCreate == ASSUME Base, NEW i \in Ids, Create(i) PROVE Base'
<1> DEFINE all == [j \in DOMAIN jobs \cup {i} |-> IF j = i THEN NewJob ELSE jobs[j]]
           gone == Expired(all)
<1>1. jobs' = Restrict(all, DOMAIN all \ gone) /\ disk' = jobs' /\ Forget(gone)
  BY DEF Create, Admitted
<1>2. DOMAIN jobs' = (DOMAIN jobs \cup {i}) \ gone /\ \A j \in DOMAIN jobs' : jobs'[j] = all[j]
  BY <1>1 DEF Restrict
<1>3. i \notin gone
  BY DEF Expired, NewJob
<1>4. DOMAIN jobs' \subseteq Ids /\ \A j \in DOMAIN jobs' : jobs'[j] \in Jobs
  BY <1>2, IdleTyped DEF Base, Types
<1>5. Fitting'
  BY <1>1, <1>2, <1>3 DEF Create, Base, Fitting
<1> HIDE DEF all, gone
<1>6. /\ running' \in Ids \cup {None} /\ ctx' \in Contexts
      /\ bound' \in [Hosts -> Contexts] /\ exec' \in [Hosts -> Execs]
  BY IdleTyped DEF Create
<1>7. UNCHANGED <<panel, available, rounds, crashes>>
  BY DEF Create
<1> QED BY <1>1, <1>4, <1>5, <1>6, <1>7, ForgetTyped DEF Base, Types, rounds

LEMMA BaseRemove == ASSUME Base, NEW i \in Ids, Remove(i) PROVE Base'
<1>1. /\ jobs' = Restrict(jobs, DOMAIN jobs \ {i}) /\ disk' = jobs' /\ Forget({i})
      /\ running # i /\ UNCHANGED <<panel, available, live, rounds, crashes>>
  BY DEF Remove, Removable
<1>2. DOMAIN jobs' = DOMAIN jobs \ {i} /\ \A j \in DOMAIN jobs' : jobs'[j] = jobs[j]
  BY <1>1 DEF Restrict
<1>3. Fitting'
  BY <1>1, <1>2 DEF Base, Fitting, live, rounds
<1> QED BY <1>1, <1>2, <1>3, ForgetTyped DEF Base, Types, live, rounds

LEMMA BaseAge == ASSUME Base, NEW i \in Ids, Age(i) PROVE Base'
<1>1. /\ i \in DOMAIN jobs /\ jobs' = [jobs EXCEPT ![i].old = TRUE]
      /\ disk' = IF i \in DOMAIN disk THEN [disk EXCEPT ![i].old = TRUE] ELSE disk
      /\ UNCHANGED <<panel, available, live, rounds, crashes, history>>
  BY DEF Age
<1>2. DOMAIN jobs' = DOMAIN jobs /\ \A j \in DOMAIN jobs : jobs'[j] \in Jobs
  BY <1>1 DEF Base, Types, Jobs
<1>3. DOMAIN disk' = DOMAIN disk /\ \A j \in DOMAIN disk : disk'[j] \in Jobs
  BY <1>1 DEF Base, Types, Jobs
<1> QED BY <1>1, <1>2, <1>3 DEF Base, Types, Fitting, live, rounds, history

LEMMA BaseEndRun == ASSUME Base, EndRun PROVE Base'
<1> DEFINE st == IF panel # "up" THEN "interrupted" ELSE IF ctx # "live" THEN "stopped" ELSE "completed"
<1>1. running \in DOMAIN jobs /\ jobs' = [jobs EXCEPT ![running].state = st] /\ disk' \in {disk, jobs'}
  BY DEF EndRun, Persisted, Base, Fitting
<1>2. DOMAIN jobs' = DOMAIN jobs /\ \A j \in DOMAIN jobs : jobs'[j] \in Jobs
  BY <1>1 DEF Base, Types, Jobs
<1>3. DOMAIN disk' \subseteq Ids /\ \A j \in DOMAIN disk' : disk'[j] \in Jobs
  BY <1>1, <1>2 DEF Base, Types
<1>4. /\ running' = None /\ ctx' \in Contexts /\ bound' \in [Hosts -> Contexts] /\ exec' \in [Hosts -> Execs]
      /\ UNCHANGED <<panel, available, rounds, crashes, history>>
  BY IdleTyped DEF EndRun
<1>5. Fitting'
  BY <1>1, <1>2, <1>4 DEF Base, Fitting
<1> QED BY <1>2, <1>3, <1>4, <1>5 DEF Base, Types, rounds, history

\* What ends a batch, starts a round or closes the manager stores nothing.
LEMMA BaseSignals ==
    ASSUME Base,
           \/ Timeout \/ CloseBegins \/ CloseReturns \/ CleanupTick
           \/ \E h \in Hosts : Revoke(h)
           \/ \E i \in Ids : Stop(i)
    PROVE  Base'
<1>1. UNCHANGED <<stored, available, running, exec, crashes, history>>
  BY DEF Timeout, CloseBegins, CloseReturns, CleanupTick, Revoke, Stop, live
<1>2. panel' \in {"up", "closing", "closed", "down"} /\ (panel' = "down" => panel = "down")
  BY DEF Timeout, CloseBegins, CloseReturns, CleanupTick, Revoke, Stop, Base, Types
<1>3. ctx' \in Contexts /\ bound' \in [Hosts -> Contexts]
  <2>1. ctx \in Contexts /\ bound \in [Hosts -> Contexts] /\ {"stopped", "timeout"} \subseteq Contexts
    BY DEF Base, Types, Contexts
  <2> QED BY <2>1, CancelTyped
          DEF Timeout, CloseBegins, CloseReturns, CleanupTick, Revoke, Stop, Base, live
<1>4. /\ cleanup' \in [Ids -> SUBSET Hosts] /\ round' \in [Ids -> SUBSET Hosts]
      /\ cleaning' \subseteq Ids /\ dirty' \subseteq Ids
  <2>1. CASE UNCHANGED rounds
    BY <2>1 DEF rounds, Base, Types
  <2>2. ASSUME NEW ids, ids \subseteq Ids, StartRounds(ids)
        PROVE  /\ cleanup' \in [Ids -> SUBSET Hosts] /\ round' \in [Ids -> SUBSET Hosts]
               /\ cleaning' \subseteq Ids /\ dirty' \subseteq Ids
    BY <2>2, RoundsTyped DEF Base
  <2> QED BY <2>1, <2>2 DEF Timeout, CloseBegins, CloseReturns, CleanupTick, Revoke, Stop, Base, Types
<1>5. cleaning' = cleaning \/ panel' = "up"
  BY DEF Timeout, CloseBegins, CloseReturns, CleanupTick, Revoke, Stop, StartRounds, MayClean, rounds
<1>6. Fitting'
  BY <1>1, <1>2, <1>5 DEF Base, Fitting, stored
<1> QED BY <1>1, <1>2, <1>3, <1>4, <1>6 DEF Base, Types, stored, history

LEMMA BaseRounds ==
    ASSUME Base, NEW i \in Ids, RoundStep(i)
    PROVE  Base'
<1>1. ASSUME NEW h \in Hosts, RoundCloseOk(i, h) PROVE Base'
  <2>1. DOMAIN jobs' = DOMAIN jobs /\ \A j \in DOMAIN jobs : jobs'[j] \in Jobs
    <3>1. CASE UNCHANGED jobs
      BY <3>1 DEF Base, Types
    <3>2. CASE /\ i \in DOMAIN jobs
               /\ jobs' = [jobs EXCEPT ![i] = [state |-> @.state, old |-> FALSE,
                                               result |-> [@.result EXCEPT ![h] = "stopped"]]]
      <4>1. jobs[i] \in Jobs /\ "stopped" \in Results
        BY <3>2, ResultKinds DEF Base, Types, Final
      <4>2. [state |-> jobs[i].state, old |-> FALSE,
             result |-> [jobs[i].result EXCEPT ![h] = "stopped"]] \in Jobs
        BY <4>1 DEF Jobs
      <4> QED BY <3>2, <4>2 DEF Base, Types
    <3> QED BY <1>1, <3>1, <3>2 DEF RoundCloseOk
  <2>2. dirty' \subseteq Ids
    BY <1>1 DEF RoundCloseOk, Base, Types
  <2>3. /\ session' \in [Ids -> [Hosts -> {"none", "open", "closed", "lost"}]]
        /\ cleanup' \in [Ids -> SUBSET Hosts] /\ round' \in [Ids -> SUBSET Hosts]
    BY <1>1 DEF RoundCloseOk, Base, Types
  <2>4. UNCHANGED <<disk, panel, available, live, cleaning, crashes, starts, truth>>
    BY <1>1 DEF RoundCloseOk
  <2> QED BY <2>1, <2>2, <2>3, <2>4 DEF Base, Types, Fitting, live
<1>2. ASSUME NEW h \in Hosts, RoundCloseError(i, h) \/ RoundGivesUp(i, h) PROVE Base'
  <2>1. /\ session' \in [Ids -> [Hosts -> {"none", "open", "closed", "lost"}]]
        /\ round' \in [Ids -> SUBSET Hosts]
    <3>1. CASE RoundCloseError(i, h)
      BY <3>1 DEF RoundCloseError, Base, Types, rounds
    <3>2. CASE RoundGivesUp(i, h)
      BY <3>2 DEF RoundGivesUp, Base, Types, history
    <3> QED BY <1>2, <3>1, <3>2
  <2>2. UNCHANGED <<stored, panel, available, live, cleanup, cleaning, dirty, crashes, starts, truth>>
    BY <1>2 DEF RoundCloseError, RoundGivesUp, rounds, history
  <2> QED BY <2>1, <2>2 DEF Base, Types, Fitting, stored, live
<1>3. CASE EndRound(i)
  <2>1. disk' \in {disk, jobs} /\ jobs' = jobs
    BY <1>3 DEF EndRound, Persisted
  <2>2. cleaning' \subseteq cleaning /\ dirty' \subseteq dirty
    BY <1>3 DEF EndRound, AfterRound
  <2>3. UNCHANGED <<panel, available, live, cleanup, round, crashes, history>>
    BY <1>3 DEF EndRound
  <2> QED BY <2>1, <2>2, <2>3 DEF Base, Types, Fitting, live, history
<1> QED BY <1>1, <1>2, <1>3 DEF RoundStep

LEMMA BaseCrash == ASSUME Base, Crash PROVE Base'
<1>1. DOMAIN jobs' = {} /\ running' = None /\ panel' = "down" /\ UNCHANGED <<disk, available, starts, truth>>
  BY DEF Crash
<1>2. crashes' \in 0..MaxCrashes
  BY BoundsAssumption DEF Crash, Base, Types
<1>3. session' \in [Ids -> [Hosts -> {"none", "open", "closed", "lost"}]]
  BY DEF Crash, Base, Types
<1>4. /\ ctx' \in Contexts /\ bound' \in [Hosts -> Contexts] /\ exec' \in [Hosts -> Execs]
      /\ cleanup' \in [Ids -> SUBSET Hosts] /\ round' \in [Ids -> SUBSET Hosts]
      /\ cleaning' = {} /\ dirty' = {}
  BY IdleTyped DEF Crash
<1> QED BY <1>1, <1>2, <1>3, <1>4 DEF Base, Types, Fitting

\* After a start every job in memory is what Interrupted makes of a saved one.
LEMMA RestartJobs ==
    ASSUME Base, Restart
    PROVE  /\ DOMAIN jobs' \subseteq DOMAIN disk
           /\ \A i \in DOMAIN jobs' : jobs'[i] = Interrupted(disk[i])
           /\ disk' \in {disk, jobs'}
           /\ Forget(DOMAIN disk \ DOMAIN jobs')
<1> DEFINE all == [i \in DOMAIN disk |-> Interrupted(disk[i])]
           gone == Expired(all)
<1>1. jobs' = Restrict(all, DOMAIN all \ gone) /\ Forget(gone) /\ disk' \in {disk, jobs'}
  BY DEF Restart
<1>2. gone \subseteq DOMAIN disk
  BY DEF Expired
<1>3. DOMAIN jobs' = DOMAIN disk \ gone /\ \A i \in DOMAIN jobs' : jobs'[i] = all[i]
  BY <1>1, <1>2 DEF Restrict
<1>4. gone = DOMAIN disk \ DOMAIN jobs'
  BY <1>2, <1>3
<1> HIDE DEF gone
<1> QED BY <1>1, <1>3, <1>4

LEMMA BaseRestart == ASSUME Base, Restart PROVE Base'
<1>1. /\ DOMAIN jobs' \subseteq Ids /\ \A i \in DOMAIN jobs' : jobs'[i] \in Jobs
      /\ DOMAIN disk' \subseteq Ids /\ \A i \in DOMAIN disk' : disk'[i] \in Jobs
  BY RestartJobs, InterruptedTyped DEF Base, Types
<1>2. panel' = "up" /\ available' \in BOOLEAN /\ UNCHANGED <<live, rounds, crashes>>
  BY DEF Restart
<1>3. Fitting'
  <2>1. running' = None
    BY <1>2 DEF Restart, Base, Fitting, live
  <2> QED BY <1>2, <2>1, RestartJobs DEF Fitting
<1>4. /\ session' \in [Ids -> [Hosts -> {"none", "open", "closed", "lost"}]]
      /\ truth' \in [Ids -> [Hosts -> Confirmed \cup {"none"}]]
      /\ starts' \in [Ids -> [Hosts -> Nat]]
  BY RestartJobs, ForgetTyped DEF Base
<1> QED BY <1>1, <1>2, <1>3, <1>4 DEF Base, Types, live, rounds

LEMMA BaseStep == Base /\ [Next]_vars => Base'
<1> SUFFICES ASSUME Base, [Next]_vars PROVE Base'
  OBVIOUS
<1>1. CASE UNCHANGED vars
  BY <1>1 DEF vars, stored, live, rounds, history, Base, Types, Fitting
<1>2. CASE Next
  BY <1>2, BaseCreate, BaseRemove, BaseAge, BaseSignals, BaseRounds, BaseWorker, BaseEndRun,
     BaseCrash, BaseRestart DEF Next
<1> QED BY <1>1, <1>2

-----------------------------------------------------------------------------
(* The beginnings and sessions that one step of a worker may touch.        *)

NotBegun == {"queued", "opening", "backoff", "sending"}
NotOpened == {"queued", "opening", "backoff"}

\* The step of a worker counts a beginning only when it leaves NotBegun.
LEMMA WorkerBegins ==
    ASSUME Base, NEW h \in Hosts, WorkerStep(h)
    PROVE  /\ \/ UNCHANGED starts /\ (exec'[h].pc \in NotBegun => exec[h].pc \in NotBegun)
              \/ /\ exec[h].pc \in NotBegun /\ exec'[h].pc \notin NotBegun
                 /\ starts' = [starts EXCEPT ![running][h] = @ + 1]
           /\ exec'[h].pc \in NotOpened => exec[h].pc \in NotOpened /\ UNCHANGED session
           /\ \E s \in {"open", "closed", "lost"} :
                 \/ session' = [session EXCEPT ![running][h] = s]
                 \/ UNCHANGED session
           /\ session'[running][h] = "open" =>
                 session[running][h] = "open" \/ exec[h].pc \in NotOpened
<1> USE DEF Base, NotBegun, NotOpened, history
<1>0. running \in Ids /\ exec[h] \in Execs
      /\ session \in [Ids -> [Hosts -> {"none", "open", "closed", "lost"}]]
  BY WorkerStepFrame DEF WorkerFrame, Types
<1>g. ASSUME NEW p \in Pcs, Goes(h, p) PROVE exec'[h].pc = p
  BY <1>g, GoesTyped
<1>1. CASE Take(h)
  BY <1>0, <1>1, <1>g DEF Take, GivesUpHost, Pcs, At
<1>2. CASE OpenOk(h)
  BY <1>0, <1>2, <1>g DEF OpenOk, Pcs, At
<1>3. CASE OpenLimit(h)
  BY <1>0, <1>3, <1>g DEF OpenLimit, AfterLimit, GivesUpHost, Pcs, At
<1>4. CASE OpenError(h)
  <2>1. exec[h].pc = "opening" /\ exec'[h].pc = "done" /\ UNCHANGED starts
    BY <1>4, <1>g DEF OpenError, AfterOpenError, GivesUpHost, Pcs, At
  <2>2. PICK s \in {session[running][h], "lost"} : session' = [session EXCEPT ![running][h] = s]
    BY <1>4 DEF OpenError
  <2>3. UNCHANGED session \/ session' = [session EXCEPT ![running][h] = "lost"]
    BY <2>2, <1>0
  <2>4. session'[running][h] = "open" => session[running][h] = "open"
    BY <2>3, <1>0
  <2> QED BY <2>1, <2>3, <2>4
<1>5. CASE Backoff(h)
  BY <1>0, <1>5, <1>g DEF Backoff, GivesUpHost, Pcs, At
<1>6. CASE Send(h)
  <2>1. exec[h].pc = "sending" /\ UNCHANGED session
    BY <1>6 DEF Send, At
  <2>2. exec'[h].pc \in {"reading", "closing"}
    BY <1>6, <1>g, ToClosingTyped DEF Send, Pcs, Outcomes
  <2>3. UNCHANGED starts \/ starts' = [starts EXCEPT ![running][h] = @ + 1]
    BY <1>6 DEF Send, Began
  <2> QED BY <2>1, <2>2, <2>3
<1>7. CASE ReadExit(h) \/ ReadFails(h)
  <2>1. exec'[h].pc = "closing"
    BY <1>7, ToClosingTyped, ResultKinds DEF ReadExit, ReadFails, Outcomes
  <2>2. UNCHANGED <<starts, session>>
    BY <1>7 DEF ReadExit, ReadFails
  <2> QED BY <2>1, <2>2
<1>8. CASE CloseOk(h)
  BY <1>0, <1>8, <1>g DEF CloseOk, Pcs, At
<1>9. CASE CloseError(h)
  <2>1. exec'[h].pc = "retry" /\ UNCHANGED starts
    BY <1>9, <1>g DEF CloseError, Pcs
  <2>2. PICK s \in {session[running][h], "closed"} : session' = [session EXCEPT ![running][h] = s]
    BY <1>9 DEF CloseError
  <2>3. UNCHANGED session \/ session' = [session EXCEPT ![running][h] = "closed"]
    BY <2>2, <1>0
  <2>4. session'[running][h] = "open" => session[running][h] = "open"
    BY <2>3, <1>0
  <2> QED BY <2>1, <2>3, <2>4
<1>10. CASE CloseAgain(h)
  BY <1>0, <1>10, <1>g DEF CloseAgain, Pcs
<1>11. CASE CloseGivesUp(h)
  BY <1>0, <1>11, GivesUpTyped DEF CloseGivesUp
<1>12. CASE Finish(h)
  BY <1>0, <1>12, <1>g DEF Finish, Pcs
<1>13. CASE Remember(h)
  BY <1>0, <1>13, <1>g DEF Remember, Pcs
<1> QED BY <1>1, <1>2, <1>3, <1>4, <1>5, <1>6, <1>7, <1>8, <1>9, <1>10, <1>11, <1>12, <1>13
        DEF WorkerStep

-----------------------------------------------------------------------------
(* No session is left to itself.  A worker that gives its session up has   *)
(* either seen it closed or still has to remember it; a round only retries *)
(* what cleanup remembers.                                                 *)

HoldingPcs == {"sending", "reading", "closing", "retry", "finishing", "remembering"}

\* What the worker of h, in the running batch b, keeps of its session.
Keeps(b, h) ==
    /\ session[b][h] = "open" => exec[h].pc \in HoldingPcs \/ h \in cleanup[b]
    /\ exec[h].pc \in HoldingPcs => session[b][h] # "none"
    /\ exec[h].pc = "finishing" /\ ~exec[h].unconfirmed => session[b][h] # "open"

Left ==
    \A i \in Ids :
        /\ round[i] \subseteq cleanup[i]
        /\ cleanup[i] # {} => i \in DOMAIN jobs
        /\ \A h \in Hosts : h \in cleanup[i] => session[i][h] # "none"
        /\ \A h \in Hosts : session[i][h] = "open" => i = running \/ h \in cleanup[i]

Sessions == Left /\ (running # None => \A h \in Hosts : Keeps(running, h))

LEMMA SessionsAccounted == Base /\ Sessions => Accounted
BY NoneAssumption DEF Base, Types, Execs, Pcs, Sessions, Left, Keeps, Accounted, Held, HoldingPcs

\* One step of one worker.
LEMMA WorkerKeeps ==
    ASSUME Base, Sessions, NEW h \in Hosts, WorkerStep(h)
    PROVE  Keeps(running, h)'
<1> USE DEF Base, history, Keeps, HoldingPcs
<1>0. /\ running \in Ids /\ exec[h] \in Execs /\ running' = running
      /\ session \in [Ids -> [Hosts -> {"none", "open", "closed", "lost"}]]
      /\ cleanup \in [Ids -> SUBSET Hosts] /\ Keeps(running, h)
  BY WorkerStepFrame DEF WorkerFrame, HostStep, Types, Sessions
<1>g. ASSUME NEW p \in Pcs, Goes(h, p)
      PROVE  exec'[h].pc = p /\ exec'[h].unconfirmed = exec[h].unconfirmed
  BY <1>g, GoesTyped
<1>1. CASE Take(h)
  <2>1. exec[h].pc = "queued" /\ exec'[h].pc \in {"opening", "done"} /\ UNCHANGED <<cleanup, session>>
    BY <1>1, <1>g DEF Take, GivesUpHost, Pcs, At
  <2> QED BY <1>0, <2>1
<1>2. CASE OpenOk(h)
  <2>1. /\ exec'[h].pc = "sending" /\ UNCHANGED cleanup
        /\ session' = [session EXCEPT ![running][h] = "open"]
    BY <1>2, <1>g DEF OpenOk, Pcs
  <2>2. session'[running][h] = "open"
    BY <1>0, <2>1
  <2> QED BY <1>0, <2>1, <2>2
<1>3. CASE OpenLimit(h)
  <2>1. exec[h].pc = "opening" /\ exec'[h].pc \in {"backoff", "done"} /\ UNCHANGED <<cleanup, session>>
    BY <1>3, <1>g DEF OpenLimit, AfterLimit, GivesUpHost, Pcs, At
  <2> QED BY <1>0, <2>1
<1>4. CASE OpenError(h)
  <2>1. exec[h].pc = "opening" /\ exec'[h].pc = "done" /\ UNCHANGED cleanup
    BY <1>4, <1>g DEF OpenError, AfterOpenError, GivesUpHost, Pcs, At
  <2>2. PICK s \in {session[running][h], "lost"} : session' = [session EXCEPT ![running][h] = s]
    BY <1>4 DEF OpenError
  <2>3. UNCHANGED session \/ session' = [session EXCEPT ![running][h] = "lost"]
    BY <2>2, <1>0
  <2>4. session'[running][h] = "open" => session[running][h] = "open"
    BY <2>3, <1>0
  <2> QED BY <1>0, <2>1, <2>4
<1>5. CASE Backoff(h)
  <2>1. exec[h].pc = "backoff" /\ exec'[h].pc \in {"opening", "done"} /\ UNCHANGED <<cleanup, session>>
    BY <1>5, <1>g DEF Backoff, GivesUpHost, Pcs, At
  <2> QED BY <1>0, <2>1
<1>6. CASE Send(h)
  <2>1. exec[h].pc = "sending" /\ UNCHANGED <<cleanup, session>>
    BY <1>6 DEF Send, At
  <2>2. exec'[h].pc \in {"reading", "closing"}
    BY <1>6, <1>g, ToClosingTyped DEF Send, Pcs, Outcomes
  <2> QED BY <1>0, <2>1, <2>2 DEF Pcs
<1>7. CASE ReadExit(h) \/ ReadFails(h)
  <2>1. exec'[h].pc = "closing"
    BY <1>7, ToClosingTyped, ResultKinds DEF ReadExit, ReadFails, Outcomes
  <2>2. exec[h].pc = "reading" /\ UNCHANGED <<cleanup, session>>
    BY <1>7 DEF ReadExit, ReadFails, At
  <2> QED BY <1>0, <2>1, <2>2 DEF Pcs
<1>8. CASE CloseOk(h)
  <2>1. /\ exec[h].pc = "closing" /\ exec'[h].pc = "finishing" /\ UNCHANGED cleanup
        /\ session' = [session EXCEPT ![running][h] = "closed"]
    BY <1>8, <1>g DEF CloseOk, Pcs, At
  <2>2. session'[running][h] = "closed"
    BY <1>0, <2>1
  <2> QED BY <1>0, <2>1, <2>2
<1>9. CASE CloseError(h)
  <2>1. exec[h].pc = "closing" /\ exec'[h].pc = "retry" /\ UNCHANGED cleanup
    BY <1>9, <1>g DEF CloseError, Pcs, At
  <2>2. PICK s \in {session[running][h], "closed"} : session' = [session EXCEPT ![running][h] = s]
    BY <1>9 DEF CloseError
  <2>3. UNCHANGED session \/ session' = [session EXCEPT ![running][h] = "closed"]
    BY <2>2, <1>0
  <2>4. session'[running][h] # "none"
    BY <2>1, <2>3, <1>0
  <2> QED BY <1>0, <2>1, <2>4
<1>10. CASE CloseAgain(h)
  <2>1. exec[h].pc = "retry" /\ exec'[h].pc = "closing" /\ UNCHANGED <<cleanup, session>>
    BY <1>10, <1>g DEF CloseAgain, Pcs, At
  <2> QED BY <1>0, <2>1 DEF Pcs
<1>11. CASE CloseGivesUp(h)
  <2>1. /\ exec[h].pc = "retry" /\ exec'[h].pc = "finishing" /\ exec'[h].unconfirmed
        /\ UNCHANGED <<cleanup, session>>
    BY <1>11, GivesUpTyped DEF CloseGivesUp, At
  <2> QED BY <1>0, <2>1 DEF Pcs
<1>12. CASE Finish(h)
  <2>1. /\ exec[h].pc = "finishing" /\ UNCHANGED <<cleanup, session>>
        /\ exec'[h].pc = IF exec[h].unconfirmed THEN "remembering" ELSE "done"
    BY <1>12, <1>g DEF Finish, Pcs, At
  <2> QED BY <1>0, <2>1 DEF Pcs
<1>13. CASE Remember(h)
  <2>1. /\ exec[h].pc = "remembering" /\ exec'[h].pc = "done" /\ UNCHANGED session
        /\ cleanup' = [cleanup EXCEPT ![running] = @ \cup {h}]
    BY <1>13, <1>g DEF Remember, Remembered, Pcs, At
  <2> QED BY <1>0, <2>1 DEF Pcs
<1> QED BY <1>1, <1>2, <1>3, <1>4, <1>5, <1>6, <1>7, <1>8, <1>9, <1>10, <1>11, <1>12, <1>13
        DEF WorkerStep

LEMMA WorkerCleanup ==
    ASSUME NEW h \in Hosts, WorkerStep(h)
    PROVE  \/ UNCHANGED cleanup
           \/ /\ cleanup' = [cleanup EXCEPT ![running] = @ \cup {h}]
              /\ exec[h].pc = "remembering" /\ UNCHANGED session
BY DEF WorkerStep, Take, OpenOk, OpenLimit, OpenError, Backoff, Send, ReadExit, ReadFails, CloseOk,
       CloseError, CloseAgain, CloseGivesUp, Finish, Remember, Remembered, At, history

LEMMA SessionsWorker ==
    ASSUME Base, Sessions, NEW h \in Hosts, WorkerStep(h)
    PROVE  Sessions'
<1> DEFINE b == running
<1>1. /\ b \in Ids /\ b # None /\ running' = b /\ b \in DOMAIN jobs /\ round' = round
      /\ DOMAIN jobs' = DOMAIN jobs /\ \A g \in Hosts \ {h} : exec'[g] = exec[g]
  BY WorkerStepFrame DEF WorkerFrame, HostStep, OneResult, stored, Base, Types, Fitting
<1>2. /\ cleanup \in [Ids -> SUBSET Hosts]
      /\ session \in [Ids -> [Hosts -> {"none", "open", "closed", "lost"}]]
  BY DEF Base, Types
<1>3. PICK s \in {"open", "closed", "lost"} :
        session' = [session EXCEPT ![b][h] = s] \/ UNCHANGED session
  BY WorkerBegins
<1>4. \A i \in Ids : \A g \in Hosts :
        /\ i # b \/ g # h => session'[i][g] = session[i][g]
        /\ session[i][g] # "none" => session'[i][g] # "none"
  BY <1>1, <1>2, <1>3
<1>5. \A i \in Ids : /\ cleanup[i] \subseteq cleanup'[i]
                     /\ i # b => cleanup'[i] = cleanup[i]
                     /\ \A g \in Hosts : g \in cleanup'[i] => g \in cleanup[i] \/ session'[i][g] # "none"
  <2>1. CASE UNCHANGED cleanup
    BY <2>1
  <2>2. CASE /\ cleanup' = [cleanup EXCEPT ![b] = @ \cup {h}]
             /\ exec[h].pc = "remembering" /\ UNCHANGED session
    <3>1. session'[b][h] # "none"
      BY <1>1, <2>2 DEF Sessions, Keeps, HoldingPcs
    <3> QED BY <1>1, <1>2, <2>2, <3>1
  <2> QED BY <2>1, <2>2, WorkerCleanup
<1>6. Left'
  BY <1>1, <1>4, <1>5 DEF Left, Sessions
<1>7. \A g \in Hosts : Keeps(b, g)'
  BY <1>1, <1>4, <1>5, WorkerKeeps DEF Sessions, Keeps
<1> QED BY <1>1, <1>6, <1>7 DEF Sessions

\* Records that go take their history along; the others keep it.
LEMMA ForgetEffect ==
    ASSUME NEW ids, Types, Forget(ids)
    PROVE  \A i \in Ids :
             /\ i \in ids => \A h \in Hosts : starts'[i][h] = 0 /\ session'[i][h] = "none"
             /\ i \notin ids => starts'[i] = starts[i] /\ session'[i] = session[i]
BY DEF Types, Forget, NoSessions

\* A step that forgets records without cleanup, and knows all the others.
LEMMA SessionsForget ==
    ASSUME Base, Sessions, NEW ids, Forget(ids), UNCHANGED <<cleanup, round>>,
           \A i \in Ids : i \in ids => cleanup[i] = {},
           \A i \in Ids : i \in DOMAIN jobs => i \in DOMAIN jobs' \/ i \in ids,
           running = None \/ running' = running,
           \/ running' = None
           \/ running' = running /\ running \notin ids /\ exec' = exec
           \/ exec' = Idle /\ running' \in Ids /\ \A h \in Hosts : session'[running'][h] # "open"
    PROVE  Sessions'
<1>1. running \in Ids \cup {None}
  BY DEF Base, Types
<1>2. Left'
  BY <1>1, ForgetEffect, NoneAssumption DEF Base, Sessions, Left
<1>3. CASE running' = None
  BY <1>2, <1>3 DEF Sessions
<1>4. CASE running' = running /\ running \notin ids /\ exec' = exec
  BY <1>1, <1>2, <1>4, ForgetEffect DEF Base, Sessions, Keeps
<1>5. CASE exec' = Idle /\ \A h \in Hosts : session'[running'][h] # "open"
  BY <1>2, <1>5 DEF Sessions, Keeps, Idle, NewExec, HoldingPcs
<1> QED BY <1>3, <1>4, <1>5

LEMMA SessionsStep == Base /\ Sessions /\ [Next]_vars => Sessions'
<1> SUFFICES ASSUME Base, Sessions, [Next]_vars PROVE Sessions'
  OBVIOUS
<1> USE DEF Base
<1>1. ASSUME NEW h \in Hosts, WorkerStep(h) PROVE Sessions'
  BY <1>1, SessionsWorker
<1>2. ASSUME NEW i \in Ids, Create(i) PROVE Sessions'
  <2> DEFINE all == [j \in DOMAIN jobs \cup {i} |-> IF j = i THEN NewJob ELSE jobs[j]]
             gone == Expired(all)
  <2>1. jobs' = Restrict(all, DOMAIN all \ gone) /\ Forget(gone) /\ i \notin DOMAIN jobs
        /\ running = None /\ running' = i /\ exec' = Idle /\ UNCHANGED <<cleanup, round>>
    BY <1>2 DEF Create, rounds
  <2>2. DOMAIN jobs' = (DOMAIN jobs \cup {i}) \ gone
    BY <2>1 DEF Restrict
  <2>3. \A j \in gone : cleanup[j] = {}
    BY DEF Expired
  <2> HIDE DEF all, gone
  <2>4. \A h \in Hosts : session[i][h] # "open"
    BY <2>1, NoneAssumption DEF Sessions, Left
  <2>5. \A h \in Hosts : session'[i][h] # "open"
    BY <2>1, <2>4, ForgetEffect
  <2> QED BY <2>1, <2>2, <2>3, <2>5, SessionsForget
<1>3. ASSUME NEW i \in Ids, Remove(i) PROVE Sessions'
  <2>1. /\ Forget({i}) /\ running # i /\ cleanup[i] = {}
        /\ running' = running /\ exec' = exec /\ jobs' = Restrict(jobs, DOMAIN jobs \ {i})
        /\ UNCHANGED <<cleanup, round>>
    BY <1>3 DEF Remove, Removable, live, rounds
  <2>2. DOMAIN jobs' = DOMAIN jobs \ {i}
    BY <2>1 DEF Restrict
  <2> QED BY <2>1, <2>2, SessionsForget
<1>4. CASE Restart
  <2>1. /\ Forget(DOMAIN disk \ DOMAIN jobs') /\ DOMAIN jobs = {} /\ running = None
        /\ running' = None /\ UNCHANGED <<cleanup, round>>
    BY <1>4, RestartJobs DEF Restart, Fitting, live, rounds
  <2>2. \A i \in Ids : cleanup[i] = {}
    BY <2>1 DEF Sessions, Left
  <2> QED BY <2>1, <2>2, SessionsForget
<1>5. CASE Crash
  <2>1. \A i \in Ids : cleanup'[i] = {} /\ round'[i] = {} /\ \A h \in Hosts : session'[i][h] # "open"
    BY <1>5 DEF Crash
  <2>2. running' = None
    BY <1>5 DEF Crash
  <2> QED BY <2>1, <2>2 DEF Sessions, Left
<1>6. ASSUME UNCHANGED <<session, cleanup>>, DOMAIN jobs' = DOMAIN jobs,
             \A i \in Ids : round'[i] \subseteq cleanup[i],
             running' = running /\ exec' = exec
      PROVE  Sessions'
  BY <1>6 DEF Sessions, Left, Keeps
<1>7. CASE EndRun
  <2>1. /\ DOMAIN jobs' = DOMAIN jobs /\ running' = None /\ UNCHANGED <<session, cleanup, round>>
        /\ running # None /\ \A h \in Hosts : exec[h].pc = "done"
    BY <1>7 DEF EndRun, rounds, history
  <2>2. \A h \in Hosts : session[running][h] = "open" => h \in cleanup[running]
    BY <2>1 DEF Sessions, Keeps, HoldingPcs
  <2> QED BY <2>1, <2>2 DEF Sessions, Left
<1>8. ASSUME NEW i \in Ids, Age(i) PROVE Sessions'
  <2>1. DOMAIN jobs' = DOMAIN jobs /\ UNCHANGED <<session, running, exec, cleanup, round>>
    BY <1>8 DEF Age, live, rounds, history
  <2> QED BY <1>6, <2>1 DEF Sessions, Left
<1>9. ASSUME \/ Timeout \/ CloseBegins \/ CloseReturns \/ CleanupTick
             \/ \E h \in Hosts : Revoke(h)
             \/ \E i \in Ids : Stop(i)
      PROVE  Sessions'
  <2>1. UNCHANGED <<jobs, running, exec, session, cleanup>>
    BY <1>9 DEF Timeout, CloseBegins, CloseReturns, CleanupTick, Revoke, Stop, StartRounds,
                stored, live, rounds, history
  <2>2. \A i \in Ids : round'[i] \subseteq cleanup[i]
    <3>1. CASE UNCHANGED rounds
      BY <3>1 DEF rounds, Sessions, Left
    <3>2. ASSUME NEW ids, StartRounds(ids) PROVE \A i \in Ids : round'[i] \subseteq cleanup[i]
      BY <3>2 DEF StartRounds, Sessions, Left
    <3> QED BY <1>9, <3>1, <3>2 DEF Timeout, CloseBegins, CloseReturns, CleanupTick, Revoke, Stop
  <2> QED BY <1>6, <2>1, <2>2
<1>10. ASSUME NEW i \in Ids, RoundStep(i) PROVE Sessions'
  <2>1. CASE EndRound(i)
    <3>1. UNCHANGED <<jobs, running, exec, session, cleanup, round>>
      BY <2>1 DEF EndRound, live, history
    <3> QED BY <1>6, <3>1 DEF Sessions, Left
  <2>2. ASSUME NEW h \in Hosts, RoundGivesUp(i, h) PROVE Sessions'
    <3>1. /\ UNCHANGED <<jobs, running, exec, session, cleanup>>
          /\ round' = [round EXCEPT ![i] = @ \ {h}]
      BY <2>2 DEF RoundGivesUp, stored, live, history
    <3>2. \A j \in Ids : round'[j] \subseteq cleanup[j]
      BY <3>1 DEF Types, Sessions, Left
    <3> QED BY <1>6, <3>1, <3>2
  <2>3. ASSUME NEW h \in Hosts, RoundCloseOk(i, h) \/ RoundCloseError(i, h) PROVE Sessions'
    <3>1. /\ session' = [session EXCEPT ![i][h] = "closed"]
          /\ running' = running /\ exec' = exec /\ DOMAIN jobs' = DOMAIN jobs
      BY <2>3 DEF RoundCloseOk, RoundCloseError, stored, live
    <3>2. /\ \/ UNCHANGED cleanup
             \/ cleanup' = [cleanup EXCEPT ![i] = @ \ {h}]
          /\ \/ UNCHANGED <<cleanup, round>>
             \/ round' = [round EXCEPT ![i] = @ \ {h}]
      BY <2>3 DEF RoundCloseOk, RoundCloseError, rounds
    <3>3. /\ session' \in [Ids -> [Hosts -> {"none", "open", "closed", "lost"}]]
          /\ session'[i][h] = "closed"
          /\ \A j \in Ids : \A g \in Hosts : j # i \/ g # h => session'[j][g] = session[j][g]
      BY <3>1 DEF Types
    <3>4. \A j \in Ids : /\ cleanup'[j] \subseteq cleanup[j]
                         /\ \A g \in Hosts : g \in cleanup[j] => g \in cleanup'[j] \/ (j = i /\ g = h)
      BY <3>2 DEF Types
    <3>5. \A j \in Ids : round'[j] \subseteq cleanup'[j]
      <4>1. \A j \in Ids : round[j] \subseteq cleanup[j]
        BY DEF Sessions, Left
      <4>2. CASE RoundCloseOk(i, h)
        <5>1. /\ cleanup' = [cleanup EXCEPT ![i] = @ \ {h}]
              /\ round' = [round EXCEPT ![i] = @ \ {h}]
          BY <4>2 DEF RoundCloseOk
        <5> QED BY <4>1, <5>1 DEF Types
      <4>3. CASE RoundCloseError(i, h)
        BY <4>1, <4>3 DEF RoundCloseError, rounds
      <4> QED BY <2>3, <4>2, <4>3
    <3>6. Left'
      BY <3>1, <3>3, <3>4, <3>5 DEF Sessions, Left
    <3>7. running # None => running \in Ids /\ \A g \in Hosts : Keeps(running, g)'
      BY <3>1, <3>3, <3>4 DEF Types, Sessions, Keeps
    <3> QED BY <3>1, <3>6, <3>7 DEF Sessions
  <2> QED BY <1>10, <2>1, <2>2, <2>3 DEF RoundStep
<1>11. CASE UNCHANGED vars
  BY <1>6, <1>11 DEF vars, stored, live, rounds, history, Sessions, Left
<1> QED BY <1>1, <1>2, <1>3, <1>4, <1>5, <1>7, <1>8, <1>9, <1>10, <1>11 DEF Next

LEMMA InitSessions == Init => Sessions
BY DEF Init, Sessions, Left, NoSessions

\* A session that may be open is held by a worker, or remembered for cleanup
\* in a record the user can see and stop.
THEOREM SessionsAccountedFor == Spec => []Accounted
<1> DEFINE Inv == Base /\ Sessions
<1>1. Init => Inv
  BY InitBase, InitSessions
<1>2. Inv /\ [Next]_vars => Inv'
  BY BaseStep, SessionsStep
<1>3. Inv => Accounted
  BY SessionsAccounted
<1> QED BY <1>1, <1>2, <1>3, PTL DEF Spec

-----------------------------------------------------------------------------
(* A command begins once, a session is opened once.  A record that is      *)
(* known, in memory or after a crash on disk, is the only one whose hosts  *)
(* may have begun; a worker that has yet to begin has not.                 *)

Known == IF panel = "down" THEN DOMAIN disk ELSE DOMAIN jobs
Counted ==
    /\ CommandOnce
    /\ \A i \in Ids : i \notin Known =>
          \A h \in Hosts : starts[i][h] = 0 /\ session[i][h] = "none"
    /\ running # None => \A h \in Hosts :
          /\ exec[h].pc \in NotBegun => starts[running][h] = 0
          /\ exec[h].pc \in NotOpened => session[running][h] = "none"

LEMMA CountedWorker ==
    ASSUME Base, Counted, NEW h \in Hosts, WorkerStep(h)
    PROVE  Counted'
<1> DEFINE b == running
<1>1. /\ b \in Ids /\ running' = b /\ panel' = panel /\ Known' = Known /\ b \in Known
      /\ b # None /\ \A g \in Hosts \ {h} : exec'[g] = exec[g]
  <2>1. WorkerFrame(h) /\ panel # "down"
    BY WorkerStepFrame DEF WorkerFrame, Base, Fitting
  <2>2. DOMAIN jobs' = DOMAIN jobs
    BY <2>1 DEF WorkerFrame, OneResult, stored
  <2> QED BY <2>1, <2>2 DEF WorkerFrame, HostStep, Known, Base, Types, Fitting
<1>2. /\ starts \in [Ids -> [Hosts -> Nat]]
      /\ session \in [Ids -> [Hosts -> {"none", "open", "closed", "lost"}]]
  BY DEF Base, Types
<1>3. PICK s \in {"open", "closed", "lost"} :
        session' = [session EXCEPT ![b][h] = s] \/ UNCHANGED session
  BY WorkerBegins
<1>4. \A i \in Ids : i # b => starts'[i] = starts[i] /\ session'[i] = session[i]
  BY <1>1, <1>2, <1>3, WorkerBegins
<1>5. \A g \in Hosts \ {h} : starts'[b][g] = starts[b][g] /\ session'[b][g] = session[b][g]
  BY <1>1, <1>2, <1>3, WorkerBegins
<1>6. starts'[b][h] <= 1 /\ (exec'[h].pc \in NotBegun => starts'[b][h] = 0)
  <2>1. starts[b][h] \in Nat /\ starts[b][h] <= 1 /\ (exec[h].pc \in NotBegun => starts[b][h] = 0)
    BY <1>1, <1>2 DEF Counted, CommandOnce
  <2>2. CASE UNCHANGED starts /\ (exec'[h].pc \in NotBegun => exec[h].pc \in NotBegun)
    BY <2>1, <2>2
  <2>3. CASE /\ exec[h].pc \in NotBegun /\ exec'[h].pc \notin NotBegun
             /\ starts' = [starts EXCEPT ![b][h] = @ + 1]
    BY <1>1, <1>2, <2>1, <2>3
  <2> QED BY <2>2, <2>3, WorkerBegins
<1>7. exec'[h].pc \in NotOpened => session'[b][h] = "none"
  BY <1>1, WorkerBegins DEF Counted
<1>8. CommandOnce'
  BY <1>1, <1>4, <1>5, <1>6 DEF Counted, CommandOnce
<1>9. \A i \in Ids : i \notin Known' => \A g \in Hosts : starts'[i][g] = 0 /\ session'[i][g] = "none"
  BY <1>1, <1>4 DEF Counted
<1>10. \A g \in Hosts : /\ exec'[g].pc \in NotBegun => starts'[b][g] = 0
                        /\ exec'[g].pc \in NotOpened => session'[b][g] = "none"
  BY <1>1, <1>5, <1>6, <1>7 DEF Counted
<1> QED BY <1>1, <1>8, <1>9, <1>10 DEF Counted

\* A step that forgets some records, starts no worker and knows all the others.
LEMMA CountedForget ==
    ASSUME Base, Counted, NEW ids, Forget(ids), Known \subseteq Known' \cup ids,
           \/ running' = None
           \/ running' = running /\ running \notin ids /\ exec' = exec
    PROVE  Counted'
<1>1. CommandOnce'
  BY ForgetEffect DEF Base, Counted, CommandOnce
<1>2. \A i \in Ids : i \notin Known' => \A h \in Hosts : starts'[i][h] = 0 /\ session'[i][h] = "none"
  BY ForgetEffect DEF Base, Counted
<1>3. running \in Ids \cup {None}
  BY DEF Base, Types
<1> QED BY <1>1, <1>2, <1>3, ForgetEffect DEF Counted, Base

LEMMA CountedStep == Base /\ Sessions /\ Counted /\ [Next]_vars => Counted'
<1> SUFFICES ASSUME Base, Sessions, Counted, [Next]_vars PROVE Counted'
  OBVIOUS
<1> USE DEF Base
<1>1. ASSUME NEW h \in Hosts, WorkerStep(h) PROVE Counted'
  BY <1>1, CountedWorker
<1>2. ASSUME NEW i \in Ids, Create(i) PROVE Counted'
  <2> DEFINE all == [j \in DOMAIN jobs \cup {i} |-> IF j = i THEN NewJob ELSE jobs[j]]
             gone == Expired(all)
  <2>1. jobs' = Restrict(all, DOMAIN all \ gone) /\ Forget(gone) /\ i \notin DOMAIN jobs
    BY <1>2 DEF Create
  <2>2. DOMAIN jobs' = (DOMAIN jobs \cup {i}) \ gone
    BY <2>1 DEF Restrict
  <2>3. i \notin gone
    BY DEF Expired, NewJob
  <2> HIDE DEF all, gone
  <2>4. panel = "up" /\ panel' = panel /\ running' = i /\ exec' = Idle
    BY <1>2 DEF Create
  <2>5. \A h \in Hosts : starts'[i][h] = 0 /\ session'[i][h] = "none"
    BY <2>1, <2>3, <2>4, ForgetEffect DEF Counted, Known
  <2>6. CommandOnce'
    BY <2>1, ForgetEffect DEF Counted, CommandOnce
  <2>7. \A j \in Ids : j \notin Known' => \A h \in Hosts : starts'[j][h] = 0 /\ session'[j][h] = "none"
    BY <2>1, <2>2, <2>4, ForgetEffect DEF Counted, Known
  <2> QED BY <2>4, <2>5, <2>6, <2>7 DEF Counted
<1>3. ASSUME NEW i \in Ids, Remove(i) PROVE Counted'
  <2>1. /\ Forget({i}) /\ running # i /\ panel # "down" /\ panel' = panel
        /\ running' = running /\ exec' = exec /\ jobs' = Restrict(jobs, DOMAIN jobs \ {i})
    BY <1>3 DEF Remove, Removable, live
  <2>2. Known \subseteq Known' \cup {i}
    BY <2>1 DEF Known, Restrict
  <2> QED BY <2>1, <2>2, CountedForget
<1>4. CASE Restart
  <2>1. Forget(DOMAIN disk \ DOMAIN jobs') /\ panel = "down" /\ panel' = "up"
    BY <1>4, RestartJobs DEF Restart
  <2>2. running' = None
    BY <1>4 DEF Restart, Fitting, live
  <2>3. Known \subseteq Known' \cup (DOMAIN disk \ DOMAIN jobs')
    BY <2>1 DEF Known
  <2> QED BY <2>1, <2>2, <2>3, CountedForget
<1>5. CASE Crash
  <2>1. panel # "down" /\ panel' = "down" /\ running' = None /\ UNCHANGED <<disk, starts>>
    BY <1>5 DEF Crash
  <2>2. \A i \in Ids : \A h \in Hosts : session[i][h] = "none" => session'[i][h] = "none"
    BY <1>5 DEF Crash
  <2>3. Known \subseteq Known'
    BY <2>1 DEF Known, Fitting
  <2> QED BY <2>1, <2>2, <2>3 DEF Counted, CommandOnce
<1>6. ASSUME UNCHANGED <<starts, session>>, Known' = Known,
             \/ running' = None
             \/ running' = running /\ exec' = exec
      PROVE  Counted'
  BY <1>6 DEF Counted, CommandOnce
<1>7. CASE EndRun
  <2>1. panel' = panel /\ panel # "down" /\ DOMAIN jobs' = DOMAIN jobs /\ running' = None
        /\ UNCHANGED <<starts, session>>
    BY <1>7 DEF EndRun, Fitting, history
  <2> QED BY <1>6, <2>1 DEF Known
<1>8. ASSUME NEW i \in Ids, Age(i) PROVE Counted'
  <2>1. panel' = panel /\ panel # "down" /\ DOMAIN jobs' = DOMAIN jobs
        /\ UNCHANGED <<starts, session, running, exec>>
    BY <1>8 DEF Age, live, history
  <2> QED BY <1>6, <2>1 DEF Known
<1>9. ASSUME \/ Timeout \/ CloseBegins \/ CloseReturns \/ CleanupTick
             \/ \E h \in Hosts : Revoke(h)
             \/ \E i \in Ids : Stop(i)
      PROVE  Counted'
  <2>1. /\ UNCHANGED <<stored, running, exec, starts, session>>
        /\ panel' = "down" <=> panel = "down"
    BY <1>9 DEF Timeout, CloseBegins, CloseReturns, CleanupTick, Revoke, Stop, live, history
  <2> QED BY <1>6, <2>1 DEF Known, stored
<1>10. ASSUME NEW i \in Ids, RoundStep(i) PROVE Counted'
  <2>1. CASE EndRound(i)
    BY <1>6, <2>1 DEF EndRound, live, history, Known, Fitting
  <2>2. ASSUME NEW h \in Hosts, RoundGivesUp(i, h) PROVE Counted'
    BY <1>6, <2>2 DEF RoundGivesUp, live, history, stored, Known
  <2>3. ASSUME NEW h \in Hosts, RoundCloseOk(i, h) \/ RoundCloseError(i, h) PROVE Counted'
    <3>1. /\ session' = [session EXCEPT ![i][h] = "closed"] /\ starts' = starts
          /\ running' = running /\ exec' = exec /\ Known' = Known
      BY <2>3 DEF RoundCloseOk, RoundCloseError, stored, live, Known
    <3>2. session[i][h] # "none" /\ i \in DOMAIN jobs
      BY <2>3 DEF Sessions, Left, RoundCloseOk, RoundCloseError
    <3>3. i \in Known /\ (i = running => exec[h].pc \notin NotOpened)
      BY <3>2, NoneAssumption DEF Counted, Known, Fitting
    <3>4. \A j \in Ids : \A g \in Hosts : j # i \/ g # h => session'[j][g] = session[j][g]
      BY <3>1 DEF Types
    <3>5. running \in Ids \cup {None}
      BY DEF Types
    <3>6. CommandOnce'
      BY <3>1 DEF Counted, CommandOnce
    <3>7. \A j \in Ids : j \notin Known' =>
             \A g \in Hosts : starts'[j][g] = 0 /\ session'[j][g] = "none"
      BY <3>1, <3>3, <3>4 DEF Counted
    <3>8. running' # None => \A g \in Hosts :
             /\ exec'[g].pc \in NotBegun => starts'[running'][g] = 0
             /\ exec'[g].pc \in NotOpened => session'[running'][g] = "none"
      BY <3>1, <3>3, <3>4, <3>5 DEF Counted
    <3> QED BY <3>6, <3>7, <3>8 DEF Counted
  <2> QED BY <1>10, <2>1, <2>2, <2>3 DEF RoundStep
<1>11. CASE UNCHANGED vars
  BY <1>6, <1>11 DEF vars, stored, live, history, Known
<1> QED BY <1>1, <1>2, <1>3, <1>4, <1>5, <1>7, <1>8, <1>9, <1>10, <1>11 DEF Next

LEMMA InitCounted == Init => Counted
BY DEF Init, Counted, CommandOnce, NoSessions

\* Under one record a host begins the command at most once, whatever is
\* retried, lost, resubmitted, not written or restarted.
THEOREM CommandAtMostOnce == Spec => []CommandOnce
<1> DEFINE Inv == Base /\ Sessions /\ Counted
<1>1. Init => Inv
  BY InitBase, InitSessions, InitCounted
<1>2. Inv /\ [Next]_vars => Inv'
  BY BaseStep, SessionsStep, CountedStep
<1>3. Inv => CommandOnce
  BY DEF Counted
<1> QED BY <1>1, <1>2, <1>3, PTL DEF Spec

-----------------------------------------------------------------------------
(* A host is never given a second session.                                 *)

\* No session of the step's beginning that was closed or lost opens.
NoSecondSession ==
    \A i \in Ids : \A h \in Hosts : session[i][h] \in {"closed", "lost"} => session'[i][h] # "open"

LEMMA SecondSession == Base /\ Sessions /\ Counted /\ [Next]_vars => NoSecondSession
<1> SUFFICES ASSUME Base, Sessions, Counted, [Next]_vars PROVE NoSecondSession
  OBVIOUS
<1> USE DEF NoSecondSession
<1>0. Types /\ session \in [Ids -> [Hosts -> {"none", "open", "closed", "lost"}]]
  BY DEF Base, Types
<1>1. ASSUME NEW h \in Hosts, WorkerStep(h) PROVE NoSecondSession
  <2>1. running \in Ids /\ running # None
    BY <1>1, WorkerStepFrame DEF WorkerFrame, Base, Types
  <2>2. PICK s \in {"open", "closed", "lost"} :
          session' = [session EXCEPT ![running][h] = s] \/ UNCHANGED session
    BY <1>1, WorkerBegins
  <2>3. \A i \in Ids : \A g \in Hosts : i # running \/ g # h => session'[i][g] = session[i][g]
    BY <1>0, <2>1, <2>2
  <2>4. session'[running][h] = "open" => session[running][h] = "open" \/ session[running][h] = "none"
    BY <1>1, <2>1, WorkerBegins DEF Counted
  <2> QED BY <2>3, <2>4
<1>2. ASSUME NEW i \in Ids, Create(i) \/ Remove(i) PROVE NoSecondSession
  <2>1. \E ids : Forget(ids)
    BY <1>2 DEF Create, Remove
  <2> QED BY <1>0, <2>1, ForgetEffect
<1>3. CASE Restart
  <2>1. \E ids : Forget(ids)
    BY <1>3 DEF Restart
  <2> QED BY <1>0, <2>1, ForgetEffect
<1>4. CASE Crash
  BY <1>4 DEF Crash
<1>5. CASE UNCHANGED session
  BY <1>5
<1>6. ASSUME NEW i \in Ids, Age(i) \/ Stop(i) PROVE UNCHANGED session
  BY <1>6 DEF Age, Stop, history
<1>7. CASE EndRun \/ Timeout \/ CleanupTick \/ CloseBegins \/ CloseReturns \/ UNCHANGED vars
           \/ \E h \in Hosts : Revoke(h)
  BY <1>5, <1>7 DEF EndRun, Timeout, CleanupTick, CloseBegins, CloseReturns, Revoke, vars, history
<1>8. ASSUME NEW i \in Ids, RoundStep(i) PROVE NoSecondSession
  <2>1. CASE EndRound(i)
    BY <1>5, <2>1 DEF EndRound, history
  <2>2. ASSUME NEW h \in Hosts, RoundGivesUp(i, h) PROVE NoSecondSession
    BY <1>5, <2>2 DEF RoundGivesUp, history
  <2>3. ASSUME NEW h \in Hosts, RoundCloseOk(i, h) \/ RoundCloseError(i, h) PROVE NoSecondSession
    <3>1. session' = [session EXCEPT ![i][h] = "closed"]
      BY <2>3 DEF RoundCloseOk, RoundCloseError
    <3> QED BY <1>0, <3>1
  <2> QED BY <1>8, <2>1, <2>2, <2>3 DEF RoundStep
<1> QED BY <1>1, <1>2, <1>3, <1>4, <1>5, <1>6, <1>7, <1>8 DEF Next

\* A host that had, or may have had, a session for a record gets no other.
THEOREM SessionAtMostOnce == Spec => OpenOnce
<1> DEFINE Inv == Base /\ Sessions /\ Counted
<1>1. Init => Inv
  BY InitBase, InitSessions, InitCounted
<1>2. Inv /\ [Next]_vars => Inv'
  BY BaseStep, SessionsStep, CountedStep
<1>3. Inv /\ [Next]_vars => [NoSecondSession]_vars
  BY SecondSession
<1> QED BY <1>1, <1>2, <1>3, PTL DEF Spec, OpenOnce, NoSecondSession

-----------------------------------------------------------------------------
(* Nothing is left of the manager after Close.                             *)

\* After Close has returned, no batch and no round runs, nor begins to.
THEOREM NothingAfterClose == Spec => []QuietAfterClose
<1>1. Init => QuietAfterClose
  BY DEF Init, QuietAfterClose
<1>2. Base /\ QuietAfterClose /\ [Next]_vars => QuietAfterClose'
  <2> SUFFICES ASSUME Base, QuietAfterClose, [Next]_vars PROVE QuietAfterClose'
    OBVIOUS
  <2> USE DEF QuietAfterClose
  <2>1. ASSUME NEW h \in Hosts, WorkerStep(h) \/ Revoke(h) PROVE QuietAfterClose'
    BY <2>1, WorkerStepFrame DEF WorkerFrame, HostStep, Revoke, rounds
  <2>2. ASSUME NEW i \in Ids, Create(i) PROVE QuietAfterClose'
    BY <2>2 DEF Create
  <2>3. ASSUME NEW i \in Ids, Remove(i) \/ Age(i) PROVE QuietAfterClose'
    BY <2>3 DEF Remove, Age, live, rounds
  <2>4. ASSUME NEW i \in Ids, RoundStep(i) PROVE QuietAfterClose'
    <3>1. panel' = panel /\ running' = running /\ cleaning' \subseteq cleaning
      BY <2>4 DEF RoundStep, RoundCloseOk, RoundCloseError, RoundGivesUp, EndRound, AfterRound, live, rounds
    <3> QED BY <3>1
  <2>5. ASSUME NEW ids, StartRounds(ids), running' = running, panel' = panel PROVE QuietAfterClose'
    BY <2>5 DEF StartRounds, MayClean
  <2>6. ASSUME CleanupTick \/ \E i \in Ids : Stop(i) PROVE QuietAfterClose'
    BY <2>5, <2>6 DEF CleanupTick, Stop, live
  <2>7. CASE EndRun \/ Timeout \/ CloseBegins \/ CloseReturns \/ UNCHANGED vars
    BY <2>7 DEF EndRun, Timeout, CloseBegins, CloseReturns, vars, live, rounds
  <2>8. CASE Crash \/ Restart
    BY <2>8 DEF Crash, Restart
  <2> QED BY <2>1, <2>2, <2>3, <2>4, <2>6, <2>7, <2>8 DEF Next
<1> QED BY <1>1, <1>2, InitBase, BaseStep, PTL DEF Spec

-----------------------------------------------------------------------------
(* Nothing idle shows as under way.                                        *)

EndedPcs == {"remembering", "done"}

\* A worker that has ended has reported a final result.
Reported ==
    /\ SettledWhenIdle
    /\ running # None => \A h \in Hosts : exec[h].pc \in EndedPcs => jobs[running].result[h] \in Final

LEMMA WorkerReports ==
    ASSUME Base, Reported, NEW h \in Hosts, WorkerStep(h), exec'[h].pc \in EndedPcs
    PROVE  jobs'[running].result[h] \in Final
<1> USE DEF Base, EndedPcs
<1>0. running \in DOMAIN jobs /\ running # None /\ exec[h] \in Execs
  BY WorkerStepFrame DEF WorkerFrame, Fitting, Types
<1>u. ASSUME NEW r \in Final, Update(h, r) PROVE jobs'[running].result[h] \in Final
  <2>1. OneResult(h, r) /\ jobs[running].result \in [Hosts -> Results]
    BY <1>0, <1>u, UpdateEffect, ResultKinds DEF Types, Jobs
  <2> QED BY <2>1 DEF OneResult
<1>g. ASSUME NEW p \in Pcs, Goes(h, p) PROVE exec'[h].pc = p
  BY <1>g, GoesTyped
<1>d. ASSUME GivesUpHost(h) PROVE jobs'[running].result[h] \in Final
  BY <1>d, <1>u, ResultKinds DEF GivesUpHost
<1>1. CASE Take(h)
  BY <1>1, <1>g, <1>d DEF Take, Pcs
<1>2. CASE OpenOk(h) \/ CloseOk(h) \/ CloseError(h) \/ CloseAgain(h)
  BY <1>2, <1>g DEF OpenOk, CloseOk, CloseError, CloseAgain, Pcs
<1>3. CASE OpenLimit(h)
  BY <1>3, <1>g, <1>d DEF OpenLimit, AfterLimit, Pcs
<1>4. CASE OpenError(h)
  BY <1>4, <1>u, <1>d DEF OpenError, AfterOpenError, Final, Outcomes
<1>5. CASE Backoff(h)
  BY <1>5, <1>g, <1>d DEF Backoff, Pcs
<1>6. CASE Send(h)
  BY <1>6, <1>g, ToClosingTyped DEF Send, Pcs, Outcomes
<1>7. CASE ReadExit(h) \/ ReadFails(h)
  BY <1>7, ToClosingTyped, ResultKinds DEF ReadExit, ReadFails, Outcomes
<1>8. CASE CloseGivesUp(h)
  BY <1>8, GivesUpTyped
<1>9. CASE Finish(h)
  <2>1. exec[h].outcome \in Final /\ StopResult(h) \in Final
    BY <1>0, ResultKinds DEF Execs
  <2>2. \E r \in Final : Update(h, r)
    BY <1>9, <2>1 DEF Finish
  <2> QED BY <1>u, <2>2
<1>10. CASE Remember(h)
  <2>1. exec[h].pc = "remembering" /\ jobs' = jobs
    BY <1>10 DEF Remember, At, stored
  <2> QED BY <1>0, <2>1 DEF Reported
<1> QED BY <1>1, <1>2, <1>3, <1>4, <1>5, <1>6, <1>7, <1>8, <1>9, <1>10 DEF WorkerStep

LEMMA ReportedWorker ==
    ASSUME Base, Reported, NEW h \in Hosts, WorkerStep(h)
    PROVE  Reported'
<1>1. WorkerFrame(h) /\ running # None /\ running' = running /\ running \in DOMAIN jobs
  BY WorkerStepFrame DEF WorkerFrame, HostStep, Base, Fitting
<1>2. /\ DOMAIN jobs' = DOMAIN jobs
      /\ \A i \in DOMAIN jobs : i # running => jobs'[i] = jobs[i]
      /\ \A g \in Hosts \ {h} : jobs'[running].result[g] = jobs[running].result[g]
  <2>1. CASE UNCHANGED stored
    BY <2>1 DEF stored
  <2>2. ASSUME NEW r \in Results, OneResult(h, r)
        PROVE  \A g \in Hosts \ {h} : jobs'[running].result[g] = jobs[running].result[g]
    <3>1. jobs[running].result \in [Hosts -> Results]
      BY <1>1 DEF Base, Types, Jobs
    <3> QED BY <2>2, <3>1 DEF OneResult
  <2> QED BY <1>1, <2>1, <2>2 DEF WorkerFrame, OneResult
<1>3. SettledWhenIdle'
  BY <1>1, <1>2 DEF Reported, SettledWhenIdle
<1>4. \A g \in Hosts : exec'[g].pc \in EndedPcs => jobs'[running].result[g] \in Final
  BY <1>1, <1>2, WorkerReports DEF WorkerFrame, Reported
<1> QED BY <1>1, <1>3, <1>4 DEF Reported

\* A step that takes some records away and leaves the others and the batch.
LEMMA ReportedKept ==
    ASSUME Reported, DOMAIN jobs' \subseteq DOMAIN jobs,
           \A i \in DOMAIN jobs' : jobs'[i].state = jobs[i].state /\ jobs'[i].result = jobs[i].result,
           running' = running, exec' = exec, running # None => running \in DOMAIN jobs'
    PROVE  Reported'
BY DEF Reported, SettledWhenIdle

LEMMA ReportedStep == Base /\ Reported /\ [Next]_vars => Reported'
<1> SUFFICES ASSUME Base, Reported, [Next]_vars PROVE Reported'
  OBVIOUS
<1> USE DEF Base
<1>1. ASSUME NEW h \in Hosts, WorkerStep(h) PROVE Reported'
  BY <1>1, ReportedWorker
<1>2. ASSUME NEW i \in Ids, Create(i) PROVE Reported'
  <2> DEFINE all == [j \in DOMAIN jobs \cup {i} |-> IF j = i THEN NewJob ELSE jobs[j]]
             gone == Expired(all)
  <2>1. jobs' = Restrict(all, DOMAIN all \ gone) /\ running = None /\ running' = i /\ exec' = Idle
    BY <1>2 DEF Create
  <2>2. \A j \in DOMAIN jobs' : j # i => j \in DOMAIN jobs /\ jobs'[j] = jobs[j]
    BY <2>1 DEF Restrict
  <2> HIDE DEF all, gone
  <2>3. SettledWhenIdle'
    <3>1. \A j \in DOMAIN jobs : j # running
      BY <2>1, NoneAssumption DEF Types
    <3> QED BY <2>1, <2>2, <3>1 DEF Reported, SettledWhenIdle
  <2>4. \A h \in Hosts : exec'[h].pc \notin EndedPcs
    BY <2>1 DEF Idle, NewExec, EndedPcs
  <2> QED BY <2>3, <2>4 DEF Reported
<1>3. ASSUME NEW i \in Ids, Remove(i) PROVE Reported'
  <2>1. /\ jobs' = Restrict(jobs, DOMAIN jobs \ {i}) /\ running # i
        /\ running' = running /\ exec' = exec
    BY <1>3 DEF Remove, Removable, live
  <2>2. DOMAIN jobs' = DOMAIN jobs \ {i} /\ \A j \in DOMAIN jobs' : jobs'[j] = jobs[j]
    BY <2>1 DEF Restrict
  <2> QED BY <2>1, <2>2, ReportedKept DEF Fitting
<1>4. ASSUME NEW i \in Ids, Age(i) PROVE Reported'
  <2>1. i \in DOMAIN jobs /\ jobs' = [jobs EXCEPT ![i].old = TRUE] /\ running' = running /\ exec' = exec
    BY <1>4 DEF Age, live
  <2>2. jobs[i].state = [jobs[i] EXCEPT !.old = TRUE].state
        /\ jobs[i].result = [jobs[i] EXCEPT !.old = TRUE].result
    BY <2>1 DEF Types, Jobs
  <2>3. DOMAIN jobs' = DOMAIN jobs /\ \A j \in DOMAIN jobs' :
          jobs'[j].state = jobs[j].state /\ jobs'[j].result = jobs[j].result
    BY <2>1, <2>2
  <2> QED BY <2>1, <2>3, ReportedKept DEF Fitting
<1>5. CASE EndRun
  <2> DEFINE st == IF panel # "up" THEN "interrupted" ELSE IF ctx # "live" THEN "stopped" ELSE "completed"
  <2>1. /\ running \in DOMAIN jobs /\ running # None /\ running' = None
        /\ jobs' = [jobs EXCEPT ![running].state = st]
    BY <1>5 DEF EndRun, Fitting
  <2>2. \A h \in Hosts : jobs[running].result[h] \in Final
    BY <1>5 DEF EndRun, Reported, EndedPcs
  <2>3. st # "running"
    OBVIOUS
  <2> HIDE DEF st
  <2>4. jobs'[running].state = st /\ jobs'[running].result = jobs[running].result
    BY <2>1 DEF Types, Jobs
  <2>5. DOMAIN jobs' = DOMAIN jobs /\ \A i \in DOMAIN jobs : i # running => jobs'[i] = jobs[i]
    BY <2>1
  <2>6. SettledWhenIdle'
    BY <2>2, <2>3, <2>4, <2>5 DEF Reported, SettledWhenIdle
  <2> QED BY <2>1, <2>6 DEF Reported
<1>6. ASSUME \/ Timeout \/ CloseBegins \/ CloseReturns \/ CleanupTick
             \/ \E h \in Hosts : Revoke(h)
             \/ \E i \in Ids : Stop(i)
      PROVE  Reported'
  <2>1. jobs' = jobs /\ running' = running /\ exec' = exec
    BY <1>6 DEF Timeout, CloseBegins, CloseReturns, CleanupTick, Revoke, Stop, live, stored
  <2> QED BY <2>1, ReportedKept DEF Fitting
<1>7. CASE Crash
  BY <1>7 DEF Crash, Reported, SettledWhenIdle
<1>8. CASE Restart
  <2>1. running' = None
    BY <1>8 DEF Restart, Fitting, live
  <2>2. \A i \in DOMAIN jobs' : jobs'[i].state # "running" /\ \A h \in Hosts : jobs'[i].result[h] \in Final
    BY <1>8, RestartJobs, InterruptedTyped DEF Types
  <2> QED BY <2>1, <2>2 DEF Reported, SettledWhenIdle
<1>9. ASSUME NEW i \in Ids, RoundStep(i) PROVE Reported'
  <2>1. ASSUME jobs' = jobs, running' = running, exec' = exec PROVE Reported'
    BY <2>1, ReportedKept DEF Fitting
  <2>2. CASE EndRound(i)
    BY <2>1, <2>2 DEF EndRound, live
  <2>3. ASSUME NEW h \in Hosts, RoundGivesUp(i, h) \/ RoundCloseError(i, h) PROVE Reported'
    BY <2>1, <2>3 DEF RoundGivesUp, RoundCloseError, live, stored
  <2>4. ASSUME NEW h \in Hosts, RoundCloseOk(i, h) PROVE Reported'
    <3>1. running' = running /\ exec' = exec
      BY <2>4 DEF RoundCloseOk, live
    <3>2. CASE UNCHANGED jobs
      BY <2>1, <3>1, <3>2
    <3>3. CASE /\ i \in DOMAIN jobs
               /\ jobs' = [jobs EXCEPT ![i] = [state |-> @.state, old |-> FALSE,
                                               result |-> [@.result EXCEPT ![h] = "stopped"]]]
      <4>1. jobs[i].result \in [Hosts -> Results]
        BY <3>3 DEF Types, Jobs
      <4>2. /\ DOMAIN jobs' = DOMAIN jobs /\ \A j \in DOMAIN jobs : j # i => jobs'[j] = jobs[j]
            /\ jobs'[i].state = jobs[i].state
            /\ jobs'[i].result = [jobs[i].result EXCEPT ![h] = "stopped"]
        BY <3>3
      <4>3. "stopped" \in Final
        BY DEF Final
      <4>4. \A g \in Hosts : jobs[i].result[g] \in Final => jobs'[i].result[g] \in Final
        BY <4>1, <4>2, <4>3
      <4> QED BY <3>1, <3>3, <4>2, <4>4 DEF Reported, SettledWhenIdle
    <3> QED BY <2>4, <3>2, <3>3 DEF RoundCloseOk
  <2> QED BY <1>9, <2>2, <2>3, <2>4 DEF RoundStep
<1>10. CASE UNCHANGED vars
  BY <1>10, ReportedKept DEF vars, live, stored, Fitting
<1> QED BY <1>1, <1>2, <1>3, <1>4, <1>5, <1>6, <1>7, <1>8, <1>9, <1>10 DEF Next

\* A batch that nobody executes, after its end or a restart, is settled.
THEOREM IdleIsSettled == Spec => []SettledWhenIdle
<1> DEFINE Inv == Base /\ Reported
<1>1. Init => Inv
  BY InitBase DEF Init, Reported, SettledWhenIdle
<1>2. Inv /\ [Next]_vars => Inv'
  BY BaseStep, ReportedStep
<1>3. Inv => SettledWhenIdle
  BY DEF Reported
<1> QED BY <1>1, <1>2, <1>3, PTL DEF Spec

-----------------------------------------------------------------------------
(* The workers.                                                            *)

Staffed == IsFiniteSet(Busy) /\ Cardinality(Busy) <= Workers

LEMMA FewerBusy ==
    ASSUME Staffed, Busy' \subseteq Busy
    PROVE  Staffed'
<1>1. IsFiniteSet(Busy') /\ Cardinality(Busy') <= Cardinality(Busy)
  BY FS_Subset DEF Staffed
<1>2. Cardinality(Busy') \in Nat /\ Cardinality(Busy) \in Nat
  BY <1>1, FS_CardinalityType DEF Staffed
<1> QED BY <1>1, <1>2, WorkersAssumption DEF Staffed

LEMMA StaffedStep == Base /\ Staffed /\ [Next]_vars => Staffed'
<1> SUFFICES ASSUME Base, Staffed, [Next]_vars PROVE Staffed'
  OBVIOUS
<1>1. ASSUME NEW h \in Hosts, WorkerStep(h) PROVE Staffed'
  <2>1. exec \in [Hosts -> Execs] /\ exec' \in [Hosts -> Execs] /\ \A g \in Hosts \ {h} : exec'[g] = exec[g]
    BY <1>1, WorkerStepFrame DEF WorkerFrame, Base, Types
  <2>2. CASE Take(h)
    <3>1. Busy' \subseteq Busy \cup {h}
      BY <2>1 DEF Busy
    <3>2. IsFiniteSet(Busy) /\ Cardinality(Busy) < Workers /\ Cardinality(Busy) \in Nat
      BY <2>2, FS_CardinalityType DEF Take, FreeWorker, Staffed
    <3>3. /\ IsFiniteSet(Busy \cup {h})
          /\ Cardinality(Busy \cup {h}) \in Nat
          /\ Cardinality(Busy \cup {h}) <= Cardinality(Busy) + 1
      BY <3>2, FS_AddElement
    <3>4. /\ IsFiniteSet(Busy') /\ Cardinality(Busy') \in Nat
          /\ Cardinality(Busy') <= Cardinality(Busy \cup {h})
      BY <3>1, <3>3, FS_Subset, FS_CardinalityType
    <3> QED BY <3>2, <3>3, <3>4, WorkersAssumption DEF Staffed
  <2>3. CASE ~Take(h)
    <3>1. h \in Busy
      BY <1>1, <2>3 DEF WorkerStep, OpenOk, OpenLimit, OpenError, Backoff, Send, ReadExit, ReadFails,
           CloseOk, CloseError, CloseAgain, CloseGivesUp, Finish, Remember, At, Busy
    <3>2. Busy' \subseteq Busy
      BY <2>1, <3>1 DEF Busy
    <3> QED BY <3>2, FewerBusy
  <2> QED BY <2>2, <2>3
<1>2. CASE exec' = exec
  BY <1>2, FewerBusy DEF Busy
<1>3. CASE exec' = Idle
  <2>1. Busy' = {}
    BY <1>3 DEF Busy, Idle, NewExec
  <2> QED BY <2>1, FewerBusy
<1>4. ASSUME NEW i \in Ids, Create(i) \/ Remove(i) \/ Age(i) \/ Stop(i) \/ RoundStep(i)
      PROVE  exec' \in {exec, Idle}
  BY <1>4 DEF Create, Remove, Age, Stop, RoundStep, RoundCloseOk, RoundCloseError, RoundGivesUp,
              EndRound, live
<1>5. ASSUME \/ EndRun \/ Timeout \/ CleanupTick \/ CloseBegins \/ CloseReturns \/ Crash \/ Restart
             \/ UNCHANGED vars \/ \E h \in Hosts : Revoke(h)
      PROVE  exec' \in {exec, Idle}
  BY <1>5 DEF EndRun, Timeout, CleanupTick, CloseBegins, CloseReturns, Crash, Restart, Revoke, vars, live
<1> QED BY <1>1, <1>2, <1>3, <1>4, <1>5 DEF Next

\* Every variable has its type, and no more workers than there are are busy.
THEOREM TypeCorrect == Spec => []TypeOK
<1> DEFINE Inv == Base /\ Staffed
<1>1. Init => Inv
  <2>1. Init => Busy = {}
    BY DEF Init, Busy, Idle, NewExec
  <2> QED BY <2>1, InitBase, FS_EmptySet, WorkersAssumption DEF Staffed
<1>2. Inv /\ [Next]_vars => Inv'
  BY BaseStep, StaffedStep
<1>3. Inv => TypeOK
  BY DEF Base, Staffed, TypeOK
<1> QED BY <1>1, <1>2, <1>3, PTL DEF Spec

-----------------------------------------------------------------------------
(* What is reported is true.                                               *)

BeforeExit == {"queued", "opening", "backoff", "sending", "reading"}
ClosingPcs == {"closing", "retry", "finishing"}

\* The worker of h has yet to report how it ended.
Pending(i, h) == i = running /\ exec[h].pc \notin EndedPcs

\* What a worker keeps until it reports is what the output said, or nothing.
Told(h) ==
    LET e == exec[h]
        t == truth[running][h]
    IN  /\ e.pc \in BeforeExit => t = "none"
        /\ e.pc \in ClosingPcs => IF e.completed THEN t \in Confirmed /\ e.outcome = t
                                  ELSE t = "none" /\ e.outcome \notin Confirmed

\* A result in memory.
Shown(i, h) ==
    LET r == jobs[i].result[h]
        t == truth[i][h]
    IN  IF Pending(i, h) THEN r \notin Final
        ELSE /\ r \in Confirmed => t = r
             /\ t # "none" => r = t \/ (r = "interrupted" /\ crashes > 0)

\* A saved record that every start lets go of.
Stale(i) == disk[i].old /\ disk[i].state # "running"

\* A saved result may lag behind, but never says anything else.
Saved(i, h) ==
    LET r == disk[i].result[h]
        t == truth[i][h]
    IN  /\ Pending(i, h) => r \notin Final
        /\ r \in Confirmed => t = r \/ Stale(i)
        /\ t # "none" => r = t \/ r \notin Final \/ r = "interrupted"

Truthful ==
    /\ panel = "down" => crashes > 0
    /\ \A i \in Ids : i \notin Known => \A h \in Hosts : truth[i][h] = "none"
    /\ running # None => \A h \in Hosts : Told(h)
    /\ \A i \in DOMAIN jobs : \A h \in Hosts : Shown(i, h)
    /\ \A i \in DOMAIN disk : \A h \in Hosts : Saved(i, h)

LEMMA TruthfulReports == Base /\ Truthful => ResultIsTrue
BY ResultKinds DEF Truthful, ResultIsTrue, Shown, Pending, EndedPcs

\* A result that is shown may be saved.
LEMMA ShownMaySave ==
    ASSUME NEW i, NEW h, Shown(i, h)', disk'[i].result = jobs'[i].result
    PROVE  Saved(i, h)'
BY ResultKinds DEF Shown, Saved, Confirmed, Final, Outcomes

\* A step that changes no result and starts no worker.
LEMMA TruthfulKept ==
    ASSUME Base, Truthful, UNCHANGED <<truth, crashes>>, panel' = "down" => panel = "down",
           DOMAIN jobs' = DOMAIN jobs,
           \A i \in DOMAIN jobs : jobs'[i].result = jobs[i].result,
           \A i \in DOMAIN disk' :
              \/ i \in DOMAIN disk /\ disk'[i].result = disk[i].result /\ (Stale(i) => Stale(i)')
              \/ i \in DOMAIN jobs /\ disk'[i].result = jobs'[i].result,
           \A i \in Known : i \in Known',
           \/ running' = running /\ exec' = exec
           \/ running' = None /\ (running # None => \A h \in Hosts : exec[h].pc \in EndedPcs)
    PROVE  Truthful'
<1> USE DEF Base
<1>1. \A i \in Ids, h \in Hosts : Pending(i, h)' <=> Pending(i, h)
  BY NoneAssumption DEF Pending
<1>2. DOMAIN jobs \subseteq Ids /\ DOMAIN disk \subseteq Ids
  BY DEF Types
<1>3. \A i \in DOMAIN jobs' : \A h \in Hosts : Shown(i, h)'
  BY <1>1, <1>2 DEF Truthful, Shown
<1>4. \A i \in DOMAIN disk' : \A h \in Hosts : Saved(i, h)'
  <2> SUFFICES ASSUME NEW i \in DOMAIN disk', NEW h \in Hosts PROVE Saved(i, h)'
    OBVIOUS
  <2>1. CASE i \in DOMAIN disk /\ disk'[i].result = disk[i].result /\ (Stale(i) => Stale(i)')
    BY <1>1, <1>2, <2>1 DEF Truthful, Saved
  <2>2. CASE i \in DOMAIN jobs /\ disk'[i].result = jobs'[i].result
    BY <1>3, <2>2, ShownMaySave
  <2> QED BY <2>1, <2>2
<1>5. running' # None => \A h \in Hosts : Told(h)'
  BY DEF Truthful, Told
<1>6. \A i \in Ids : i \notin Known' => \A h \in Hosts : truth'[i][h] = "none"
  BY DEF Truthful
<1>7. panel' = "down" => crashes' > 0
  BY DEF Truthful
<1> QED BY <1>3, <1>4, <1>5, <1>6, <1>7 DEF Truthful

LEMMA TruthForgotten ==
    ASSUME NEW ids, Types, Forget(ids)
    PROVE  \A i \in Ids :
             /\ i \in ids => \A h \in Hosts : truth'[i][h] = "none"
             /\ i \notin ids => truth'[i] = truth[i]
BY DEF Types, Forget, NoSessions

\* What the step of a worker does to its own result and to what it knows.
LEMMA WorkerTells ==
    ASSUME Base, Truthful, NEW h \in Hosts, WorkerStep(h)
    PROVE  /\ Told(h)' /\ Shown(running, h)' /\ Saved(running, h)'
           /\ \A i \in Ids : \A g \in Hosts : i # running \/ g # h => truth'[i][g] = truth[i][g]
<1> USE ResultKinds DEF Base
<1> DEFINE b == running
           t == truth[b][h]
           AtEnd(p) == p \in EndedPcs
<1>0. /\ b \in Ids /\ b # None /\ b \in DOMAIN jobs /\ b \in DOMAIN disk /\ running' = b
      /\ exec[h] \in Execs /\ crashes' = crashes
      /\ truth \in [Ids -> [Hosts -> Confirmed \cup {"none"}]]
  <2>1. running # None /\ HostStep
    BY WorkerStepFrame DEF WorkerFrame
  <2>2. b \in Ids /\ b \in DOMAIN jobs /\ b \in DOMAIN disk
    BY <2>1 DEF Types, Fitting
  <2>3. exec[h] \in Execs /\ truth \in [Ids -> [Hosts -> Confirmed \cup {"none"}]]
    BY DEF Types
  <2> QED BY <2>1, <2>2, <2>3 DEF HostStep
<1>1. Told(h) /\ Shown(b, h) /\ Saved(b, h)
  BY <1>0 DEF Truthful
<1>a. ASSUME NEW r \in Results, Update(h, r), ~AtEnd(exec[h].pc),
             IF AtEnd(exec'[h].pc)
             THEN /\ r \in Confirmed => truth'[b][h] = r
                  /\ truth'[b][h] # "none" => r = truth'[b][h]
             ELSE r \notin Final
      PROVE  Shown(b, h)' /\ Saved(b, h)'
  <2>1. OneResult(h, r) /\ jobs[b].result \in [Hosts -> Results]
    BY <1>0, <1>a, UpdateEffect DEF Types, Jobs
  <2>2. jobs'[b].result[h] = r /\ disk' \in {disk, jobs'}
    BY <2>1 DEF OneResult
  <2>3. Shown(b, h)'
    BY <1>0, <1>a, <2>2 DEF Shown, Pending
  <2>4. disk[b].result[h] \notin Final
    BY <1>1, <1>a DEF Saved, Pending
  <2>5. Saved(b, h)'
    <3>1. CASE disk' = disk
      BY <1>0, <2>4, <3>1 DEF Saved
    <3>2. CASE disk' = jobs'
      BY <2>3, <3>2, ShownMaySave
    <3> QED BY <2>2, <3>1, <3>2
  <2> QED BY <2>3, <2>5
<1>k. ASSUME UNCHANGED <<stored, truth>>, AtEnd(exec[h].pc) <=> AtEnd(exec'[h].pc)
      PROVE  Shown(b, h)' /\ Saved(b, h)'
  <2>1. Pending(b, h)' <=> Pending(b, h)
    BY <1>0, <1>k DEF Pending
  <2> QED BY <1>0, <1>1, <1>k, <2>1 DEF Shown, Saved, Stale, stored
<1>g. ASSUME NEW p \in Pcs, Goes(h, p)
      PROVE  /\ exec'[h].pc = p /\ exec'[h].completed = exec[h].completed
             /\ exec'[h].outcome = exec[h].outcome
  BY <1>g, GoesTyped
<1>d. ASSUME GivesUpHost(h), exec[h].pc \in BeforeExit, truth' = truth
      PROVE  Told(h)' /\ Shown(b, h)' /\ Saved(b, h)'
  <2>1. exec'[h].pc = "done" /\ Update(h, StopResult(h)) /\ StopResult(h) \in Final
    BY <1>d, <1>g DEF GivesUpHost, Pcs
  <2>2. truth'[b][h] = "none" /\ StopResult(h) \notin Confirmed /\ ~AtEnd(exec[h].pc)
    BY <1>1, <1>d DEF Told, StopResult, Confirmed, BeforeExit, EndedPcs
  <2>3. Shown(b, h)' /\ Saved(b, h)'
    BY <1>a, <2>1, <2>2 DEF EndedPcs
  <2> QED BY <2>1, <2>3 DEF Told, BeforeExit, ClosingPcs
<1>w. ASSUME NEW r \in Results \ Final, NEW p \in BeforeExit, Update(h, r), Goes(h, p), truth' = truth,
             exec[h].pc \in BeforeExit
      PROVE  Told(h)' /\ Shown(b, h)' /\ Saved(b, h)'
  <2>1. exec'[h].pc = p /\ ~AtEnd(p) /\ ~AtEnd(exec[h].pc)
    BY <1>w, <1>g DEF BeforeExit, Pcs, EndedPcs
  <2>2. Shown(b, h)' /\ Saved(b, h)'
    BY <1>a, <1>w, <2>1
  <2>3. Told(h)'
    BY <1>0, <1>1, <1>w, <2>1 DEF Told, BeforeExit, ClosingPcs
  <2> QED BY <2>2, <2>3
<1>c. ASSUME NEW dn \in BOOLEAN, NEW o \in Outcomes, ToClosing(h, dn, o), exec[h].pc \in BeforeExit,
             IF dn THEN truth'[b][h] = o /\ o \in Confirmed
                   ELSE truth' = truth /\ o \notin Confirmed
      PROVE  Told(h)' /\ Shown(b, h)' /\ Saved(b, h)'
  <2>1. /\ exec'[h].pc = "closing" /\ exec'[h].completed = dn /\ exec'[h].outcome = o
        /\ Update(h, "closing")
    BY <1>c, ToClosingTyped
  <2>2. ~AtEnd(exec[h].pc) /\ ~AtEnd("closing") /\ "closing" \notin Final /\ "closing" \in Results
    BY <1>c DEF BeforeExit, EndedPcs
  <2>3. Shown(b, h)' /\ Saved(b, h)'
    BY <1>a, <2>1, <2>2
  <2>4. Told(h)'
    BY <1>0, <1>1, <1>c, <2>1 DEF Told, BeforeExit, ClosingPcs
  <2> QED BY <2>3, <2>4
<1>s. ASSUME NEW p \in Pcs, Goes(h, p), UNCHANGED <<stored, truth>>,
             \/ p \in BeforeExit /\ exec[h].pc \in BeforeExit
             \/ p \in ClosingPcs /\ exec[h].pc \in ClosingPcs
             \/ p \in EndedPcs /\ exec[h].pc \in EndedPcs
      PROVE  Told(h)' /\ Shown(b, h)' /\ Saved(b, h)'
  <2>1. Shown(b, h)' /\ Saved(b, h)'
    BY <1>k, <1>g, <1>s DEF BeforeExit, ClosingPcs, EndedPcs
  <2>2. Told(h)'
    BY <1>0, <1>1, <1>g, <1>s DEF Told, BeforeExit, ClosingPcs, EndedPcs
  <2> QED BY <2>1, <2>2
<1> DEFINE Goal == Told(h)' /\ Shown(b, h)' /\ Saved(b, h)'
<1> USE DEF BeforeExit, At
<1>2. CASE Take(h)
  <2>1. truth' = truth /\ exec[h].pc = "queued"
    BY <1>2 DEF Take, history
  <2>2. CASE Ended(h)
    BY <1>2, <1>d, <2>1, <2>2 DEF Take
  <2>3. CASE ~Ended(h)
    <3>1. Update(h, "connecting") /\ Goes(h, "opening") /\ "connecting" \in Results \ Final
      BY <1>2, <2>3 DEF Take
    <3> QED BY <1>w, <2>1, <3>1
  <2> QED BY <2>1, <2>2, <2>3
<1>3. CASE OpenOk(h)
  <2>1. truth' = truth /\ exec[h].pc = "opening" /\ Update(h, "running") /\ Goes(h, "sending")
        /\ "running" \in Results \ Final
    BY <1>3 DEF OpenOk
  <2> QED BY <1>w, <2>1
<1>4. CASE OpenLimit(h)
  <2>1. truth' = truth /\ exec[h].pc = "opening" /\ "waiting" \in Results \ Final
    BY <1>4 DEF OpenLimit, history
  <2>2. CASE Ended(h)
    BY <1>4, <1>d, <2>1, <2>2 DEF OpenLimit, AfterLimit
  <2>3. CASE ~Ended(h)
    BY <1>4, <1>w, <2>1, <2>3 DEF OpenLimit, AfterLimit
  <2> QED BY <2>1, <2>2, <2>3
<1>5. CASE OpenError(h)
  <2>1. truth' = truth /\ exec[h].pc = "opening"
    BY <1>5 DEF OpenError
  <2>2. CASE Ended(h)
    BY <1>5, <1>d, <2>1, <2>2 DEF OpenError
  <2>3. CASE ~Ended(h)
    <3>1. Update(h, "exec_failed") /\ Goes(h, "done") /\ "exec_failed" \in Results
          /\ "exec_failed" \notin Confirmed
      BY <1>5, <2>3 DEF OpenError, AfterOpenError, Outcomes, Confirmed
    <3>2. exec'[h].pc = "done" /\ truth'[b][h] = "none"
      BY <1>1, <1>g, <2>1, <3>1 DEF Told, Pcs
    <3>3. Shown(b, h)' /\ Saved(b, h)'
      BY <1>a, <2>1, <3>1, <3>2 DEF EndedPcs
    <3> QED BY <2>1, <3>2, <3>3 DEF Told, ClosingPcs
  <2> QED BY <2>1, <2>2, <2>3
<1>6. CASE Backoff(h)
  <2>1. truth' = truth /\ exec[h].pc = "backoff"
    BY <1>6 DEF Backoff, history
  <2>2. CASE GivesUpHost(h)
    BY <1>d, <2>1, <2>2
  <2>3. CASE Goes(h, "opening") /\ UNCHANGED stored
    BY <1>s, <2>1, <2>3 DEF Pcs
  <2> QED BY <1>6, <2>1, <2>2, <2>3 DEF Backoff
<1>7. CASE Send(h)
  <2>1. truth' = truth /\ exec[h].pc = "sending"
    BY <1>7 DEF Send
  <2>2. CASE Goes(h, "reading") /\ UNCHANGED stored
    BY <1>s, <2>1, <2>2 DEF Pcs
  <2>3. CASE ToClosing(h, FALSE, "exec_failed")
    BY <1>c, <2>1, <2>3 DEF Outcomes, Confirmed
  <2> QED BY <1>7, <2>1, <2>2, <2>3 DEF Send
<1>8. CASE ReadExit(h)
  <2>1. PICK r \in Confirmed : truth' = [truth EXCEPT ![b][h] = r] /\ ToClosing(h, TRUE, r)
    BY <1>8 DEF ReadExit
  <2>2. truth'[b][h] = r /\ \A i \in Ids : \A g \in Hosts : i # b \/ g # h => truth'[i][g] = truth[i][g]
    BY <1>0, <2>1
  <2>3. exec[h].pc = "reading"
    BY <1>8 DEF ReadExit
  <2> QED BY <1>c, <2>1, <2>2, <2>3
<1>9. CASE ReadFails(h)
  <2>1. truth' = truth /\ exec[h].pc = "reading" /\ ToClosing(h, FALSE, "exec_failed")
    BY <1>9 DEF ReadFails, history
  <2> QED BY <1>c, <2>1 DEF Outcomes, Confirmed
<1>10. CASE CloseOk(h) \/ CloseError(h) \/ CloseAgain(h)
  <2>1. /\ UNCHANGED <<stored, truth>> /\ exec[h].pc \in ClosingPcs
        /\ \E p \in ClosingPcs : Goes(h, p)
    BY <1>10 DEF CloseOk, CloseError, CloseAgain, ClosingPcs, history
  <2> QED BY <1>s, <2>1 DEF ClosingPcs, Pcs
<1>11. CASE CloseGivesUp(h)
  <2>1. /\ UNCHANGED <<stored, truth>> /\ exec[h].pc = "retry" /\ exec'[h].pc = "finishing"
        /\ exec'[h].completed = exec[h].completed
        /\ exec'[h].outcome = IF StopUnconfirmed(h) THEN "stop_failed" ELSE exec[h].outcome
    BY <1>11, GivesUpTyped DEF CloseGivesUp, history
  <2>2. Shown(b, h)' /\ Saved(b, h)'
    BY <1>k, <2>1 DEF EndedPcs
  <2>3. Told(h)'
    BY <1>0, <1>1, <2>1 DEF Told, ClosingPcs, StopUnconfirmed, Confirmed
  <2> QED BY <2>1, <2>2, <2>3
<1>12. CASE Finish(h)
  <2> DEFINE r == IF StopUnconfirmed(h) /\ exec[h].outcome # "stop_failed"
                  THEN StopResult(h) ELSE exec[h].outcome
  <2>1. truth' = truth /\ exec[h].pc = "finishing" /\ Update(h, r)
    BY <1>12 DEF Finish, history
  <2>2. exec'[h].pc \in EndedPcs
    BY <1>12, <1>g DEF Finish, EndedPcs, Pcs
  <2>3. exec[h].outcome \in Outcomes
    BY <1>0 DEF Execs
  <2>4. r \in Results /\ (r \in Confirmed => t = r) /\ (t # "none" => r = t)
    BY <1>1, <2>1, <2>3 DEF Told, ClosingPcs, StopUnconfirmed, StopResult, Confirmed
  <2>5. Shown(b, h)' /\ Saved(b, h)'
    BY <1>a, <2>1, <2>2, <2>4 DEF EndedPcs
  <2> QED BY <2>1, <2>2, <2>5 DEF Told, ClosingPcs, EndedPcs
<1>13. CASE Remember(h)
  <2>1. UNCHANGED <<stored, truth>> /\ exec[h].pc = "remembering" /\ Goes(h, "done")
    BY <1>13 DEF Remember, history
  <2> QED BY <1>s, <2>1 DEF EndedPcs, Pcs
<1> QED BY <1>2, <1>3, <1>4, <1>5, <1>6, <1>7, <1>8, <1>9, <1>10, <1>11, <1>12, <1>13 DEF WorkerStep

LEMMA TruthfulWorker ==
    ASSUME Base, Truthful, NEW h \in Hosts, WorkerStep(h)
    PROVE  Truthful'
<1> USE DEF Base
<1>1. /\ WorkerFrame(h) /\ running # None /\ running' = running /\ crashes' = crashes
      /\ panel' = panel /\ \A g \in Hosts \ {h} : exec'[g] = exec[g]
  BY WorkerStepFrame DEF WorkerFrame, HostStep
<1>2. /\ running \in DOMAIN jobs /\ DOMAIN jobs \subseteq DOMAIN disk /\ DOMAIN disk \subseteq Ids
      /\ panel # "down"
  BY <1>1 DEF Types, Fitting
<1>3. /\ Told(h)' /\ Shown(running, h)' /\ Saved(running, h)'
      /\ \A i \in Ids : \A g \in Hosts : i # running \/ g # h => truth'[i][g] = truth[i][g]
  BY WorkerTells
<1>4. /\ DOMAIN jobs' = DOMAIN jobs /\ disk' \in {disk, jobs'}
      /\ \A i \in DOMAIN jobs, g \in Hosts :
            i # running \/ g # h => jobs'[i].result[g] = jobs[i].result[g]
  <2>1. CASE UNCHANGED stored
    BY <2>1 DEF stored
  <2>2. ASSUME NEW r \in Results, OneResult(h, r)
        PROVE  \A i \in DOMAIN jobs, g \in Hosts :
                  i # running \/ g # h => jobs'[i].result[g] = jobs[i].result[g]
    <3>1. jobs[running].result \in [Hosts -> Results]
      BY <1>2 DEF Types, Jobs
    <3> QED BY <2>2, <3>1 DEF OneResult
  <2> QED BY <1>1, <2>1, <2>2 DEF WorkerFrame, OneResult
<1>5. \A i \in Ids, g \in Hosts : i # running \/ g # h => (Pending(i, g)' <=> Pending(i, g))
  BY <1>1 DEF Pending
<1>6. \A i \in DOMAIN jobs' : \A g \in Hosts : Shown(i, g)'
  <2> SUFFICES ASSUME NEW i \in DOMAIN jobs', NEW g \in Hosts, i # running \/ g # h PROVE Shown(i, g)'
    BY <1>1, <1>3
  <2>1. Shown(i, g)
    BY <1>4 DEF Truthful
  <2> QED BY <1>1, <1>2, <1>3, <1>4, <1>5, <2>1 DEF Shown
<1>7. \A i \in DOMAIN disk' : \A g \in Hosts : Saved(i, g)'
  <2> SUFFICES ASSUME NEW i \in DOMAIN disk', NEW g \in Hosts, i # running \/ g # h PROVE Saved(i, g)'
    BY <1>1, <1>3
  <2>1. CASE disk' = jobs'
    BY <1>6, <2>1, ShownMaySave
  <2>2. CASE disk' = disk
    <3>1. Saved(i, g) /\ i \in Ids
      BY <1>2, <2>2 DEF Truthful
    <3> QED BY <1>3, <1>5, <2>2, <3>1 DEF Saved, Stale
  <2> QED BY <1>4, <2>1, <2>2
<1>8. \A g \in Hosts : Told(g)'
  <2> SUFFICES ASSUME NEW g \in Hosts, g # h PROVE Told(g)'
    BY <1>3
  <2>1. Told(g) /\ running \in Ids
    BY <1>1, <1>2 DEF Truthful
  <2> QED BY <1>1, <1>3, <2>1 DEF Told
<1>9. \A i \in Ids : i \notin Known' => \A g \in Hosts : truth'[i][g] = "none"
  BY <1>1, <1>2, <1>3, <1>4 DEF Truthful, Known
<1> QED BY <1>1, <1>2, <1>6, <1>7, <1>8, <1>9 DEF Truthful

\* A step that lets some records go, while no worker runs for them.
LEMMA TruthfulForget ==
    ASSUME Base, Truthful, NEW ids, Forget(ids), disk' = jobs', crashes' = crashes,
           panel # "down", panel' = panel, running' \notin ids,
           \A i \in DOMAIN jobs' : i \in Ids \ ids /\ (i \in DOMAIN jobs \/ i = running'),
           \A i \in DOMAIN jobs' : i # running' \/ running' = running => jobs'[i] = jobs[i],
           \A i \in DOMAIN jobs : i \in DOMAIN jobs' \/ i \in ids,
           \/ running' = running /\ exec' = exec
           \/ /\ running = None /\ running' \in Ids /\ running' \notin DOMAIN jobs
              /\ exec' = Idle /\ jobs'[running'] = NewJob
    PROVE  Truthful'
<1> USE DEF Base
<1>0. \A i \in Ids : /\ i \in ids => \A h \in Hosts : truth'[i][h] = "none"
                     /\ i \notin ids => truth'[i] = truth[i]
  BY TruthForgotten
<1>1. \A i \in DOMAIN jobs' : \A h \in Hosts : Shown(i, h)'
  <2> SUFFICES ASSUME NEW i \in DOMAIN jobs', NEW h \in Hosts PROVE Shown(i, h)'
    OBVIOUS
  <2>1. i \in Ids /\ truth'[i] = truth[i]
    BY <1>0
  <2>2. CASE running' = running /\ exec' = exec
    <3>1. i \in DOMAIN jobs /\ jobs'[i] = jobs[i]
      BY <2>2, NoneAssumption DEF Fitting
    <3> QED BY <2>1, <2>2, <3>1 DEF Truthful, Shown, Pending
  <2>3. CASE running = None /\ i = running' /\ exec' = Idle /\ jobs'[running'] = NewJob
    BY <2>3, ResultKinds DEF Shown, Pending, Idle, NewExec, NewJob, EndedPcs
  <2>4. CASE running = None /\ i # running'
    BY <2>1, <2>4, NoneAssumption DEF Truthful, Shown, Pending
  <2> QED BY <2>2, <2>3, <2>4
<1>2. \A i \in DOMAIN disk' : \A h \in Hosts : Saved(i, h)'
  BY <1>1, ShownMaySave
<1>3. running' # None => \A h \in Hosts : Told(h)'
  <2>1. CASE running' = running /\ exec' = exec
    BY <1>0, <2>1 DEF Truthful, Told, Types
  <2>2. CASE running' \in Ids /\ running' \notin DOMAIN jobs /\ exec' = Idle
    <3>1. \A h \in Hosts : truth'[running'][h] = "none"
      BY <1>0, <2>2 DEF Truthful, Known
    <3> QED BY <2>2, <3>1 DEF Told, Idle, NewExec, BeforeExit, ClosingPcs
  <2> QED BY <2>1, <2>2
<1>4. \A i \in Ids : i \notin Known' => \A h \in Hosts : truth'[i][h] = "none"
  BY <1>0 DEF Truthful, Known
<1> QED BY <1>1, <1>2, <1>3, <1>4 DEF Truthful

LEMMA TruthfulRestart == ASSUME Base, Sessions, Truthful, Restart PROVE Truthful'
<1> USE DEF Base
<1>1. /\ running' = None /\ panel = "down" /\ panel' = "up" /\ crashes' = crashes /\ crashes > 0
      /\ DOMAIN jobs' \subseteq DOMAIN disk /\ disk' \in {disk, jobs'}
      /\ Forget(DOMAIN disk \ DOMAIN jobs') /\ DOMAIN disk \subseteq Ids
  BY RestartJobs DEF Restart, Fitting, Types, Truthful, live
<1>2. \A i \in Ids : /\ i \in DOMAIN disk \ DOMAIN jobs' => \A h \in Hosts : truth'[i][h] = "none"
                     /\ i \notin DOMAIN disk \ DOMAIN jobs' => truth'[i] = truth[i]
  BY <1>1, TruthForgotten
<1>3. \A i \in DOMAIN disk : i \notin DOMAIN jobs' => Stale(i)
  <2> DEFINE all == [i \in DOMAIN disk |-> Interrupted(disk[i])]
             gone == Expired(all)
  <2>1. DOMAIN jobs' = DOMAIN disk \ gone
    BY DEF Restart, Restrict
  <2>2. \A i \in gone : all[i].old /\ i \in DOMAIN disk
    BY DEF Expired
  <2>3. \A i \in DOMAIN disk : all[i].old => Stale(i)
    <3> TAKE i \in DOMAIN disk
    <3>1. disk[i] \in Jobs /\ all[i] = Interrupted(disk[i])
      BY DEF Types
    <3>2. Interrupted(disk[i]).old = (disk[i].old /\ disk[i].state # "running")
      BY <3>1 DEF Interrupted, Jobs
    <3> QED BY <3>1, <3>2 DEF Stale
  <2> HIDE DEF all, gone
  <2> QED BY <2>1, <2>2, <2>3
<1>4. \A i \in DOMAIN jobs' : ~Stale(i)
  <2> DEFINE all == [i \in DOMAIN disk |-> Interrupted(disk[i])]
             gone == Expired(all)
  <2>1. DOMAIN jobs' = DOMAIN disk \ gone
    BY DEF Restart, Restrict
  <2>2. \A i \in DOMAIN disk : i \notin gone => ~(all[i].old /\ all[i].state # "running" /\ cleanup[i] = {})
    BY DEF Expired
  <2>3. \A i \in DOMAIN disk : cleanup[i] = {}
    BY <1>1 DEF Sessions, Left, Fitting
  <2>4. \A i \in DOMAIN disk : Stale(i) => all[i].old /\ all[i].state # "running"
    <3> TAKE i \in DOMAIN disk
    <3>1. disk[i] \in Jobs /\ all[i] = Interrupted(disk[i])
      BY DEF Types
    <3>2. Interrupted(disk[i]).old = (disk[i].old /\ disk[i].state # "running")
      BY <3>1 DEF Interrupted, Jobs
    <3> QED BY <3>1, <3>2, InterruptedTyped DEF Stale
  <2> HIDE DEF all, gone
  <2> QED BY <2>1, <2>2, <2>3, <2>4
<1>5. \A i \in DOMAIN jobs', h \in Hosts :
         jobs'[i].result[h] = IF disk[i].result[h] \in Final THEN disk[i].result[h] ELSE "interrupted"
  <2> TAKE i \in DOMAIN jobs', h \in Hosts
  <2>1. disk[i] \in Jobs /\ jobs'[i] = Interrupted(disk[i])
    BY <1>1, RestartJobs DEF Types
  <2> QED BY <2>1 DEF Interrupted, Jobs
<1>6. \A i \in DOMAIN jobs' : \A h \in Hosts : Shown(i, h)'
  <2> TAKE i \in DOMAIN jobs'
  <2> TAKE h \in Hosts
  <2>1. Saved(i, h) /\ ~Stale(i) /\ truth'[i] = truth[i] /\ i \in Ids
    BY <1>1, <1>2, <1>4 DEF Truthful
  <2>2. i # running'
    BY <1>1, NoneAssumption
  <2> QED BY <1>1, <1>5, <2>1, <2>2, ResultKinds DEF Saved, Shown, Pending, Confirmed
<1>7. \A i \in DOMAIN disk' : \A h \in Hosts : Saved(i, h)'
  <2> TAKE i \in DOMAIN disk'
  <2> TAKE h \in Hosts
  <2>1. CASE disk' = jobs'
    BY <1>6, <2>1, ShownMaySave
  <2>2. CASE disk' = disk
    <3>1. Saved(i, h) /\ i \in Ids /\ i # running' /\ Stale(i)' = Stale(i)
      BY <1>1, <2>2, NoneAssumption DEF Truthful, Stale
    <3>2. CASE i \in DOMAIN jobs'
      BY <1>2, <2>2, <3>1, <3>2 DEF Saved, Pending
    <3>3. CASE i \notin DOMAIN jobs'
      BY <1>2, <1>3, <2>2, <3>1, <3>3 DEF Saved, Pending
    <3> QED BY <3>2, <3>3
  <2> QED BY <1>1, <2>1, <2>2
<1>8. \A i \in Ids : i \notin Known' => \A h \in Hosts : truth'[i][h] = "none"
  BY <1>1, <1>2 DEF Truthful, Known
<1> QED BY <1>1, <1>6, <1>7, <1>8 DEF Truthful

LEMMA TruthfulStep == Base /\ Sessions /\ Truthful /\ [Next]_vars => Truthful'
<1> SUFFICES ASSUME Base, Sessions, Truthful, [Next]_vars PROVE Truthful'
  OBVIOUS
<1> USE DEF Base
<1>1. ASSUME NEW h \in Hosts, WorkerStep(h) PROVE Truthful'
  BY <1>1, TruthfulWorker
<1>2. ASSUME NEW i \in Ids, Create(i) PROVE Truthful'
  <2> DEFINE all == [j \in DOMAIN jobs \cup {i} |-> IF j = i THEN NewJob ELSE jobs[j]]
             gone == Expired(all)
  <2>1. /\ jobs' = Restrict(all, DOMAIN all \ gone) /\ Forget(gone) /\ disk' = jobs'
        /\ i \notin DOMAIN jobs /\ running = None /\ running' = i /\ exec' = Idle
        /\ panel = "up" /\ panel' = panel /\ crashes' = crashes
    BY <1>2 DEF Create, Admitted
  <2>2. DOMAIN jobs' = (DOMAIN jobs \cup {i}) \ gone /\ \A j \in DOMAIN jobs' : jobs'[j] = all[j]
    BY <2>1 DEF Restrict
  <2>3. i \notin gone
    BY DEF Expired, NewJob
  <2>4. /\ jobs'[i] = NewJob /\ \A j \in DOMAIN jobs' : j # i => jobs'[j] = jobs[j]
        /\ \A j \in DOMAIN jobs' : j \in Ids
    BY <2>2, <2>3 DEF Types
  <2> HIDE DEF all, gone
  <2>5. \A j \in DOMAIN jobs' : j # running' \/ running' = running => jobs'[j] = jobs[j]
    BY <2>1, <2>4, NoneAssumption
  <2> QED BY <2>1, <2>2, <2>3, <2>4, <2>5, TruthfulForget
<1>3. ASSUME NEW i \in Ids, Remove(i) PROVE Truthful'
  <2>1. /\ Forget({i}) /\ running # i /\ panel # "down" /\ panel' = panel /\ crashes' = crashes
        /\ running' = running /\ exec' = exec /\ jobs' = Restrict(jobs, DOMAIN jobs \ {i})
        /\ disk' = jobs'
    BY <1>3 DEF Remove, Removable, live
  <2>2. /\ DOMAIN jobs' = DOMAIN jobs \ {i} /\ \A j \in DOMAIN jobs' : jobs'[j] = jobs[j]
        /\ \A j \in DOMAIN jobs' : j \in Ids
    BY <2>1 DEF Restrict, Types
  <2> QED BY <2>1, <2>2, TruthfulForget
<1>4. CASE Restart
  BY <1>4, TruthfulRestart
<1>5. CASE Crash
  <2>1. /\ panel # "down" /\ panel' = "down" /\ running' = None /\ UNCHANGED <<disk, truth>>
        /\ DOMAIN jobs' = {} /\ crashes' = crashes + 1 /\ crashes \in Nat
    BY <1>5, BoundsAssumption DEF Crash, Types
  <2>2. \A i \in DOMAIN disk : i \in Ids
    BY DEF Types
  <2>3. \A i \in DOMAIN disk' : \A h \in Hosts : Saved(i, h)'
    BY <2>1, <2>2, NoneAssumption DEF Truthful, Saved, Pending, Stale
  <2>4. \A i \in Ids : i \notin Known' => \A h \in Hosts : truth'[i][h] = "none"
    BY <2>1 DEF Truthful, Known, Fitting
  <2> QED BY <2>1, <2>3, <2>4 DEF Truthful
<1>6. ASSUME UNCHANGED <<stored, truth, crashes, running, exec>>, panel' = "down" <=> panel = "down"
      PROVE  Truthful'
  BY <1>6, TruthfulKept DEF stored, Stale, Known
<1>7. CASE EndRun
  <2>1. /\ running \in DOMAIN jobs /\ running' = None /\ panel' = panel
        /\ \A h \in Hosts : exec[h].pc \in EndedPcs
        /\ UNCHANGED <<truth, crashes>> /\ disk' \in {disk, jobs'}
    BY <1>7 DEF EndRun, Persisted, Fitting, EndedPcs, history
  <2>2. DOMAIN jobs' = DOMAIN jobs /\ \A i \in DOMAIN jobs : jobs'[i].result = jobs[i].result
    BY <1>7, <2>1 DEF EndRun, Types, Jobs
  <2>3. \A i \in Known : i \in Known'
    BY <2>1, <2>2 DEF Known, Fitting
  <2> QED BY <2>1, <2>2, <2>3, TruthfulKept DEF Stale
<1>8. ASSUME NEW i \in Ids, Age(i) PROVE Truthful'
  <2>1. /\ jobs' = [jobs EXCEPT ![i].old = TRUE] /\ i \in DOMAIN jobs /\ i \in DOMAIN disk
        /\ disk' = [disk EXCEPT ![i].old = TRUE] /\ panel' = panel
        /\ UNCHANGED <<truth, crashes, running, exec>>
    BY <1>8 DEF Age, live, history, Fitting
  <2>2. DOMAIN jobs' = DOMAIN jobs /\ \A j \in DOMAIN jobs : jobs'[j].result = jobs[j].result
    BY <2>1 DEF Types, Jobs
  <2>3. DOMAIN disk' = DOMAIN disk /\ \A j \in DOMAIN disk :
           disk'[j].result = disk[j].result /\ (Stale(j) => Stale(j)')
    BY <2>1 DEF Types, Jobs, Stale
  <2>4. \A j \in Known : j \in Known'
    BY <2>1, <2>2, <2>3 DEF Known
  <2> QED BY <2>1, <2>2, <2>3, <2>4, TruthfulKept
<1>9. ASSUME \/ Timeout \/ CloseBegins \/ CloseReturns \/ CleanupTick
             \/ \E h \in Hosts : Revoke(h)
             \/ \E i \in Ids : Stop(i)
      PROVE  Truthful'
  BY <1>6, <1>9 DEF Timeout, CloseBegins, CloseReturns, CleanupTick, Revoke, Stop, live, history
<1>10. ASSUME NEW i \in Ids, RoundStep(i) PROVE Truthful'
  <2>1. CASE EndRound(i)
    <3>1. /\ UNCHANGED <<jobs, truth, crashes, running, exec, panel>> /\ disk' \in {disk, jobs}
          /\ panel # "down"
      BY <2>1 DEF EndRound, Persisted, live, history, Fitting
    <3>2. \A j \in Known : j \in Known'
      BY <3>1 DEF Known
    <3> QED BY <3>1, <3>2, TruthfulKept DEF Stale
  <2>2. ASSUME NEW h \in Hosts, RoundGivesUp(i, h) \/ RoundCloseError(i, h) PROVE Truthful'
    BY <1>6, <2>2 DEF RoundGivesUp, RoundCloseError, live, history
  <2>3. ASSUME NEW h \in Hosts, RoundCloseOk(i, h) PROVE Truthful'
    <3>1. UNCHANGED <<disk, truth, crashes, running, exec, panel>>
      BY <2>3 DEF RoundCloseOk, live
    <3>2. CASE UNCHANGED jobs
      BY <1>6, <3>1, <3>2 DEF stored
    <3>3. CASE /\ i \in DOMAIN jobs /\ jobs[i].result[h] = "stop_failed"
               /\ jobs' = [jobs EXCEPT ![i] = [state |-> @.state, old |-> FALSE,
                                               result |-> [@.result EXCEPT ![h] = "stopped"]]]
      <4>1. jobs[i].result \in [Hosts -> Results]
        BY <3>3 DEF Types, Jobs
      <4>2. /\ DOMAIN jobs' = DOMAIN jobs /\ jobs'[i].result[h] = "stopped"
            /\ \A j \in DOMAIN jobs, g \in Hosts :
                  j # i \/ g # h => jobs'[j].result[g] = jobs[j].result[g]
        BY <3>3, <4>1
      <4>3. \A j \in Ids, g \in Hosts : Pending(j, g)' <=> Pending(j, g)
        BY <3>1 DEF Pending
      <4>4. ~Pending(i, h) /\ truth[i][h] = "none"
        <5>1. Shown(i, h) /\ truth[i][h] \in Confirmed \cup {"none"}
          BY <3>3 DEF Truthful, Types
        <5>2. "stop_failed" \in Final /\ "stop_failed" \notin Confirmed
          BY DEF Confirmed, Final, Outcomes
        <5> QED BY <3>3, <5>1, <5>2 DEF Shown, Confirmed
      <4>5. \A j \in DOMAIN jobs' : \A g \in Hosts : Shown(j, g)'
        <5> TAKE j \in DOMAIN jobs'
        <5> TAKE g \in Hosts
        <5>1. CASE j = i /\ g = h
          BY <3>1, <4>2, <4>3, <4>4, <5>1 DEF Shown, Confirmed
        <5>2. CASE j # i \/ g # h
          <6>1. Shown(j, g) /\ j \in Ids
            BY <4>2 DEF Truthful, Types
          <6> QED BY <3>1, <4>2, <4>3, <5>2, <6>1 DEF Shown
        <5> QED BY <5>1, <5>2
      <4>6. \A j \in DOMAIN disk' : \A g \in Hosts : Saved(j, g)'
        BY <3>1, <4>3 DEF Truthful, Saved, Stale, Types
      <4> QED BY <3>1, <4>2, <4>5, <4>6 DEF Truthful, Told, Known
    <3> QED BY <2>3, <3>2, <3>3 DEF RoundCloseOk, AwaitsClose
  <2> QED BY <1>10, <2>1, <2>2, <2>3 DEF RoundStep
<1>11. CASE UNCHANGED vars
  BY <1>6, <1>11 DEF vars, live, history
<1> QED BY <1>1, <1>2, <1>3, <1>4, <1>5, <1>7, <1>8, <1>9, <1>10, <1>11 DEF Next

\* Success or an exit status is shown only if the output said so, and what the
\* output said is what is shown, through failing writes, stops and crashes.
THEOREM ReportsAreTrue == Spec => []ResultIsTrue
<1> DEFINE Inv == Base /\ Sessions /\ Truthful
<1>1. Init => Inv
  BY InitBase, InitSessions DEF Init, Truthful, NoSessions
<1>2. Inv /\ [Next]_vars => Inv'
  BY BaseStep, SessionsStep, TruthfulStep
<1>3. Inv => ResultIsTrue
  BY TruthfulReports
<1> QED BY <1>1, <1>2, <1>3, PTL DEF Spec

FinalStays ==
    \A i \in DOMAIN jobs \cap DOMAIN jobs' : \A h \in Hosts :
        LET r == jobs[i].result[h]
        IN  r \in Final =>
                jobs'[i].result[h] \in {r} \cup (IF r = "stop_failed" THEN {"stopped"} ELSE {})

LEMMA FinalStep == Base /\ Truthful /\ [Next]_vars => FinalStays
<1> SUFFICES ASSUME Base, Truthful, [Next]_vars, NEW i \in DOMAIN jobs, i \in DOMAIN jobs',
                    NEW h \in Hosts, jobs[i].result[h] \in Final
             PROVE  \/ jobs'[i].result[h] = jobs[i].result[h]
                    \/ jobs[i].result[h] = "stop_failed" /\ jobs'[i].result[h] = "stopped"
  BY DEF FinalStays
<1> USE DEF Base
<1>0. ~Pending(i, h) /\ i \in Ids /\ jobs[i] \in Jobs
  BY DEF Truthful, Shown, Types
<1>1. ASSUME NEW g \in Hosts, WorkerStep(g) PROVE jobs'[i].result[h] = jobs[i].result[h]
  <2>1. WorkerFrame(g)
    BY <1>1, WorkerStepFrame
  <2>2. CASE UNCHANGED stored
    BY <2>2 DEF stored
  <2>3. CASE i # running \/ g # h
    <3>1. jobs[i].result \in [Hosts -> Results]
      BY <1>0 DEF Jobs
    <3> QED BY <2>1, <2>2, <2>3, <3>1 DEF WorkerFrame, OneResult
  <2>4. CASE i = running /\ g = h
    <3>1. exec[h].pc \in EndedPcs
      BY <1>0, <2>4 DEF Pending
    <3>2. Remember(h)
      BY <1>1, <2>4, <3>1 DEF WorkerStep, Take, OpenOk, OpenLimit, OpenError, Backoff, Send, ReadExit,
         ReadFails, CloseOk, CloseError, CloseAgain, CloseGivesUp, Finish, At, EndedPcs
    <3> QED BY <3>2 DEF Remember, stored
  <2> QED BY <2>3, <2>4
<1>2. ASSUME NEW j \in Ids, Create(j) \/ Remove(j) PROVE jobs'[i].result[h] = jobs[i].result[h]
  BY <1>2 DEF Create, Remove, Restrict
<1>3. ASSUME NEW j \in Ids, Age(j) PROVE jobs'[i].result[h] = jobs[i].result[h]
  BY <1>0, <1>3 DEF Age, Jobs
<1>4. CASE EndRun
  BY <1>0, <1>4 DEF EndRun, Jobs
<1>5. CASE Crash \/ Restart
  BY <1>5 DEF Crash, Restart, Fitting
<1>6. ASSUME UNCHANGED jobs PROVE jobs'[i].result[h] = jobs[i].result[h]
  BY <1>6
<1>7. ASSUME \/ Timeout \/ CloseBegins \/ CloseReturns \/ CleanupTick \/ UNCHANGED vars
             \/ \E g \in Hosts : Revoke(g)
             \/ \E j \in Ids : Stop(j)
             \/ \E j \in Ids : EndRound(j)
             \/ \E j \in Ids : \E g \in Hosts : RoundCloseError(j, g) \/ RoundGivesUp(j, g)
      PROVE  UNCHANGED jobs
  BY <1>7 DEF Timeout, CloseBegins, CloseReturns, CleanupTick, vars, Revoke, Stop, EndRound,
              RoundCloseError, RoundGivesUp, stored
<1>8. ASSUME NEW j \in Ids, NEW g \in Hosts, RoundCloseOk(j, g)
      PROVE  \/ jobs'[i].result[h] = jobs[i].result[h]
             \/ jobs[i].result[h] = "stop_failed" /\ jobs'[i].result[h] = "stopped"
  <2>1. jobs[i].result \in [Hosts -> Results]
    BY <1>0 DEF Jobs
  <2>2. CASE UNCHANGED jobs
    BY <2>2
  <2>3. CASE /\ jobs[j].result[g] = "stop_failed" /\ j \in DOMAIN jobs
             /\ jobs' = [jobs EXCEPT ![j] = [state |-> @.state, old |-> FALSE,
                                             result |-> [@.result EXCEPT ![g] = "stopped"]]]
    BY <2>1, <2>3
  <2> QED BY <1>8, <2>2, <2>3 DEF RoundCloseOk, AwaitsClose
<1> QED BY <1>1, <1>2, <1>3, <1>4, <1>5, <1>6, <1>7, <1>8 DEF Next, RoundStep

\* A result that has been reported stays while its record and the Panel live.
THEOREM FinalResultsStay == Spec => FinalIsFinal
<1> DEFINE Inv == Base /\ Sessions /\ Truthful
<1>1. Init => Inv
  BY InitBase, InitSessions DEF Init, Truthful, NoSessions
<1>2. Inv /\ [Next]_vars => Inv'
  BY BaseStep, SessionsStep, TruthfulStep
<1>3. Inv /\ [Next]_vars => [FinalStays]_vars
  BY FinalStep
<1>4. Spec => [][FinalStays]_vars
  BY <1>1, <1>2, <1>3, PTL DEF Spec
<1> QED BY <1>4 DEF FinalIsFinal, FinalStays
=============================================================================
