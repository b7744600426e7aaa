---------------------------- MODULE PanelRestore ----------------------------
(***************************************************************************)
(* The restore of a Panel's identity and settings from a backup, with the  *)
(* clients and the credentials of Credentials around it                    *)
(* (panel/backup_restore.go, panel/backup_handlers.go, store/backup.go,    *)
(* cmd/paneld/main.go).                                                    *)
(*                                                                         *)
(* A worker of the serving Panel marks the record of the backup and writes *)
(* the journal; the Panel stops serving, waits for its requests, switches  *)
(* files, key file and identity, and serves again.  Each step can fail,    *)
(* and the process may stop at any of them; the next one goes on from the  *)
(* phase of the journal.                                                   *)
(*                                                                         *)
(* The settings files are one value, tree, as are the delegated accesses   *)
(* (MCP, OAuth, managed hosts).  One restore is followed.                  *)
(***************************************************************************)
EXTENDS Credentials

CONSTANT Other  \* names what the account of another Panel has

ASSUME OtherAssumption == Other \notin Requests \cup {Old, None}

VARIABLES
    stage,    \* where the process is; "start": it does not run
    record,   \* the status of the backup record, on disk
    journal,  \* panel-restore.json: its phase, and what was before
    tree,     \* the settings files: "own", "mixed" or "backup"
    grants,   \* somebody has delegated access
    backup    \* the backup at hand: the account's second factor and its key

files == <<record, journal, tree, grants, backup>>
all == <<vars, stage, files>>

NoJournal == [phase |-> "none", previous |-> None]
Pending   == [phase |-> "pending", previous |-> None]

RestoreInit ==
    /\ Init
    /\ stage = "serve" /\ record = "none" /\ journal = NoJournal
    /\ tree = "own" /\ grants = TRUE /\ backup = None

(***************************************************************************)
(* Outcomes of a step: it succeeds and the next stage is s, or something   *)
(* in it fails.  AtomicFile may fail after it has put the file in place.   *)
(***************************************************************************)
Done(s)   == stage' = s /\ UNCHANGED faults
Breaks(s) == faults < MaxFaults /\ faults' = faults + 1 /\ stage' = s

WritesJournal(j, ok, bad) ==
    /\ \/ journal' = j /\ (Done(ok) \/ Breaks(bad))
       \/ Breaks(bad) /\ UNCHANGED journal
    /\ UNCHANGED <<record, tree, grants, backup>>
RemovesJournal(ok, bad) ==
    /\ \/ journal' = NoJournal /\ Done(ok)
       \/ Breaks(bad) /\ UNCHANGED journal
    /\ UNCHANGED <<record, tree, grants, backup>>
WritesRecord(status, ok, bad) ==
    /\ \/ record' = status /\ (Done(ok) \/ Breaks(bad))
       \/ Breaks(bad) /\ UNCHANGED record
    /\ UNCHANGED <<journal, tree, grants, backup>>

Memory == <<up, service, enrollment, req>>
Rested == UNCHANGED <<Memory, store, keyFile, changes, spent, crashes>>

(***************************************************************************)
(* The serving Panel.                                                      *)
(***************************************************************************)
\* ExportIdentity leaves out the sessions, keys and recovery codes.
Snapshot == [secret |-> store.secret, sealed |-> store.sealed,
             step |-> store.step, key |-> keyFile]

\* Backups of another Panel; decodePanelBackup checks that the key fits.
Foreign == {[secret |-> None, sealed |-> None, step |-> 0, key |-> None],
            [secret |-> Other, sealed |-> Other, step |-> 0, key |-> Other]}

Export ==
    /\ stage = "serve" /\ record = "none" /\ backup = None
    /\ backup' = Snapshot
    /\ UNCHANGED <<vars, stage, record, journal, tree, grants>>

\* The worker of the restore; its failure is recorded by Manager.Run.
Mark ==
    /\ stage = "serve" /\ record = "none"
    /\ \E b \in Foreign \cup ({backup} \ {None}) : backup' = b
    /\ \/ record' = "restarting" /\ Done("marked")
       \/ record' = "failed" /\ Breaks("serve")
    /\ UNCHANGED <<journal, tree, grants>> /\ Rested

StageJournal ==
    /\ stage = "marked"
    /\ \/ journal' = Pending /\ UNCHANGED record /\ Done("staged")
       \/ /\ journal' \in {journal, Pending}
          /\ record' = "failed" /\ Breaks("serve")
    /\ UNCHANGED <<tree, grants, backup>> /\ Rested

\* Shutdown takes no new request and waits for the others, for some time.
Shutdown ==
    /\ stage = "staged" /\ stage' = "drain" /\ up' = FALSE
    /\ UNCHANGED <<service, enrollment, req, store, keyFile, changes, spent,
                   faults, crashes, files>>

AllOver == \A r \in Requests : ~ InProgress(r)

Drain ==
    /\ stage = "drain"
    /\ stage' = IF AllOver THEN "check" ELSE "start"
    /\ Down
    /\ UNCHANGED <<store, keyFile, changes, spent, faults, crashes, files>>

(***************************************************************************)
(* ApplyPanelRestore.                                                      *)
(***************************************************************************)
\* Mutant: a failed preflight is tried again at the next start.
WithdrawsNot == "start"

\* A failed preflight withdraws the intent.
Withdraws == "cancel"

Preflight ==
    /\ stage = "check"
    /\ \/ Done(IF record = "restarting" THEN "reset" ELSE Withdraws)
       \/ Breaks(Withdraws)
    /\ UNCHANGED files /\ Rested

ResetAccess ==
    /\ stage = "reset"
    /\ \/ grants' = FALSE /\ (Done("save") \/ Breaks(Withdraws))
       \/ Breaks(Withdraws) /\ UNCHANGED grants
    /\ UNCHANGED <<record, journal, tree, backup>> /\ Rested

CancelRecord ==
    stage = "cancel" /\ WritesRecord("failed", "cancelled", "start") /\ Rested
CancelJournal ==
    stage = "cancelled" /\ RemovesJournal("boot", "start") /\ Rested

SaveOld ==
    /\ stage = "save"
    /\ WritesJournal([phase |-> "applying",
                      previous |-> [tree |-> tree, store |-> store,
                                    keyFile |-> keyFile]],
                     "files", "start")
    /\ Rested

MoveFiles ==
    /\ stage \in {"files", "mixed"}
    /\ \/ stage = "files" /\ tree' = "mixed" /\ Done("mixed")
       \/ stage = "mixed" /\ tree' = "backup" /\ Done("key")
       \/ stage = "mixed" /\ UNCHANGED tree /\ Breaks("undo")
    /\ UNCHANGED <<record, journal, grants, backup>> /\ Rested

MoveKey ==
    /\ stage = "key"
    /\ \/ keyFile' = backup.key /\ (Done("identity") \/ Breaks("undo"))
       \/ UNCHANGED keyFile /\ Breaks("undo")
    /\ UNCHANGED <<files, Memory, store, changes, spent, crashes>>

\* RestoreIdentity: a fresh epoch, no sessions and no keys; the passkey
\* origin of this Panel is kept.
Restored(st, b) ==
    [st EXCEPT !.epoch = changes + 1, !.version = 1, !.at = changes + 1,
               !.line = @ + 1, !.secret = b.secret, !.sealed = b.sealed,
               !.step = b.step, !.codes = {}, !.keys = {}, !.sessions = {}]

MoveIdentity ==
    /\ stage = "identity"
    /\ \/ /\ store' = Restored(store, backup) /\ changes' = changes + 1
          /\ Done("applied") \/ Breaks("undo")
       \/ UNCHANGED <<store, changes>> /\ Breaks("undo")
    /\ UNCHANGED <<files, Memory, keyFile, spent, crashes>>

Applied ==
    /\ stage = "applied"
    /\ WritesJournal([journal EXCEPT !.phase = "applied"], "boot", "undo")
    /\ Rested

(***************************************************************************)
(* recoverPanelRestore of an interrupted switch.                           *)
(***************************************************************************)
UndoFiles ==
    /\ stage = "undo"
    /\ \/ tree' = journal.previous.tree /\ (Done("undoStore") \/ Breaks("start"))
       \/ tree' = "mixed" /\ Breaks("start")
    /\ UNCHANGED <<record, journal, grants, backup>> /\ Rested

UndoStore ==
    /\ stage = "undoStore"
    /\ \/ /\ store' = journal.previous.store
          /\ Done("undoKey") \/ Breaks("start")
       \/ UNCHANGED store /\ Breaks("start")
    /\ UNCHANGED <<files, Memory, keyFile, changes, spent, crashes>>

UndoKey ==
    /\ stage = "undoKey"
    /\ \/ /\ keyFile' = journal.previous.keyFile
          /\ Done("undoRecord") \/ Breaks("start")
       \/ UNCHANGED keyFile /\ Breaks("start")
    /\ UNCHANGED <<files, Memory, store, changes, spent, crashes>>

UndoRecord ==
    stage = "undoRecord" /\ WritesRecord("failed", "undone", "start") /\ Rested
UndoJournal ==
    stage = "undone" /\ RemovesJournal("boot", "start") /\ Rested

(***************************************************************************)
(* The start of the process: RecoverPanelRestore, runPanelInstance and     *)
(* FinalizePanelRestore.                                                   *)
(***************************************************************************)
\* Mutant: an interrupted switch is done again instead of undone.
ResumesAgain ==
    CASE journal.phase = "none"                     -> "boot"
      [] journal.phase \in {"pending", "applying"}  -> "check"
      [] journal.phase = "applied"                  -> "undo"
      [] journal.phase = "committed"                -> "finish"

Resumes ==
    CASE journal.phase = "none"                     -> "boot"
      [] journal.phase = "pending"                  -> "check"
      [] journal.phase \in {"applying", "applied"}  -> "undo"
      [] journal.phase = "committed"                -> "finish"
Start ==
    /\ stage = "start" /\ stage' = Resumes
    /\ UNCHANGED <<vars, files>>

Boot ==
    /\ stage = "boot" /\ (Done("listening") \/ Breaks("start"))
    /\ UNCHANGED files /\ Rested

Commit ==
    /\ stage = "listening" /\ journal.phase = "applied"
    /\ WritesJournal([journal EXCEPT !.phase = "committed"],
                     "committed", "start")
    /\ Rested

\* finishCommittedPanelRestore, at a start or after the commit.
FinishRecord ==
    /\ \/ stage = "finish" /\ WritesRecord("completed", "finished", "start")
       \/ stage = "committed"
          /\ WritesRecord("completed", "completed", "start")
    /\ Rested
FinishJournal ==
    /\ \/ stage = "finished" /\ RemovesJournal("boot", "start")
       \/ stage = "completed" /\ RemovesJournal("listening", "start")
    /\ Rested

Serve ==
    /\ stage = "listening" /\ journal.phase = "none"
    /\ stage' = "serve" /\ Serves
    /\ UNCHANGED <<store, keyFile, req, changes, spent, faults, crashes,
                   files>>

Stop ==
    /\ stage # "start" /\ crashes < MaxCrashes /\ crashes' = crashes + 1
    /\ stage' = "start" /\ Down
    /\ UNCHANGED <<store, keyFile, changes, spent, faults, files>>

(***************************************************************************)
(* The specification.                                                      *)
(***************************************************************************)
\* While the worker runs (backups.Busy) settings and passkeys answer
\* backup_busy; a password login and the passkey origin do not ask.
Welcome(r) ==
    stage = "serve" \/ req'[r].kind \in {"login"} \cup OfOrigin

Client ==
    /\ \E r \in Requests :
         \/ Handles(r)
         \/ Asks(r) /\ Welcome(r)
         \/ stage = "start" /\ Recover(r)
    /\ UNCHANGED <<stage, files>>

Restoring ==
    \/ StageJournal \/ Shutdown \/ Drain
    \/ Preflight \/ ResetAccess \/ CancelRecord \/ CancelJournal
    \/ SaveOld \/ MoveFiles \/ MoveKey \/ MoveIdentity \/ Applied
    \/ UndoFiles \/ UndoStore \/ UndoKey \/ UndoRecord \/ UndoJournal
    \/ Start \/ Boot \/ Commit \/ FinishRecord \/ FinishJournal \/ Serve

RestoreNext == Client \/ Export \/ Mark \/ Restoring \/ Stop

RestoreSpec == RestoreInit /\ [][RestoreNext]_all /\ WF_all(Restoring)

-----------------------------------------------------------------------------
TypeOK ==
    /\ stage \in {"serve", "marked", "staged", "drain", "start", "check",
                  "reset", "cancel", "cancelled", "save", "files", "mixed",
                  "key", "identity", "applied", "undo", "undoStore",
                  "undoKey", "undoRecord", "undone", "boot", "listening",
                  "committed", "completed", "finish", "finished"}
    /\ record \in {"none", "restarting", "failed", "completed"}
    /\ tree \in {"own", "mixed", "backup"} /\ grants \in BOOLEAN
    /\ up = (stage \in {"serve", "marked", "staged"})
    /\ store.epoch \in Nat /\ store.version \in 1..MaxVersion
    /\ store.at \in 0..changes
    /\ \A s \in store.sessions : s.id \in Requests \cup {Old}

(***************************************************************************)
(* Every session was issued for the credentials that are in force: none    *)
(* survives a change of them, or is issued by a login or a passkey ceremony*)
(* that saw others, and none comes back by a restore or its rollback.      *)
(***************************************************************************)
SessionsCurrent == \A s \in store.sessions : s.at = store.at

(***************************************************************************)
(* A code of an authenticator or a recovery code is accepted once, as long *)
(* as no restore puts an older account in place (line).                    *)
(***************************************************************************)
FactorOnce ==
    \A a, b \in spent :
        a.factor = b.factor /\ a.line = b.line => a.by = b.by

(***************************************************************************)
(* What the account is protected with can be used while the Panel serves:  *)
(* the passkeys belong to the origin it verifies for, and the key file     *)
(* opens the secret, also after restores and starts.                       *)
(***************************************************************************)
FactorsUsable ==
    up => /\ \A k \in store.keys : k.rp = service.origin
          /\ store.secret # None => keyFile = store.sealed

(***************************************************************************)
(* A Panel that serves has all of the backup or nothing of it, as its      *)
(* record says, and delegated access did not survive a change of identity. *)
(***************************************************************************)
SwitchIsWhole ==
    up => /\ record = "completed" =>
                tree = "backup" /\ store.line = 1 /\ ~ grants
          /\ record # "completed" => tree = "own" /\ store.line = 0

(***************************************************************************)
(* A secret, a passkey or a session comes only from a ceremony that began  *)
(* under the credentials that are in force when it ends.                   *)
(***************************************************************************)
StaleNeverCommits ==
    [][up /\ up' =>
        /\ store'.secret \in Requests \ {store.secret} =>
              enrollment.at = store.at
        /\ \A x \in (store'.keys \ store.keys)
                     \cup (store'.sessions \ store.sessions) :
              req[x.id].seen.at = store.at]_all

(***************************************************************************)
(* A Panel that went down, for a restore or without one, serves again, and *)
(* leaves no journal behind.                                               *)
(***************************************************************************)
PanelReturns == ~ up ~> up /\ journal.phase = "none"
=============================================================================
