----------------------------- MODULE HostRestore -----------------------------
(***************************************************************************)
(* The restore of host data and containers from a backup (internal/        *)
(* hostbackup): Restore replaces data directories and containers one after *)
(* another, keeping the old ones aside and every intention in a journal on *)
(* disk; rollback undoes what the journal says; Recover continues a        *)
(* restore that the Agent did not finish, in one direction only.           *)
(*                                                                         *)
(* The host is the place of each data tree, the old and the new container  *)
(* of each name, and the volumes and networks created.  The journal is     *)
(* twice in the model: mem, which the running code updates, and disk.      *)
(* Every call of Docker, file operation and write of the journal is a step *)
(* that may fail, a call with or without having had its effect; the Agent  *)
(* may stop between any two steps.  The order of the entries of a loop is  *)
(* left open.                                                              *)
(***************************************************************************)
EXTENDS Naturals

CONSTANTS
    Roots,        \* data trees to restore
    HadPrevious,  \* the roots that exist on the host before the restore
    Containers,   \* names of the containers to restore
    HasOld,       \* the names a container of the host has
    OldRunning,   \* those whose container runs
    NewRunning,   \* the containers that ran when the backup was made
    Volumes,      \* volumes the host does not have
    Networks,     \* networks the host does not have
    MaxFaults,    \* bound: steps that fail
    MaxCrashes,   \* bound: stops of the Agent
    None

ASSUME SetAssumption ==
    /\ HadPrevious \subseteq Roots
    /\ OldRunning \subseteq HasOld /\ HasOld \subseteq Containers
    /\ NewRunning \subseteq Containers
    /\ Volumes \cap Networks = {}
ASSUME NoneAssumption == None \notin Roots \cup Containers
ASSUME BoundAssumption == MaxFaults \in Nat /\ MaxCrashes \in Nat

VARIABLES
    slot,        \* per root: what is in target, previous, next and discard
    oldc,        \* per name: the old container
    newc,        \* per name: "none", "created", "running"
    made,        \* the volumes and networks created by this restore
    mem,         \* the journal in memory
    disk,        \* restore-journal.json
    pc,          \* the step, the entry at hand, and those left of the loop
    bad,         \* rollback: an error was met
    recovering,  \* the code runs under Recover
    doubt,       \* history: the journal on disk says committed by a write that
                 \* failed after its rename
    faults, crashes

host == <<slot, oldc, newc, made>>
vars == <<host, mem, disk, doubt, pc, bad, recovering, faults, crashes>>

Entry  == [phase : {"absent", "preparing", "applying", "needs_attention",
                    "cleanup_pending", "completed", "rolled_back"},
           planned : BOOLEAN, space : SUBSET Roots, next : SUBSET Roots,
           applied : SUBSET Roots, ids : SUBSET Containers,
           res : SUBSET (Volumes \cup Networks)]
Absent == [phase |-> "absent", planned |-> FALSE, space |-> {}, next |-> {},
           applied |-> {}, ids |-> {}, res |-> {}]

At(at, left) == [at |-> at, item |-> None, left |-> left]
On(at, item) == [at |-> at, item |-> item, left |-> pc.left \ {item}]
Idle         == At("idle", {})

Planned(S) == IF mem.planned THEN S ELSE {}

Init ==
    /\ slot = [r \in Roots |->
         [target |-> IF r \in HadPrevious THEN "old" ELSE "none",
          previous |-> "none", next |-> "none", discard |-> "none"]]
    /\ oldc = [c \in Containers |->
         [there |-> c \in HasOld, name |-> "own", run |-> c \in OldRunning]]
    /\ newc = [c \in Containers |-> "none"]
    /\ made = {}
    /\ mem = Absent /\ disk = Absent
    /\ pc = Idle /\ bad = FALSE /\ recovering = FALSE /\ doubt = FALSE
    /\ faults = 0 /\ crashes = 0

(***************************************************************************)
(* How a step can go.  A call that is "lost" had its effect and still      *)
(* failed: its answer was cut off, or the sync after a rename failed.      *)
(***************************************************************************)
Outcomes == {"ok"} \cup IF faults < MaxFaults THEN {"refused", "lost"} ELSE {}
Spend(o) == faults' = IF o = "ok" THEN faults ELSE faults + 1

Committed == disk.phase \in {"cleanup_pending", "completed"}

\* AtomicFile renames the new journal into place and then syncs the directory,
\* which may fail when the journal is already replaced.
Write(m, o) ==
    /\ disk' = IF o = "refused" THEN disk ELSE m
    /\ doubt' = (/\ doubt \/ (o = "lost" /\ ~Committed)
                 /\ o = "refused" \/ m.phase \in {"cleanup_pending", "completed"})

\* An error of Restore before the commit starts the rollback.
Undo == At("resolve", {})
Forward(o, then) == Spend(o) /\ pc' = IF o = "ok" THEN then ELSE Undo

\* A journal update of Restore.
Record(m, then) ==
    \E o \in Outcomes : mem' = m /\ Write(m, o) /\ Forward(o, then)

\* An error of rollback is remembered, and the loop goes on.
Onward(o, then) == /\ Spend(o) /\ pc' = then
                   /\ bad' = (bad \/ o # "ok")

Quiet == UNCHANGED <<bad, recovering, crashes>>

(***************************************************************************)
(* Restore.                                                                *)
(***************************************************************************)
\* The checks of the request and of the archive changed nothing so far; a
\* restore with a journal is not started again.
Restore ==
    /\ pc = Idle /\ disk.phase = "absent"
    /\ \E o \in Outcomes :
         LET m == [Absent EXCEPT !.phase = "preparing"] IN
         /\ mem' = m /\ Write(m, o) /\ Spend(o)
         /\ pc' = IF o = "ok" THEN At("volume", Volumes) ELSE Idle
    /\ UNCHANGED host /\ Quiet

\* prepareVolumes, and the networks later: the intention, then the creation.
Intend ==
    /\ pc.at \in {"volume", "network"}
    /\ \E x \in pc.left :
         Record([mem EXCEPT !.res = @ \cup {x}],
                On(IF pc.at = "volume" THEN "makeVolume" ELSE "makeNetwork", x))
    /\ UNCHANGED host /\ Quiet

Make ==
    /\ pc.at \in {"makeVolume", "makeNetwork"}
    /\ \E o \in Outcomes :
         /\ made' = IF o = "refused" THEN made ELSE made \cup {pc.item}
         /\ Forward(o, At(IF pc.at = "makeVolume" THEN "volume" ELSE "network",
                          pc.left))
    /\ UNCHANGED <<slot, oldc, newc, mem, disk, doubt>> /\ Quiet

\* The destination is inspected; its roots and containers enter the journal.
Plan ==
    /\ pc.at = "plan"
    /\ Record([mem EXCEPT !.planned = TRUE, !.phase = "applying"],
              At("space", Roots))
    /\ UNCHANGED host /\ Quiet

CreateWorkspace ==
    /\ pc.at = "space"
    /\ \E r \in pc.left :
         Record([mem EXCEPT !.space = @ \cup {r}], At("space", pc.left \ {r}))
    /\ UNCHANGED host /\ Quiet

\* Old containers are stopped, then renamed out of the way.
StopOld ==
    /\ pc.at = "retire"
    /\ \E c \in pc.left, o \in Outcomes :
         /\ oldc' = IF o = "refused" THEN oldc ELSE [oldc EXCEPT ![c].run = FALSE]
         /\ Forward(o, On("rename", c))
    /\ UNCHANGED <<slot, newc, made, mem, disk, doubt>> /\ Quiet

RenameOld ==
    /\ pc.at = "rename"
    /\ \E o \in Outcomes :
         /\ oldc' = IF o = "refused" THEN oldc
                    ELSE [oldc EXCEPT ![pc.item].name = "previous"]
         /\ Forward(o, At("retire", pc.left))
    /\ UNCHANGED <<slot, newc, made, mem, disk, doubt>> /\ Quiet

\* copyTreeIn: the directory, its identity in the journal, the content.
Stage ==
    /\ pc.at = "root"
    /\ \E r \in pc.left, o \in Outcomes :
         /\ slot' = IF o = "refused" THEN slot ELSE [slot EXCEPT ![r].next = "new"]
         /\ Forward(o, On("identify", r))
    /\ UNCHANGED <<oldc, newc, made, mem, disk, doubt>> /\ Quiet

Identify ==
    /\ pc.at = "identify"
    /\ Record([mem EXCEPT !.next = @ \cup {pc.item}],
              [pc EXCEPT !.at = IF pc.item \in HadPrevious THEN "retain"
                                ELSE "mark"])
    /\ UNCHANGED host /\ Quiet

\* capture of the old tree.
Retain ==
    /\ pc.at = "retain"
    /\ \E o \in Outcomes :
         /\ slot' = IF o = "refused" THEN slot
                    ELSE [slot EXCEPT ![pc.item].previous = "old",
                                      ![pc.item].target = "none"]
         /\ Forward(o, [pc EXCEPT !.at = "mark"])
    /\ UNCHANGED <<oldc, newc, made, mem, disk, doubt>> /\ Quiet

Mark ==
    /\ pc.at = "mark"
    /\ Record([mem EXCEPT !.applied = @ \cup {pc.item}],
              [pc EXCEPT !.at = "publish"])
    /\ UNCHANGED host /\ Quiet

Publish ==
    /\ pc.at = "publish"
    /\ \E o \in Outcomes :
         /\ slot' = IF o = "refused" THEN slot
                    ELSE [slot EXCEPT ![pc.item].target = "new",
                                      ![pc.item].next = "none"]
         /\ Forward(o, At("root", pc.left))
    /\ UNCHANGED <<oldc, newc, made, mem, disk, doubt>> /\ Quiet

\* The identity Docker answers is recorded; the answer may be lost.
CreateNew ==
    /\ pc.at = "create"
    /\ \E c \in pc.left, o \in Outcomes :
         /\ newc' = IF o = "refused" THEN newc ELSE [newc EXCEPT ![c] = "created"]
         /\ Forward(o, On("identity", c))
    /\ UNCHANGED <<slot, oldc, made, mem, disk, doubt>> /\ Quiet

RecordNew ==
    /\ pc.at = "identity"
    /\ Record([mem EXCEPT !.ids = @ \cup {pc.item}], At("create", pc.left))
    /\ UNCHANGED host /\ Quiet

StartNew ==
    /\ pc.at = "start"
    /\ \E c \in pc.left, o \in Outcomes :
         /\ newc' = IF o = "refused" THEN newc ELSE [newc EXCEPT ![c] = "running"]
         /\ Forward(o, At("start", pc.left \ {c}))
    /\ UNCHANGED <<slot, oldc, made, mem, disk, doubt>> /\ Quiet

\* healthy: a restored service does not come up.
Unhealthy ==
    /\ pc.at = "commit"
    /\ pc' = Undo
    /\ UNCHANGED <<host, mem, disk, doubt, faults>> /\ Quiet

Clean == At("delete", IF mem.planned THEN HasOld ELSE {})

\* Wrong: the old copies are removed before the journal says so.
CommitUnwritten ==
    /\ pc.at = "commit"
    /\ mem' = [mem EXCEPT !.phase = "cleanup_pending"]
    /\ pc' = Clean
    /\ UNCHANGED <<host, disk, doubt, faults>> /\ Quiet

\* The commit point.
Commit ==
    /\ pc.at = "commit"
    /\ Record([mem EXCEPT !.phase = "cleanup_pending"], Clean)
    /\ UNCHANGED host /\ Quiet

(***************************************************************************)
(* cleanupRecovery, after the commit: an error leaves the rest to a later  *)
(* Recover.                                                                *)
(***************************************************************************)
Cleaning(o, then) == Spend(o) /\ pc' = IF o = "ok" THEN then ELSE At("keep", {})

\* Docker does not delete a container that runs.
DeleteOld ==
    /\ pc.at = "delete"
    /\ \E c \in pc.left :
         IF oldc[c].there /\ oldc[c].run
         THEN pc' = At("keep", {}) /\ UNCHANGED <<oldc, faults>>
         ELSE \E o \in Outcomes :
                /\ oldc' = IF o = "refused" THEN oldc
                           ELSE [oldc EXCEPT ![c].there = FALSE]
                /\ Cleaning(o, At("delete", pc.left \ {c}))
    /\ UNCHANGED <<slot, newc, made, mem, disk, doubt>> /\ Quiet

RemovePrevious ==
    /\ pc.at = "purge"
    /\ \E r \in pc.left, o \in Outcomes \ {"lost"} :
         /\ slot' = IF o = "refused" THEN slot
                    ELSE [slot EXCEPT ![r].previous = "none", ![r].next = "none"]
         /\ Cleaning(o, At("purge", pc.left \ {r}))
    /\ UNCHANGED <<oldc, newc, made, mem, disk, doubt>> /\ Quiet

\* A failed last write of Restore writes cleanup_pending once more; Recover
\* just returns.
Complete ==
    /\ pc.at = "complete"
    /\ \E o \in Outcomes :
         LET m == [mem EXCEPT !.phase = "completed"] IN
         /\ mem' = m /\ Write(m, o) /\ Spend(o)
         /\ pc' = IF o = "ok" \/ recovering THEN Idle ELSE At("keep", {})
    /\ UNCHANGED host /\ Quiet

Keep ==
    /\ pc.at = "keep"
    /\ \E o \in Outcomes :
         LET m == [mem EXCEPT !.phase = "cleanup_pending"] IN
         mem' = m /\ Write(m, o) /\ Spend(o)
    /\ pc' = Idle
    /\ UNCHANGED host /\ Quiet

(***************************************************************************)
(* rollback, from the journal in memory.                                   *)
(***************************************************************************)
\* A container created without its identity reaching the journal is looked up
\* by name and label; a lookup that fails counts as none found.
Resolve ==
    /\ pc.at = "resolve"
    /\ LET found == Planned({c \in Containers \ mem.ids : newc[c] # "none"}) IN
       \E missed \in SUBSET found :
         /\ missed # {} => faults < MaxFaults
         /\ faults' = IF missed = {} THEN faults ELSE faults + 1
         /\ mem' = [mem EXCEPT !.ids = @ \cup (found \ missed)]
         /\ pc' = At("remove", mem'.ids)
    /\ bad' = FALSE
    /\ UNCHANGED <<host, disk, doubt, recovering, crashes>>

RemoveNew ==
    /\ pc.at = "remove"
    /\ \E c \in pc.left, o \in Outcomes :
         /\ newc' = IF o = "refused" THEN newc ELSE [newc EXCEPT ![c] = "none"]
         /\ Onward(o, At("remove", pc.left \ {c}))
    /\ UNCHANGED <<slot, oldc, made, mem, disk, doubt, recovering, crashes>>

PickRoot ==
    /\ pc.at = "back"
    /\ \E r \in pc.left : pc' = On("backing", r)
    /\ UNCHANGED <<host, mem, disk, doubt, faults>> /\ Quiet

\* rollbackData: the file operation that comes next for a root, "done" when
\* there is none, "unowned" when an object's identity is not in the journal.
Undone(r) ==
    LET s     == slot[r]
        moved == s.previous = "old" \/ (r \in mem.applied /\ r \notin HadPrevious)
        owned == r \in mem.next
    IN  IF r \in mem.space /\ moved /\ s.discard # "none"
        THEN IF owned THEN "removeDiscard" ELSE "unowned"
        ELSE IF r \in mem.space /\ moved /\ s.target # "none"
        THEN IF owned THEN "capture" ELSE "unowned"
        ELSE IF r \in mem.space /\ s.previous = "old" THEN "putBack"
        ELSE IF r \in HadPrevious /\ s.target # "old" THEN "unowned"
        ELSE IF r \in mem.space /\ s.next # "none"
        THEN IF owned THEN "removeNext" ELSE "unowned"
        ELSE "done"

Moved(s, step) ==
    CASE step = "removeDiscard" -> [s EXCEPT !.discard = "none"]
      [] step = "capture"       -> [s EXCEPT !.discard = s.target, !.target = "none"]
      [] step = "putBack"       -> [s EXCEPT !.target = s.previous, !.previous = "none"]
      [] step = "removeNext"    -> [s EXCEPT !.next = "none"]

BackStep ==
    /\ pc.at = "backing"
    /\ LET step == Undone(pc.item) IN
       /\ step \notin {"done", "unowned"}
       /\ \E o \in Outcomes :
            /\ slot' = IF o = "refused" THEN slot
                       ELSE [slot EXCEPT ![pc.item] = Moved(@, step)]
            /\ Onward(o, IF o = "ok" THEN pc ELSE At("back", pc.left))
    /\ UNCHANGED <<oldc, newc, made, mem, disk, doubt, recovering, crashes>>

BackEnds ==
    /\ pc.at = "backing" /\ Undone(pc.item) \in {"done", "unowned"}
    /\ bad' = (bad \/ Undone(pc.item) = "unowned")
    /\ pc' = At("back", pc.left)
    /\ UNCHANGED <<host, mem, disk, doubt, recovering, faults, crashes>>

\* The old container gets its name back, unless the name is taken.
RenameBack ==
    /\ pc.at = "return"
    /\ \E c \in pc.left :
         LET away == oldc[c].name = "previous" IN
         IF ~oldc[c].there \/ (away /\ newc[c] # "none")
         THEN /\ bad' = TRUE /\ pc' = At("return", pc.left \ {c})
              /\ UNCHANGED <<oldc, faults>>
         ELSE \E o \in Outcomes :
                /\ oldc' = IF o = "refused" THEN oldc
                           ELSE [oldc EXCEPT ![c].name = "own"]
                /\ Onward(o, IF o = "ok" /\ c \in OldRunning THEN On("restart", c)
                             ELSE At("return", pc.left \ {c}))
    /\ UNCHANGED <<slot, newc, made, mem, disk, doubt, recovering, crashes>>

\* A destination found replaced before a start ends the whole pass.
RestartOld ==
    /\ pc.at = "restart"
    /\ \E o \in Outcomes :
         /\ oldc' = IF o = "refused" THEN oldc ELSE [oldc EXCEPT ![pc.item].run = TRUE]
         /\ \/ Onward(o, At("return", pc.left))
            \/ o = "refused" /\ Onward(o, At("settle", {}))
    /\ UNCHANGED <<slot, newc, made, mem, disk, doubt, recovering, crashes>>

\* A resource with the label of this restore is deleted; a volume is not
\* while a container uses it, and the containers restored use the volumes.
DropResource ==
    /\ pc.at = "drop"
    /\ \E x \in pc.left :
         IF x \in made \cap Volumes /\ \E c \in Containers : newc[c] # "none"
         THEN /\ bad' = TRUE /\ pc' = At("drop", pc.left \ {x})
              /\ UNCHANGED <<made, faults>>
         ELSE \E o \in Outcomes :
                /\ made' = IF o = "refused" THEN made ELSE made \ {x}
                /\ Onward(o, At("drop", pc.left \ {x}))
    /\ UNCHANGED <<slot, oldc, newc, mem, disk, doubt, recovering, crashes>>

Settle ==
    /\ pc.at = "settle"
    /\ \E o \in Outcomes :
         LET m == [mem EXCEPT !.phase = IF bad THEN "needs_attention"
                                        ELSE "rolled_back"] IN
         mem' = m /\ Write(m, o) /\ Spend(o)
    /\ pc' = Idle
    /\ UNCHANGED host /\ Quiet

(***************************************************************************)
(* The ends of the loops.                                                  *)
(***************************************************************************)
\* Wrong: an error in one part of a rollback does not stop the next.
AfterRegardless(at) ==
    CASE at = "volume"  -> At("plan", {})
      [] at = "space"   -> At("retire", HasOld)
      [] at = "retire"  -> At("root", Roots)
      [] at = "root"    -> At("network", Networks)
      [] at = "network" -> At("create", Containers)
      [] at = "create"  -> At("start", NewRunning)
      [] at = "start"   -> At("commit", {})
      [] at = "delete"  -> At("purge", Planned(Roots))
      [] at = "purge"   -> At("complete", {})
      [] at = "remove"  -> At("back", Planned(Roots))
      [] at = "back"    -> At("return", Planned(HasOld))
      [] at = "return"  -> At("drop", mem.res)
      [] at = "drop"    -> At("settle", {})

\* What follows each loop.  A rollback touches no data while a new container
\* may survive, and starts no old one before every root is back.
After(at) ==
    CASE at = "volume"  -> At("plan", {})
      [] at = "space"   -> At("retire", HasOld)
      [] at = "retire"  -> At("root", Roots)
      [] at = "root"    -> At("network", Networks)
      [] at = "network" -> At("create", Containers)
      [] at = "create"  -> At("start", NewRunning)
      [] at = "start"   -> At("commit", {})
      [] at = "delete"  -> At("purge", Planned(Roots))
      [] at = "purge"   -> At("complete", {})
      [] at = "remove"  -> IF bad THEN At("settle", {})
                           ELSE At("back", Planned(Roots))
      [] at = "back"    -> IF bad THEN At("settle", {})
                           ELSE At("return", Planned(HasOld))
      [] at = "return"  -> At("drop", mem.res)
      [] at = "drop"    -> At("settle", {})

Loops == {"volume", "space", "retire", "root", "network", "create", "start",
          "delete", "purge", "remove", "back", "return", "drop"}

EndLoop ==
    /\ pc.at \in Loops /\ pc.left = {}
    /\ pc' = After(pc.at)
    /\ UNCHANGED <<host, mem, disk, doubt, faults>> /\ Quiet

(***************************************************************************)
(* Recover, when the Agent starts or an administrator asks, never while    *)
(* the restore runs.                                                       *)
(***************************************************************************)
\* Wrong: a restore that needs attention is not tried again.
PendingOnce == disk.phase \in {"preparing", "applying", "cleanup_pending"}

Pending == disk.phase \in {"preparing", "applying", "needs_attention",
                           "cleanup_pending"}

\* Wrong: every interrupted restore is rolled back.
RecoverBackwards ==
    /\ pc = Idle /\ Pending
    /\ mem' = disk /\ recovering' = TRUE
    /\ pc' = Undo
    /\ UNCHANGED <<host, disk, doubt, bad, faults, crashes>>

Recover ==
    /\ pc = Idle /\ Pending
    /\ mem' = disk /\ recovering' = TRUE
    /\ pc' = IF disk.phase = "cleanup_pending"
             THEN At("delete", IF disk.planned THEN HasOld ELSE {})
             ELSE Undo
    /\ UNCHANGED <<host, disk, doubt, bad, faults, crashes>>

\* A parent directory or a workspace cannot be bound.
RecoverUnbound ==
    /\ pc = Idle /\ Pending /\ faults < MaxFaults
    /\ faults' = faults + 1
    /\ LET m == [disk EXCEPT !.phase = IF @ = "cleanup_pending" THEN @
                                       ELSE "needs_attention"] IN
       mem' = m /\ disk' \in {disk, m}
    /\ recovering' = TRUE
    /\ UNCHANGED <<host, doubt, pc, bad, crashes>>

\* The Agent stops; containers do not.
Crash ==
    /\ pc # Idle /\ crashes < MaxCrashes
    /\ crashes' = crashes + 1
    /\ mem' = Absent /\ pc' = Idle
    /\ bad' = FALSE /\ recovering' = FALSE
    /\ UNCHANGED <<host, disk, doubt, faults>>

Work ==
    \/ Intend \/ Make \/ Plan \/ CreateWorkspace \/ StopOld \/ RenameOld
    \/ Stage \/ Identify \/ Retain \/ Mark \/ Publish
    \/ CreateNew \/ RecordNew \/ StartNew \/ Unhealthy \/ Commit
    \/ DeleteOld \/ RemovePrevious \/ Complete \/ Keep
    \/ Resolve \/ RemoveNew \/ PickRoot \/ BackStep \/ BackEnds
    \/ RenameBack \/ RestartOld \/ DropResource \/ Settle \/ EndLoop

Next == Restore \/ Work \/ Recover \/ RecoverUnbound \/ Crash

\* The code runs to its end, and an interrupted restore is recovered.
Spec == Init /\ [][Next]_vars /\ WF_vars(Work) /\ WF_vars(Recover)

(***************************************************************************)
(* Properties.                                                             *)
(***************************************************************************)
TypeOK ==
    /\ slot \in [Roots -> [{"target", "previous", "next", "discard"} ->
                              {"none", "old", "new"}]]
    /\ oldc \in [Containers -> [there : BOOLEAN, name : {"own", "previous"},
                                run : BOOLEAN]]
    /\ newc \in [Containers -> {"none", "created", "running"}]
    /\ made \subseteq Volumes \cup Networks
    /\ mem \in Entry /\ disk \in Entry
    /\ bad \in BOOLEAN /\ recovering \in BOOLEAN /\ doubt \in BOOLEAN
    /\ faults \in 0..MaxFaults /\ crashes \in 0..MaxCrashes

OldData == \A r \in Roots :
    slot[r].target = IF r \in HadPrevious THEN "old" ELSE "none"
NewData == \A r \in Roots : slot[r].target = "new"

Original ==
    /\ OldData /\ made = {}
    /\ \A c \in HasOld : oldc[c] = [there |-> TRUE, name |-> "own",
                                    run |-> c \in OldRunning]
    /\ \A c \in Containers : newc[c] # "running"
Restored ==
    /\ NewData
    /\ \A c \in Containers :
         /\ ~(oldc[c].there /\ oldc[c].run)
         /\ newc[c] = IF c \in NewRunning THEN "running" ELSE "created"

Outcome == INSTANCE RestoreOutcome WITH
    decision <- IF doubt THEN "doubtful" ELSE IF Committed THEN "committed"
                ELSE IF disk.phase = "rolled_back" THEN "undone" ELSE "open",
    site <- IF Original THEN "original"
            ELSE IF Restored THEN "restored" ELSE "mixed"

\* All or nothing: a restore commits only when everything is in place, is
\* rolled back only when the host is as it was, and neither is ever reversed,
\* whatever failed and wherever the Agent stopped, but for one case: a commit
\* whose write failed after its rename is rolled back although the journal says
\* committed, and is in doubt until another record replaces it.
AllOrNothing == Outcome!Spec

\* Until the commit the old data and the old containers exist, so that a
\* rollback has something to go back to.
NothingOldLost ==
    ~Committed =>
        /\ \A r \in HadPrevious : "old" \in {slot[r].target, slot[r].previous}
        /\ \A c \in HasOld : oldc[c].there

\* No service ever runs on data of the other side, or on data that is being
\* moved.
NoWriterDuringMove ==
    /\ (\E c \in Containers : oldc[c].there /\ oldc[c].run) => OldData
    /\ (\E c \in Containers : newc[c] = "running") => NewData

\* A root staged before its identity reached the journal: recovery does not
\* claim it, and leaves the restore to the administrator.
Unowned == \E r \in Roots : slot[r].next # "none" /\ r \notin disk.next

\* Every restore ends, committed or rolled back, unless it is left for good
\* with an object that nobody can claim, or as committed although it was rolled
\* back: its cleanup then finds old containers that run again.
Settled == disk.phase \in {"absent", "completed", "rolled_back"}
RestoreSettles == ~Settled ~> (Settled \/ []Unowned \/ []doubt)

\* What the documentation says of a commit: only old copies are cleaned.
CompletedIsRestored == disk.phase = "completed" => Restored

\* What a finished rollback leaves behind.
NothingLeftBehind ==
    disk.phase = "rolled_back" => \A c \in Containers : newc[c] = "none"
=============================================================================
