-------------------------- MODULE HostRestoreProofs ---------------------------
(***************************************************************************)
(* Proofs about HostRestore, for any data trees, containers, volumes,      *)
(* networks, failures and stops of the Agent.  The argument: the journal   *)
(* on disk is never behind what was done (JournalOK, TouchOK); an old tree *)
(* or container is given up only after the commit (DataOK); on the way     *)
(* forward containers are quiet before data moves and data is in place     *)
(* before new ones run (OrderOK); and a rollback that has met no error has *)
(* put everything back that it went over (UndoOK).                         *)
(***************************************************************************)
EXTENDS HostRestore, TLAPS

(***************************************************************************)
(* The stages of the code: the restore until its commit, what follows the  *)
(* commit, and the rollback.                                               *)
(***************************************************************************)
Preparing == {"volume", "makeVolume", "plan", "space"}
Retiring  == {"retire", "rename"}
AtRoot    == {"identify", "retain", "mark", "publish"}
Moving    == {"root"} \cup AtRoot
Creating  == {"network", "makeNetwork", "create", "identity"}
Forwards  == Preparing \cup Retiring \cup Moving \cup Creating \cup {"start", "commit"}
Cleanups  == {"delete", "purge", "complete", "keep"}
Backwards == {"resolve", "remove", "back", "backing", "return", "restart", "drop", "settle"}

Things == Roots \cup Containers \cup Volumes \cup Networks

\* Which entries a loop goes over, and which entry a step inside one has at hand.
PcOK ==
    /\ pc \in [at : {"idle"} \cup Forwards \cup Cleanups \cup Backwards,
               item : Things \cup {None}, left : SUBSET Things]
    /\ pc.at = "idle" => pc = Idle
    /\ pc.at \in {"volume", "makeVolume"} => pc.left \subseteq Volumes
    /\ pc.at \in {"network", "makeNetwork"} => pc.left \subseteq Networks
    /\ pc.at \in {"space", "back", "backing", "purge"} \cup Moving => pc.left \subseteq Roots
    /\ pc.at \in {"delete", "return", "restart"} \cup Retiring => pc.left \subseteq HasOld
    /\ pc.at \in {"create", "identity", "remove"} => pc.left \subseteq Containers
    /\ pc.at = "start" => pc.left \subseteq NewRunning
    /\ pc.at = "drop" => pc.left \subseteq Volumes \cup Networks
    /\ pc.at = "makeVolume" => pc.item \in Volumes
    /\ pc.at = "makeNetwork" => pc.item \in Networks
    /\ pc.at \in {"backing"} \cup AtRoot => pc.item \in Roots
    /\ pc.at = "retain" => pc.item \in HadPrevious
    /\ pc.at = "rename" => pc.item \in HasOld
    /\ pc.at = "restart" => pc.item \in OldRunning
    /\ pc.at = "identity" => pc.item \in Containers

\* The host before anything was done to it.
SlotBefore(r) == [target |-> IF r \in HadPrevious THEN "old" ELSE "none",
                  previous |-> "none", next |-> "none", discard |-> "none"]
OldBefore(c) == [there |-> c \in HasOld, name |-> "own", run |-> c \in OldRunning]

SlotsBefore == \A r \in Roots : slot[r] = SlotBefore(r)
OldsBefore  == \A c \in Containers : oldc[c] = OldBefore(c)
NoneNew     == \A c \in Containers : newc[c] = "none"
Untouched   == SlotsBefore /\ OldsBefore /\ NoneNew

AsBefore(r) == slot[r].target = IF r \in HadPrevious THEN "old" ELSE "none"
OldQuiet    == \A c \in Containers : ~oldc[c].run
NoneRuns    == \A c \in Containers : newc[c] # "running"

(***************************************************************************)
(* The journal: on the way forward the disk holds what memory does; at any *)
(* time the code runs, memory holds at least what the disk does.           *)
(***************************************************************************)
Ahead == /\ disk.planned => mem.planned
         /\ disk.space \subseteq mem.space /\ disk.next \subseteq mem.next
         /\ disk.applied \subseteq mem.applied
         /\ disk.ids \subseteq mem.ids /\ disk.res \subseteq mem.res

JournalOK ==
    /\ pc # Idle => Ahead
    /\ pc.at \in Forwards => mem = disk /\ disk.phase \in {"preparing", "applying"}
    /\ pc.at \in Cleanups => Committed
    /\ pc.at \in Backwards => disk.phase \in {"preparing", "applying", "needs_attention",
                                              "cleanup_pending"}
    /\ pc.at \in Backwards /\ ~doubt => ~Committed
    /\ doubt => Committed
    /\ disk.phase = "absent" => pc = Idle
    /\ Committed => disk.planned
    /\ pc.at \in {"space"} \cup Retiring \cup Moving \cup Creating \cup {"start", "commit"}
         => disk.planned
    /\ pc.at = "space" => Roots \ pc.left \subseteq disk.space
    /\ pc.at \in Retiring \cup Moving => disk.space = Roots
    /\ pc.at \in {"makeVolume", "makeNetwork"} => pc.item \in disk.res

\* What the journal on disk does not know of has not been touched.
TouchOK ==
    /\ disk.phase = "absent" \/ ~disk.planned \/ pc.at \in Preparing => Untouched
    /\ disk.phase = "absent" => made = {}
    /\ made \subseteq disk.res

(***************************************************************************)
(* The data: the old tree is in target or in previous, never in both, and  *)
(* a tree without a predecessor is in place only when the journal on disk  *)
(* says that it may be.                                                    *)
(***************************************************************************)
OldKept == /\ \A r \in HadPrevious : "old" \in {slot[r].target, slot[r].previous}
           /\ \A c \in HasOld : oldc[c].there

DataOK ==
    /\ ~Committed \/ pc.at \in Forwards \cup Backwards => OldKept
    /\ \A r \in Roots :
          slot[r].previous = "old" => r \in HadPrevious /\ slot[r].target # "old"
    /\ \A r \in Roots \ HadPrevious :
          slot[r].target # "none" => r \in disk.space /\ r \in disk.applied
    /\ pc.at \in {"mark", "publish"} /\ pc.item \in HadPrevious
         => slot[pc.item].previous = "old"
    /\ pc.at = "publish" => pc.item \in disk.applied

(***************************************************************************)
(* The order of the restore: containers are quiet before data moves, data  *)
(* is in place before containers are created, and every one is recorded    *)
(* before any of them starts.                                              *)
(***************************************************************************)
Published(S) == \A r \in S : slot[r].target = "new"

OrderOK ==
    /\ pc.at \in Retiring \cup Moving => NoneNew
    /\ pc.at \in Retiring => SlotsBefore /\ \A c \in HasOld \ pc.left : ~oldc[c].run
    /\ pc.at \in Moving \cup Creating \cup {"start", "commit"} => OldQuiet
    /\ pc.at = "root" => Published(Roots \ pc.left)
    /\ pc.at \in AtRoot => Published(Roots \ (pc.left \cup {pc.item}))
    /\ pc.at \in Creating \cup {"start", "commit"} => NewData
    /\ pc.at \in {"network", "makeNetwork"} => NoneNew
    /\ pc.at \in {"create", "identity"} => NoneRuns
    /\ pc.at = "create" =>
          \A c \in Containers \ pc.left : c \in disk.ids /\ newc[c] = "created"
    /\ pc.at = "identity" =>
          /\ \A c \in Containers \ (pc.left \cup {pc.item}) :
                c \in disk.ids /\ newc[c] = "created"
          /\ newc[pc.item] = "created"
    /\ pc.at = "start" => Containers \subseteq disk.ids
    /\ pc.at = "start" =>
          \A c \in Containers :
             newc[c] = IF c \in NewRunning \ pc.left THEN "running" ELSE "created"
    /\ pc.at = "commit" => Restored
    /\ \A c \in Containers : newc[c] = "running" => c \in disk.ids
    /\ \A c \in Containers : oldc[c].run => c \in OldRunning

(***************************************************************************)
(* The order of the rollback, while it has met no error.                   *)
(***************************************************************************)
UndoOK ==
    /\ pc.at = "remove" /\ ~bad => \A c \in mem.ids \ pc.left : newc[c] = "none"
    /\ pc.at \in {"back", "backing", "return", "restart", "drop"} => NoneRuns
    /\ pc.at = "back" /\ ~bad => \A r \in Roots \ pc.left : AsBefore(r)
    /\ pc.at = "backing" /\ ~bad => \A r \in Roots \ (pc.left \cup {pc.item}) : AsBefore(r)
    /\ pc.at \in {"return", "restart"} => OldData
    /\ pc.at \in {"return", "restart", "drop", "settle"} /\ ~bad => OldData /\ NoneRuns
    /\ pc.at = "return" /\ ~bad => \A c \in HasOld \ pc.left : oldc[c] = OldBefore(c)
    /\ pc.at = "restart" /\ ~bad =>
          /\ \A c \in HasOld \ (pc.left \cup {pc.item}) : oldc[c] = OldBefore(c)
          /\ oldc[pc.item].name = "own"
    /\ pc.at \in {"drop", "settle"} /\ ~bad => \A c \in HasOld : oldc[c] = OldBefore(c)
    /\ pc.at = "drop" /\ ~bad => made \subseteq pc.left
    /\ pc.at = "settle" /\ ~bad => made = {}

IInv == /\ TypeOK /\ PcOK /\ JournalOK /\ TouchOK /\ DataOK /\ OrderOK /\ UndoOK
        /\ NoWriterDuringMove
        /\ Committed /\ ~doubt => Restored

\* What follows the loop that ends.
LEMMA LoopEnds ==
    ASSUME EndLoop
    PROVE  /\ pc.left = {} /\ UNCHANGED <<slot, oldc, newc, made, mem, disk, doubt, bad, faults>>
           /\ UNCHANGED <<recovering, crashes>>
           /\ \/ pc.at = "volume" /\ pc' = At("plan", {})
              \/ pc.at = "space" /\ pc' = At("retire", HasOld)
              \/ pc.at = "retire" /\ pc' = At("root", Roots)
              \/ pc.at = "root" /\ pc' = At("network", Networks)
              \/ pc.at = "network" /\ pc' = At("create", Containers)
              \/ pc.at = "create" /\ pc' = At("start", NewRunning)
              \/ pc.at = "start" /\ pc' = At("commit", {})
              \/ pc.at = "delete" /\ pc' = At("purge", Planned(Roots))
              \/ pc.at = "purge" /\ pc' = At("complete", {})
              \/ pc.at \in {"remove", "back"} /\ bad /\ pc' = At("settle", {})
              \/ pc.at = "remove" /\ ~bad /\ pc' = At("back", Planned(Roots))
              \/ pc.at = "back" /\ ~bad /\ pc' = At("return", Planned(HasOld))
              \/ pc.at = "return" /\ pc' = At("drop", mem.res)
              \/ pc.at = "drop" /\ pc' = At("settle", {})
BY DEF EndLoop, After, Loops, host, Quiet

\* What a file operation of the rollback does to the tree it is at, and when.
Captured(r) == /\ slot'[r].target = "none" /\ slot'[r].previous = slot[r].previous
               /\ slot[r].target # "none"
               /\ slot[r].previous = "old" \/ r \notin HadPrevious
PutBack(r)  == /\ slot'[r].target = "old" /\ slot'[r].previous = "none"
               /\ slot[r].target = "none" /\ slot[r].previous = "old"
Tidied(r)   == slot'[r].target = slot[r].target /\ slot'[r].previous = slot[r].previous

LEMMA BackMoves ==
    ASSUME TypeOK, PcOK, BackStep
    PROVE  /\ pc.item \in Roots /\ slot[pc.item] # SlotBefore(pc.item)
           /\ \A r \in Roots \ {pc.item} : slot'[r] = slot[r]
           /\ Tidied(pc.item) \/ Captured(pc.item) \/ PutBack(pc.item)
           /\ UNCHANGED <<oldc, newc, made, mem, disk, recovering, crashes>>
           /\ pc.at = "backing" /\ pc'.at \in {"back", "backing"}
           /\ \/ pc' = pc /\ bad' = bad
              \/ pc' = At("back", pc.left) /\ bad' = TRUE
<1> DEFINE r == pc.item
           s == slot[r]
           step == Undone(r)
<1>0. r \in Roots
  BY DEF BackStep, PcOK, AtRoot
<1>1. s \in [{"target", "previous", "next", "discard"} -> {"none", "old", "new"}]
  BY <1>0 DEF TypeOK
<1>2. step \in {"removeDiscard", "capture", "putBack", "removeNext"}
  BY DEF BackStep, Undone
<1>3. /\ step = "capture" => s.target # "none" /\ (s.previous = "old" \/ r \notin HadPrevious)
      /\ step = "putBack" => s.target = "none" /\ s.previous = "old"
      /\ s # SlotBefore(r)
  BY <1>2 DEF Undone, SlotBefore
<1>4. PICK o \in Outcomes :
        /\ slot' = IF o = "refused" THEN slot ELSE [slot EXCEPT ![r] = Moved(@, step)]
        /\ Onward(o, IF o = "ok" THEN pc ELSE At("back", pc.left))
  BY DEF BackStep
<1>5. /\ \A x \in Roots \ {r} : slot'[x] = slot[x]
      /\ slot'[r] = s \/ slot'[r] = Moved(s, step)
  BY <1>0, <1>4 DEF TypeOK
<1>6. Tidied(r) \/ Captured(r) \/ PutBack(r)
  <2>1. CASE slot'[r] = s
    BY <2>1 DEF Tidied
  <2>2. CASE slot'[r] = Moved(s, step)
    <3>1. CASE step = "capture"
      BY <1>1, <1>3, <2>2, <3>1 DEF Moved, Captured
    <3>2. CASE step = "putBack"
      BY <1>1, <1>3, <2>2, <3>2 DEF Moved, PutBack
    <3>3. CASE step \in {"removeDiscard", "removeNext"}
      BY <1>1, <2>2, <3>3 DEF Moved, Tidied
    <3> QED BY <1>2, <3>1, <3>2, <3>3
  <2> QED BY <1>5, <2>1, <2>2
<1>7. \/ pc' = pc /\ bad' = bad
      \/ pc' = At("back", pc.left) /\ bad' = TRUE
  BY <1>4 DEF Onward, Outcomes, TypeOK
<1>8. pc.at = "backing" /\ pc'.at \in {"back", "backing"}
  BY <1>7 DEF BackStep, At
<1>9. UNCHANGED <<oldc, newc, made, mem, disk, recovering, crashes>>
  BY DEF BackStep
<1> QED BY <1>0, <1>3, <1>5, <1>6, <1>7, <1>8, <1>9

\* A tree for which nothing is left to do is as it was before the restore.
LEMMA DoneIsBefore ==
    ASSUME IInv, NEW r \in Roots, pc.at \in Backwards, Undone(r) = "done"
    PROVE  AsBefore(r)
<1>1. pc # Idle BY DEF Backwards, Idle, At
<1>2. slot[r].target \in {"none", "old", "new"} BY DEF IInv, TypeOK
<1>3. r \in HadPrevious => slot[r].target = "old"
  BY DEF Undone
<1>4. r \notin HadPrevious /\ slot[r].target # "none" => r \in mem.space /\ r \in mem.applied
  BY <1>1 DEF IInv, DataOK, JournalOK, Ahead
<1>5. r \notin HadPrevious => slot[r].target = "none"
  BY <1>2, <1>4 DEF Undone
<1> QED BY <1>3, <1>5 DEF AsBefore

\* A step of the rollback that has met no error succeeded.
LEMMA NoErrorSoFar ==
    ASSUME NEW o, NEW then, bad \in BOOLEAN, Onward(o, then)
    PROVE  /\ pc' = then /\ bad' \in BOOLEAN
           /\ ~bad' => ~bad /\ o = "ok"
BY DEF Onward

\* How the loops of the rollback follow each other.
LEMMA UndoLoopEnds ==
    ASSUME EndLoop
    PROVE  /\ pc'.at = "back" => /\ pc.at = "remove" /\ ~bad
                                 /\ pc'.left = IF mem.planned THEN Roots ELSE {}
           /\ pc'.at = "return" => /\ pc.at = "back" /\ ~bad
                                   /\ pc'.left = IF mem.planned THEN HasOld ELSE {}
           /\ pc'.at = "drop" => pc.at = "return" /\ pc'.left = mem.res
           /\ pc'.at = "settle" => pc.at = "drop" \/ bad
BY LoopEnds DEF At, Planned

(***************************************************************************)
(* Updates keep their types.                                               *)
(***************************************************************************)
Slots == [{"target", "previous", "next", "discard"} -> {"none", "old", "new"}]
Olds  == [there : BOOLEAN, name : {"own", "previous"}, run : BOOLEAN]

LEMMA EntryUpdates ==
    /\ Absent \in Entry /\ [Absent EXCEPT !.phase = "preparing"] \in Entry
    /\ \A m \in Entry : [m EXCEPT !.planned = TRUE, !.phase = "applying"] \in Entry
    /\ \A m \in Entry, S \in SUBSET Containers : [m EXCEPT !.ids = @ \cup S] \in Entry
<1>1. Absent \in Entry
  BY DEF Absent, Entry
<1>2. \A m \in Entry : [m EXCEPT !.phase = "preparing"] \in Entry
  BY DEF Entry
<1>3. \A m \in Entry : [m EXCEPT !.planned = TRUE, !.phase = "applying"] \in Entry
  BY DEF Entry
<1>4. \A m \in Entry, S \in SUBSET Containers : [m EXCEPT !.ids = @ \cup S] \in Entry
  <2>1. SUFFICES ASSUME NEW m \in Entry, NEW S \in SUBSET Containers
                 PROVE  [m EXCEPT !.ids = m.ids \cup S] \in Entry
    OBVIOUS
  <2>2. m.ids \cup S \in SUBSET Containers
    BY DEF Entry
  <2> QED BY <2>2 DEF Entry
<1> QED BY <1>1, <1>2, <1>3, <1>4

LEMMA OldUpdates ==
    ASSUME oldc \in [Containers -> Olds]
    PROVE  \A c \in Containers : /\ [oldc EXCEPT ![c].run = TRUE] \in [Containers -> Olds]
                                 /\ [oldc EXCEPT ![c].run = FALSE] \in [Containers -> Olds]
                                 /\ [oldc EXCEPT ![c].there = FALSE] \in [Containers -> Olds]
<1>1. \A o \in Olds : /\ [o EXCEPT !.run = TRUE] \in Olds
                      /\ [o EXCEPT !.run = FALSE] \in Olds
                      /\ [o EXCEPT !.there = FALSE] \in Olds
  BY DEF Olds
<1> QED BY <1>1

LEMMA SlotUpdates ==
    ASSUME slot \in [Roots -> Slots]
    PROVE  \A r \in Roots : [slot EXCEPT ![r].previous = "none", ![r].next = "none"]
                              \in [Roots -> Slots]
<1>1. \A s \in Slots : [s EXCEPT !.previous = "none", !.next = "none"] \in Slots
  BY DEF Slots
<1> QED BY <1>1

LEMMA MovedIsSlot ==
    ASSUME NEW s \in Slots,
           NEW step \in {"removeDiscard", "capture", "putBack", "removeNext"}
    PROVE  Moved(s, step) \in Slots
<1>1. CASE step = "removeDiscard"
  BY <1>1 DEF Moved, Slots
<1>2. CASE step = "capture"
  BY <1>2 DEF Moved, Slots
<1>3. CASE step = "putBack"
  BY <1>3 DEF Moved, Slots
<1>4. CASE step = "removeNext"
  BY <1>4 DEF Moved, Slots
<1> QED BY <1>1, <1>2, <1>3, <1>4

(***************************************************************************)
(* Each part of the invariant is kept by every step.  Where the control is.*)
(***************************************************************************)
LEMMA PcStep ==
    ASSUME TypeOK, PcOK, [Next]_vars
    PROVE  PcOK'
<1> USE SetAssumption, NoneAssumption DEF TypeOK, PcOK, Entry, Things,
      Forwards, Cleanups, Backwards, Preparing, Retiring, Moving, AtRoot,
      Creating
<1> USE DEF At, On, Idle, Quiet, host, Spend, Outcomes, Forward, Write, Undo,
      Record, Cleaning, Onward
<1>1. ASSUME Restore PROVE PcOK'
  BY <1>1 DEF Restore
<1>2. ASSUME Intend PROVE PcOK'
  BY <1>2 DEF Intend
<1>3. ASSUME Make PROVE PcOK'
  BY <1>3 DEF Make
<1>4. ASSUME Plan PROVE PcOK'
  BY <1>4 DEF Plan
<1>5. ASSUME CreateWorkspace PROVE PcOK'
  BY <1>5 DEF CreateWorkspace
<1>6. ASSUME StopOld PROVE PcOK'
  BY <1>6 DEF StopOld
<1>7. ASSUME RenameOld PROVE PcOK'
  BY <1>7 DEF RenameOld
<1>8. ASSUME Stage PROVE PcOK'
  BY <1>8 DEF Stage
<1>9. ASSUME Identify PROVE PcOK'
  BY <1>9 DEF Identify
<1>10. ASSUME Retain PROVE PcOK'
  BY <1>10 DEF Retain
<1>11. ASSUME Mark PROVE PcOK'
  BY <1>11 DEF Mark
<1>12. ASSUME Publish PROVE PcOK'
  BY <1>12 DEF Publish
<1>13. ASSUME CreateNew PROVE PcOK'
  BY <1>13 DEF CreateNew
<1>14. ASSUME RecordNew PROVE PcOK'
  BY <1>14 DEF RecordNew
<1>15. ASSUME StartNew PROVE PcOK'
  BY <1>15 DEF StartNew
<1>16. ASSUME Unhealthy PROVE PcOK'
  BY <1>16 DEF Unhealthy
<1>17. ASSUME Commit PROVE PcOK'
  BY <1>17 DEF Commit, Clean
<1>18. ASSUME DeleteOld PROVE PcOK'
  BY <1>18 DEF DeleteOld
<1>19. ASSUME RemovePrevious PROVE PcOK'
  BY <1>19 DEF RemovePrevious
<1>20. ASSUME Complete PROVE PcOK'
  BY <1>20 DEF Complete
<1>21. ASSUME Keep PROVE PcOK'
  BY <1>21 DEF Keep
<1>22. ASSUME Resolve PROVE PcOK'
  BY <1>22 DEF Resolve, Planned
<1>23. ASSUME RemoveNew PROVE PcOK'
  BY <1>23 DEF RemoveNew
<1>24. ASSUME PickRoot PROVE PcOK'
  BY <1>24 DEF PickRoot
<1>25. ASSUME BackStep PROVE PcOK'
  BY <1>25 DEF BackStep, Moved
<1>26. ASSUME BackEnds PROVE PcOK'
  BY <1>26 DEF BackEnds
<1>27. ASSUME RenameBack PROVE PcOK'
  BY <1>27 DEF RenameBack
<1>28. ASSUME RestartOld PROVE PcOK'
  BY <1>28 DEF RestartOld
<1>29. ASSUME DropResource PROVE PcOK'
  BY <1>29 DEF DropResource
<1>30. ASSUME Settle PROVE PcOK'
  BY <1>30 DEF Settle
<1>31. ASSUME EndLoop PROVE PcOK'
  BY <1>31, LoopEnds DEF At, Planned
<1>32. ASSUME Recover PROVE PcOK'
  BY <1>32 DEF Recover, Pending
<1>33. ASSUME RecoverUnbound PROVE PcOK'
  BY <1>33 DEF RecoverUnbound, Pending
<1>34. ASSUME Crash PROVE PcOK'
  BY <1>34 DEF Crash
<1>35. ASSUME UNCHANGED vars PROVE PcOK'
  BY <1>35, SMTT(30) DEF vars
<1> QED BY <1>1, <1>2, <1>3, <1>4, <1>5, <1>6, <1>7, <1>8, <1>9, <1>10, <1>11,
           <1>12, <1>13, <1>14, <1>15, <1>16, <1>17, <1>18, <1>19, <1>20,
           <1>21, <1>22, <1>23, <1>24, <1>25, <1>26, <1>27, <1>28, <1>29,
           <1>30, <1>31, <1>32, <1>33, <1>34, <1>35 DEF Next, Work

\* Types.
LEMMA TypeStep ==
    ASSUME TypeOK, PcOK, [Next]_vars
    PROVE  TypeOK'
<1> USE SetAssumption, NoneAssumption, BoundAssumption DEF TypeOK, PcOK, Entry,
      Absent, Slots, Olds, Forwards, Cleanups, Backwards, Preparing, Retiring,
      Moving, AtRoot, Creating
<1> USE DEF At, On, Idle, Quiet, host, Spend, Outcomes, Forward, Write, Undo,
      Record, Cleaning, Onward
<1>1. ASSUME Restore PROVE TypeOK'
  <2>1. slot' \in [Roots -> Slots]
    BY <1>1 DEF Restore
  <2>2. oldc' \in [Containers -> Olds]
    BY <1>1 DEF Restore
  <2>3. /\ newc' \in [Containers -> {"none", "created", "running"}]
        /\ made' \subseteq Volumes \cup Networks
    BY <1>1 DEF Restore
  <2>4. mem' \in Entry
    <3> HIDE DEF Entry, Absent
    <3> QED BY <1>1, EntryUpdates DEF Restore
  <2>5. disk' \in Entry
    <3>1. disk \in Entry
      OBVIOUS
    <3> HIDE DEF Entry, Absent
    <3> QED BY <1>1, <3>1, EntryUpdates DEF Restore, Write
  <2>6. bad' \in BOOLEAN /\ recovering' \in BOOLEAN /\ doubt' \in BOOLEAN
    BY <1>1 DEF Restore
  <2>7. faults' \in 0..MaxFaults /\ crashes' \in 0..MaxCrashes
    BY <1>1 DEF Restore
  <2> QED BY <2>1, <2>2, <2>3, <2>4, <2>5, <2>6, <2>7
<1>2. ASSUME Intend PROVE TypeOK'
  BY <1>2 DEF Intend
<1>3. ASSUME Make PROVE TypeOK'
  BY <1>3 DEF Make
<1>4. ASSUME Plan PROVE TypeOK'
  <2>1. slot' \in [Roots -> Slots]
    BY <1>4 DEF Plan
  <2>2. oldc' \in [Containers -> Olds]
    BY <1>4 DEF Plan
  <2>3. /\ newc' \in [Containers -> {"none", "created", "running"}]
        /\ made' \subseteq Volumes \cup Networks
    BY <1>4 DEF Plan
  <2>4. mem' \in Entry
    <3>1. mem \in Entry
      OBVIOUS
    <3> HIDE DEF Entry, Absent
    <3>2. mem' = [mem EXCEPT !.planned = TRUE, !.phase = "applying"]
      BY <1>4 DEF Plan, Record
    <3> QED BY <3>1, <3>2, EntryUpdates
  <2>5. disk' \in Entry
    <3>1. mem \in Entry /\ disk \in Entry
      OBVIOUS
    <3> HIDE DEF Entry, Absent
    <3>2. disk' = disk \/ disk' = [mem EXCEPT !.planned = TRUE, !.phase = "applying"]
      BY <1>4 DEF Plan, Record, Write
    <3>3. mem \in Entry /\ disk \in Entry
      BY <3>1
    <3>4. [mem EXCEPT !.planned = TRUE, !.phase = "applying"] \in Entry
      BY <3>3, EntryUpdates
    <3> QED BY <3>2, <3>3, <3>4
  <2>6. bad' \in BOOLEAN /\ recovering' \in BOOLEAN /\ doubt' \in BOOLEAN
    BY <1>4 DEF Plan
  <2>7. faults' \in 0..MaxFaults /\ crashes' \in 0..MaxCrashes
    BY <1>4 DEF Plan
  <2> QED BY <2>1, <2>2, <2>3, <2>4, <2>5, <2>6, <2>7
<1>5. ASSUME CreateWorkspace PROVE TypeOK'
  <2>1. slot' \in [Roots -> Slots]
    BY <1>5 DEF CreateWorkspace
  <2>2. oldc' \in [Containers -> Olds]
    BY <1>5 DEF CreateWorkspace
  <2>3. /\ newc' \in [Containers -> {"none", "created", "running"}]
        /\ made' \subseteq Volumes \cup Networks
    BY <1>5 DEF CreateWorkspace
  <2>4. mem' \in Entry
    BY <1>5 DEF CreateWorkspace
  <2>5. disk' \in Entry
    BY <1>5 DEF CreateWorkspace
  <2>6. bad' \in BOOLEAN /\ recovering' \in BOOLEAN /\ doubt' \in BOOLEAN
    BY <1>5 DEF CreateWorkspace
  <2>7. faults' \in 0..MaxFaults /\ crashes' \in 0..MaxCrashes
    BY <1>5 DEF CreateWorkspace
  <2> QED BY <2>1, <2>2, <2>3, <2>4, <2>5, <2>6, <2>7
<1>6. ASSUME StopOld PROVE TypeOK'
  <2>1. slot' \in [Roots -> Slots]
    BY <1>6 DEF StopOld
  <2>2. oldc' \in [Containers -> Olds]
    <3>1. pc.left \subseteq Containers
      BY <1>6 DEF StopOld
    <3>2. oldc \in [Containers -> Olds]
      OBVIOUS
    <3>3. \E c \in pc.left : oldc' = oldc \/ oldc' = [oldc EXCEPT ![c].run = FALSE]
      BY <1>6 DEF StopOld
    <3> HIDE DEF TypeOK, PcOK, Olds
    <3>4. oldc' \in [Containers -> Olds]
      <4>1. PICK c \in Containers : oldc' = oldc \/ oldc' = [oldc EXCEPT ![c].run = FALSE]
        BY <3>1, <3>3
      <4>2. [oldc EXCEPT ![c].run = FALSE] \in [Containers -> Olds]
        BY <3>2, OldUpdates
      <4> QED BY <3>2, <4>1, <4>2
    <3> QED BY <3>4
  <2>3. /\ newc' \in [Containers -> {"none", "created", "running"}]
        /\ made' \subseteq Volumes \cup Networks
    BY <1>6 DEF StopOld
  <2>4. mem' \in Entry
    BY <1>6 DEF StopOld
  <2>5. disk' \in Entry
    BY <1>6 DEF StopOld
  <2>6. bad' \in BOOLEAN /\ recovering' \in BOOLEAN /\ doubt' \in BOOLEAN
    BY <1>6 DEF StopOld
  <2>7. faults' \in 0..MaxFaults /\ crashes' \in 0..MaxCrashes
    BY <1>6 DEF StopOld
  <2> QED BY <2>1, <2>2, <2>3, <2>4, <2>5, <2>6, <2>7
<1>7. ASSUME RenameOld PROVE TypeOK'
  BY <1>7 DEF RenameOld
<1>8. ASSUME Stage PROVE TypeOK'
  BY <1>8 DEF Stage
<1>9. ASSUME Identify PROVE TypeOK'
  <2>1. slot' \in [Roots -> Slots]
    BY <1>9 DEF Identify
  <2>2. oldc' \in [Containers -> Olds]
    BY <1>9 DEF Identify
  <2>3. /\ newc' \in [Containers -> {"none", "created", "running"}]
        /\ made' \subseteq Volumes \cup Networks
    BY <1>9 DEF Identify
  <2>4. mem' \in Entry
    BY <1>9 DEF Identify
  <2>5. disk' \in Entry
    BY <1>9 DEF Identify
  <2>6. bad' \in BOOLEAN /\ recovering' \in BOOLEAN /\ doubt' \in BOOLEAN
    BY <1>9 DEF Identify
  <2>7. faults' \in 0..MaxFaults /\ crashes' \in 0..MaxCrashes
    BY <1>9 DEF Identify
  <2> QED BY <2>1, <2>2, <2>3, <2>4, <2>5, <2>6, <2>7
<1>10. ASSUME Retain PROVE TypeOK'
  BY <1>10 DEF Retain
<1>11. ASSUME Mark PROVE TypeOK'
  BY <1>11 DEF Mark
<1>12. ASSUME Publish PROVE TypeOK'
  BY <1>12 DEF Publish
<1>13. ASSUME CreateNew PROVE TypeOK'
  BY <1>13 DEF CreateNew
<1>14. ASSUME RecordNew PROVE TypeOK'
  BY <1>14, SMTT(30) DEF RecordNew
<1>15. ASSUME StartNew PROVE TypeOK'
  BY <1>15 DEF StartNew
<1>16. ASSUME Unhealthy PROVE TypeOK'
  BY <1>16 DEF Unhealthy
<1>17. ASSUME Commit PROVE TypeOK'
  BY <1>17 DEF Commit, Clean
<1>18. ASSUME DeleteOld PROVE TypeOK'
  <2>1. slot' \in [Roots -> Slots]
    BY <1>18 DEF DeleteOld
  <2>2. oldc' \in [Containers -> Olds]
    <3>1. pc.left \subseteq Containers
      BY <1>18 DEF DeleteOld
    <3>2. oldc \in [Containers -> Olds]
      OBVIOUS
    <3>3. \E c \in pc.left : oldc' = oldc \/ oldc' = [oldc EXCEPT ![c].there = FALSE]
      BY <1>18 DEF DeleteOld
    <3> HIDE DEF TypeOK, PcOK, Olds
    <3>4. oldc' \in [Containers -> Olds]
      <4>1. PICK c \in Containers : oldc' = oldc \/ oldc' = [oldc EXCEPT ![c].there = FALSE]
        BY <3>1, <3>3
      <4>2. [oldc EXCEPT ![c].there = FALSE] \in [Containers -> Olds]
        BY <3>2, OldUpdates
      <4> QED BY <3>2, <4>1, <4>2
    <3> QED BY <3>4
  <2>3. /\ newc' \in [Containers -> {"none", "created", "running"}]
        /\ made' \subseteq Volumes \cup Networks
    BY <1>18 DEF DeleteOld
  <2>4. mem' \in Entry
    BY <1>18 DEF DeleteOld
  <2>5. disk' \in Entry
    BY <1>18 DEF DeleteOld
  <2>6. bad' \in BOOLEAN /\ recovering' \in BOOLEAN /\ doubt' \in BOOLEAN
    BY <1>18 DEF DeleteOld
  <2>7. faults' \in 0..MaxFaults /\ crashes' \in 0..MaxCrashes
    BY <1>18 DEF DeleteOld
  <2> QED BY <2>1, <2>2, <2>3, <2>4, <2>5, <2>6, <2>7
<1>19. ASSUME RemovePrevious PROVE TypeOK'
  <2>1. slot' \in [Roots -> Slots]
    <3>1. PICK r \in pc.left :
            \/ slot' = slot
            \/ slot' = [slot EXCEPT ![r].previous = "none", ![r].next = "none"]
      BY <1>19 DEF RemovePrevious
    <3>2. r \in Roots /\ slot \in [Roots -> Slots]
      BY <1>19 DEF RemovePrevious
    <3>3. [slot EXCEPT ![r].previous = "none", ![r].next = "none"] \in [Roots -> Slots]
      <4> HIDE DEF Slots
      <4> QED BY <3>2, SlotUpdates
    <3> QED BY <3>1, <3>2, <3>3
  <2>2. oldc' \in [Containers -> Olds]
    BY <1>19 DEF RemovePrevious
  <2>3. /\ newc' \in [Containers -> {"none", "created", "running"}]
        /\ made' \subseteq Volumes \cup Networks
    BY <1>19 DEF RemovePrevious
  <2>4. mem' \in Entry
    BY <1>19 DEF RemovePrevious
  <2>5. disk' \in Entry
    BY <1>19 DEF RemovePrevious
  <2>6. bad' \in BOOLEAN /\ recovering' \in BOOLEAN /\ doubt' \in BOOLEAN
    BY <1>19 DEF RemovePrevious
  <2>7. faults' \in 0..MaxFaults /\ crashes' \in 0..MaxCrashes
    BY <1>19 DEF RemovePrevious
  <2> QED BY <2>1, <2>2, <2>3, <2>4, <2>5, <2>6, <2>7
<1>20. ASSUME Complete PROVE TypeOK'
  BY <1>20, SMTT(60) DEF Complete
<1>21. ASSUME Keep PROVE TypeOK'
  BY <1>21 DEF Keep
<1>22. ASSUME Resolve PROVE TypeOK'
  <2>1. slot' \in [Roots -> Slots]
    BY <1>22 DEF Resolve, Planned
  <2>2. oldc' \in [Containers -> Olds]
    BY <1>22 DEF Resolve, Planned
  <2>3. /\ newc' \in [Containers -> {"none", "created", "running"}]
        /\ made' \subseteq Volumes \cup Networks
    BY <1>22 DEF Resolve, Planned
  <2>4. mem' \in Entry
    <3>1. mem \in Entry
      OBVIOUS
    <3>2. PICK S \in SUBSET Containers : mem' = [mem EXCEPT !.ids = @ \cup S]
      <4> DEFINE found == Planned({c \in Containers \ mem.ids : newc[c] # "none"})
      <4>1. PICK missed \in SUBSET found : mem' = [mem EXCEPT !.ids = @ \cup (found \ missed)]
        BY <1>22 DEF Resolve
      <4>2. found \subseteq Containers
        BY DEF Planned
      <4> QED BY <4>1, <4>2
    <3> HIDE DEF Entry
    <3> QED BY <3>1, <3>2, EntryUpdates
  <2>5. disk' \in Entry
    BY <1>22 DEF Resolve, Planned
  <2>6. bad' \in BOOLEAN /\ recovering' \in BOOLEAN /\ doubt' \in BOOLEAN
    BY <1>22 DEF Resolve, Planned
  <2>7. faults' \in 0..MaxFaults /\ crashes' \in 0..MaxCrashes
    BY <1>22 DEF Resolve, Planned
  <2> QED BY <2>1, <2>2, <2>3, <2>4, <2>5, <2>6, <2>7
<1>23. ASSUME RemoveNew PROVE TypeOK'
  BY <1>23 DEF RemoveNew
<1>24. ASSUME PickRoot PROVE TypeOK'
  BY <1>24 DEF PickRoot
<1>25. ASSUME BackStep PROVE TypeOK'
  <2>1. slot' \in [Roots -> Slots]
    <3>1. Undone(pc.item) \in {"removeDiscard", "capture", "putBack", "removeNext"}
      BY <1>25 DEF BackStep, Undone
    <3>2. slot \in [Roots -> Slots] /\ pc.item \in Roots
      BY <1>25 DEF BackStep
    <3>3. \/ slot' = slot
          \/ slot' = [slot EXCEPT ![pc.item] = Moved(@, Undone(pc.item))]
      BY <1>25 DEF BackStep
    <3>4. slot' \in [Roots -> Slots]
      BY <3>1, <3>2, <3>3, MovedIsSlot
    <3> QED BY <3>4
  <2>2. oldc' \in [Containers -> Olds]
    BY <1>25 DEF BackStep, Moved
  <2>3. /\ newc' \in [Containers -> {"none", "created", "running"}]
        /\ made' \subseteq Volumes \cup Networks
    BY <1>25 DEF BackStep, Moved
  <2>4. mem' \in Entry
    BY <1>25 DEF BackStep, Moved
  <2>5. disk' \in Entry
    BY <1>25 DEF BackStep, Moved
  <2>6. bad' \in BOOLEAN /\ recovering' \in BOOLEAN /\ doubt' \in BOOLEAN
    BY <1>25 DEF BackStep, Moved
  <2>7. faults' \in 0..MaxFaults /\ crashes' \in 0..MaxCrashes
    BY <1>25 DEF BackStep, Moved
  <2> QED BY <2>1, <2>2, <2>3, <2>4, <2>5, <2>6, <2>7
<1>26. ASSUME BackEnds PROVE TypeOK'
  BY <1>26 DEF BackEnds
<1>27. ASSUME RenameBack PROVE TypeOK'
  <2>1. slot' \in [Roots -> Slots]
    BY <1>27 DEF RenameBack
  <2>2. oldc' \in [Containers -> Olds]
    BY <1>27 DEF RenameBack
  <2>3. /\ newc' \in [Containers -> {"none", "created", "running"}]
        /\ made' \subseteq Volumes \cup Networks
    BY <1>27 DEF RenameBack
  <2>4. mem' \in Entry
    BY <1>27 DEF RenameBack
  <2>5. disk' \in Entry
    BY <1>27 DEF RenameBack
  <2>6. bad' \in BOOLEAN /\ recovering' \in BOOLEAN /\ doubt' \in BOOLEAN
    BY <1>27 DEF RenameBack
  <2>7. faults' \in 0..MaxFaults /\ crashes' \in 0..MaxCrashes
    BY <1>27 DEF RenameBack
  <2> QED BY <2>1, <2>2, <2>3, <2>4, <2>5, <2>6, <2>7
<1>28. ASSUME RestartOld PROVE TypeOK'
  <2>1. slot' \in [Roots -> Slots]
    BY <1>28 DEF RestartOld
  <2>2. oldc' \in [Containers -> Olds]
    <3>1. pc.item \in Containers
      BY <1>28 DEF RestartOld
    <3>2. oldc \in [Containers -> Olds]
      OBVIOUS
    <3>3. oldc' = oldc \/ oldc' = [oldc EXCEPT ![pc.item].run = TRUE]
      BY <1>28 DEF RestartOld
    <3> HIDE DEF TypeOK, PcOK, Olds
    <3>4. oldc' \in [Containers -> Olds]
      <4>1. PICK c \in Containers : oldc' = oldc \/ oldc' = [oldc EXCEPT ![c].run = TRUE]
        BY <3>1, <3>3
      <4>2. [oldc EXCEPT ![c].run = TRUE] \in [Containers -> Olds]
        BY <3>2, OldUpdates
      <4> QED BY <3>2, <4>1, <4>2
    <3> QED BY <3>4
  <2>3. /\ newc' \in [Containers -> {"none", "created", "running"}]
        /\ made' \subseteq Volumes \cup Networks
    BY <1>28 DEF RestartOld
  <2>4. mem' \in Entry
    BY <1>28 DEF RestartOld
  <2>5. disk' \in Entry
    BY <1>28 DEF RestartOld
  <2>6. bad' \in BOOLEAN /\ recovering' \in BOOLEAN /\ doubt' \in BOOLEAN
    BY <1>28 DEF RestartOld
  <2>7. faults' \in 0..MaxFaults /\ crashes' \in 0..MaxCrashes
    BY <1>28 DEF RestartOld
  <2> QED BY <2>1, <2>2, <2>3, <2>4, <2>5, <2>6, <2>7
<1>29. ASSUME DropResource PROVE TypeOK'
  <2>1. slot' \in [Roots -> Slots]
    BY <1>29 DEF DropResource
  <2>2. oldc' \in [Containers -> Olds]
    BY <1>29 DEF DropResource
  <2>3. /\ newc' \in [Containers -> {"none", "created", "running"}]
        /\ made' \subseteq Volumes \cup Networks
    BY <1>29 DEF DropResource
  <2>4. mem' \in Entry
    BY <1>29 DEF DropResource
  <2>5. disk' \in Entry
    BY <1>29 DEF DropResource
  <2>6. bad' \in BOOLEAN /\ recovering' \in BOOLEAN /\ doubt' \in BOOLEAN
    BY <1>29 DEF DropResource
  <2>7. faults' \in 0..MaxFaults /\ crashes' \in 0..MaxCrashes
    BY <1>29 DEF DropResource
  <2> QED BY <2>1, <2>2, <2>3, <2>4, <2>5, <2>6, <2>7
<1>30. ASSUME Settle PROVE TypeOK'
  BY <1>30 DEF Settle
<1>31. ASSUME EndLoop PROVE TypeOK'
  BY <1>31, LoopEnds DEF At, Planned
<1>32. ASSUME Recover PROVE TypeOK'
  BY <1>32 DEF Recover, Pending
<1>33. ASSUME RecoverUnbound PROVE TypeOK'
  BY <1>33 DEF RecoverUnbound, Pending
<1>34. ASSUME Crash PROVE TypeOK'
  <2>1. slot' \in [Roots -> Slots]
    BY <1>34 DEF Crash
  <2>2. oldc' \in [Containers -> Olds]
    BY <1>34 DEF Crash
  <2>3. /\ newc' \in [Containers -> {"none", "created", "running"}]
        /\ made' \subseteq Volumes \cup Networks
    BY <1>34 DEF Crash
  <2>4. mem' \in Entry
    BY <1>34 DEF Crash
  <2>5. disk' \in Entry
    BY <1>34 DEF Crash
  <2>6. bad' \in BOOLEAN /\ recovering' \in BOOLEAN /\ doubt' \in BOOLEAN
    BY <1>34 DEF Crash
  <2>7. faults' \in 0..MaxFaults /\ crashes' \in 0..MaxCrashes
    BY <1>34 DEF Crash
  <2> QED BY <2>1, <2>2, <2>3, <2>4, <2>5, <2>6, <2>7
<1>35. ASSUME UNCHANGED vars PROVE TypeOK'
  BY <1>35, SMTT(30) DEF vars
<1> QED BY <1>1, <1>2, <1>3, <1>4, <1>5, <1>6, <1>7, <1>8, <1>9, <1>10, <1>11,
           <1>12, <1>13, <1>14, <1>15, <1>16, <1>17, <1>18, <1>19, <1>20,
           <1>21, <1>22, <1>23, <1>24, <1>25, <1>26, <1>27, <1>28, <1>29,
           <1>30, <1>31, <1>32, <1>33, <1>34, <1>35 DEF Next, Work

\* The journal: what a step intends is written before the step, and a crash
\* leaves what is written.
LEMMA JournalStep ==
    ASSUME TypeOK, PcOK, JournalOK, [Next]_vars
    PROVE  JournalOK'
<1> USE SetAssumption, NoneAssumption, BoundAssumption DEF TypeOK, PcOK, Entry,
      Absent, JournalOK, Ahead, Committed, Forwards, Cleanups, Backwards,
      Preparing, Retiring, Moving, AtRoot, Creating
<1> USE DEF At, On, Idle, Quiet, host, Spend, Outcomes, Forward, Write, Undo,
      Record, Cleaning, Onward
<1>1. ASSUME Restore PROVE JournalOK'
  BY <1>1 DEF Restore
<1>2. ASSUME Intend PROVE JournalOK'
  BY <1>2 DEF Intend
<1>3. ASSUME Make PROVE JournalOK'
  BY <1>3 DEF Make
<1>4. ASSUME Plan PROVE JournalOK'
  BY <1>4 DEF Plan
<1>5. ASSUME CreateWorkspace PROVE JournalOK'
  BY <1>5 DEF CreateWorkspace
<1>6. ASSUME StopOld PROVE JournalOK'
  BY <1>6 DEF StopOld
<1>7. ASSUME RenameOld PROVE JournalOK'
  BY <1>7 DEF RenameOld
<1>8. ASSUME Stage PROVE JournalOK'
  BY <1>8 DEF Stage
<1>9. ASSUME Identify PROVE JournalOK'
  BY <1>9 DEF Identify
<1>10. ASSUME Retain PROVE JournalOK'
  BY <1>10 DEF Retain
<1>11. ASSUME Mark PROVE JournalOK'
  BY <1>11 DEF Mark
<1>12. ASSUME Publish PROVE JournalOK'
  BY <1>12 DEF Publish
<1>13. ASSUME CreateNew PROVE JournalOK'
  BY <1>13 DEF CreateNew
<1>14. ASSUME RecordNew PROVE JournalOK'
  BY <1>14 DEF RecordNew
<1>15. ASSUME StartNew PROVE JournalOK'
  BY <1>15 DEF StartNew
<1>16. ASSUME Unhealthy PROVE JournalOK'
  BY <1>16 DEF Unhealthy
<1>17. ASSUME Commit PROVE JournalOK'
  BY <1>17 DEF Commit, Clean
<1>18. ASSUME DeleteOld PROVE JournalOK'
  BY <1>18 DEF DeleteOld
<1>19. ASSUME RemovePrevious PROVE JournalOK'
  BY <1>19 DEF RemovePrevious
<1>20. ASSUME Complete PROVE JournalOK'
  BY <1>20 DEF Complete
<1>21. ASSUME Keep PROVE JournalOK'
  BY <1>21 DEF Keep
<1>22. ASSUME Resolve PROVE JournalOK'
  BY <1>22 DEF Resolve, Planned
<1>23. ASSUME RemoveNew PROVE JournalOK'
  BY <1>23 DEF RemoveNew
<1>24. ASSUME PickRoot PROVE JournalOK'
  BY <1>24 DEF PickRoot
<1>25. ASSUME BackStep PROVE JournalOK'
  BY <1>25 DEF BackStep, Moved
<1>26. ASSUME BackEnds PROVE JournalOK'
  BY <1>26 DEF BackEnds
<1>27. ASSUME RenameBack PROVE JournalOK'
  BY <1>27 DEF RenameBack
<1>28. ASSUME RestartOld PROVE JournalOK'
  BY <1>28 DEF RestartOld
<1>29. ASSUME DropResource PROVE JournalOK'
  BY <1>29 DEF DropResource
<1>30. ASSUME Settle PROVE JournalOK'
  BY <1>30 DEF Settle
<1>31. ASSUME EndLoop PROVE JournalOK'
  <2>1. CASE pc.at = "space"
    <3>1. pc' = At("retire", HasOld) /\ pc.left = {} /\ UNCHANGED <<mem, disk, doubt>>
      BY <1>31, <2>1, LoopEnds
    <3>2. disk.space = Roots BY <2>1, <3>1
    <3> QED BY <2>1, <3>1, <3>2, SMTT(30) DEF At, Idle
  <2>2. CASE pc.at # "space"
    BY <1>31, <2>2, LoopEnds DEF At, Idle, Planned
  <2> QED BY <2>1, <2>2
<1>32. ASSUME Recover PROVE JournalOK'
  BY <1>32 DEF Recover, Pending
<1>33. ASSUME RecoverUnbound PROVE JournalOK'
  BY <1>33 DEF RecoverUnbound, Pending
<1>34. ASSUME Crash PROVE JournalOK'
  BY <1>34 DEF Crash
<1>35. ASSUME UNCHANGED vars PROVE JournalOK'
  BY <1>35, SMTT(30) DEF vars
<1> QED BY <1>1, <1>2, <1>3, <1>4, <1>5, <1>6, <1>7, <1>8, <1>9, <1>10, <1>11,
           <1>12, <1>13, <1>14, <1>15, <1>16, <1>17, <1>18, <1>19, <1>20,
           <1>21, <1>22, <1>23, <1>24, <1>25, <1>26, <1>27, <1>28, <1>29,
           <1>30, <1>31, <1>32, <1>33, <1>34, <1>35 DEF Next, Work

\* What the journal does not know of is untouched: every change of the host is
\* preceded by its entry.
LEMMA TouchStep ==
    ASSUME IInv, [Next]_vars
    PROVE  TouchOK'
<1> USE SetAssumption, NoneAssumption, BoundAssumption DEF IInv, TypeOK, PcOK,
      Entry, Absent, JournalOK, Ahead, Committed, TouchOK, Forwards, Cleanups,
      Backwards, Preparing, Retiring, Moving, AtRoot, Creating, Untouched,
      SlotsBefore, OldsBefore, NoneNew, SlotBefore, OldBefore
<1> USE DEF At, On, Idle, Quiet, host, Spend, Outcomes, Forward, Write, Undo,
      Record, Cleaning, Onward
<1>1. ASSUME Restore PROVE TouchOK'
  BY <1>1 DEF Restore
<1>2. ASSUME Intend PROVE TouchOK'
  BY <1>2 DEF Intend
<1>3. ASSUME Make PROVE TouchOK'
  BY <1>3 DEF Make
<1>4. ASSUME Plan PROVE TouchOK'
  BY <1>4 DEF Plan
<1>5. ASSUME CreateWorkspace PROVE TouchOK'
  BY <1>5 DEF CreateWorkspace
<1>6. ASSUME StopOld PROVE TouchOK'
  BY <1>6 DEF StopOld
<1>7. ASSUME RenameOld PROVE TouchOK'
  BY <1>7 DEF RenameOld
<1>8. ASSUME Stage PROVE TouchOK'
  BY <1>8 DEF Stage
<1>9. ASSUME Identify PROVE TouchOK'
  BY <1>9 DEF Identify
<1>10. ASSUME Retain PROVE TouchOK'
  BY <1>10 DEF Retain
<1>11. ASSUME Mark PROVE TouchOK'
  BY <1>11 DEF Mark
<1>12. ASSUME Publish PROVE TouchOK'
  BY <1>12 DEF Publish
<1>13. ASSUME CreateNew PROVE TouchOK'
  BY <1>13 DEF CreateNew
<1>14. ASSUME RecordNew PROVE TouchOK'
  BY <1>14 DEF RecordNew
<1>15. ASSUME StartNew PROVE TouchOK'
  BY <1>15 DEF StartNew
<1>16. ASSUME Unhealthy PROVE TouchOK'
  BY <1>16 DEF Unhealthy
<1>17. ASSUME Commit PROVE TouchOK'
  BY <1>17 DEF Commit, Clean
<1>18. ASSUME DeleteOld PROVE TouchOK'
  BY <1>18 DEF DeleteOld
<1>19. ASSUME RemovePrevious PROVE TouchOK'
  BY <1>19 DEF RemovePrevious
<1>20. ASSUME Complete PROVE TouchOK'
  BY <1>20 DEF Complete
<1>21. ASSUME Keep PROVE TouchOK'
  BY <1>21 DEF Keep
<1>22. ASSUME Resolve PROVE TouchOK'
  BY <1>22 DEF Resolve, Planned
<1>23. ASSUME RemoveNew PROVE TouchOK'
  BY <1>23 DEF RemoveNew
<1>24. ASSUME PickRoot PROVE TouchOK'
  BY <1>24 DEF PickRoot
<1>25. ASSUME BackStep PROVE TouchOK'
  <2>1. ~Untouched
    BY <1>25, BackMoves
  <2>2. disk' = disk /\ made' = made
    BY <1>25, BackMoves
  <2>3. pc'.at \in {"back", "backing"}
    BY <1>25, BackMoves
  <2> QED BY <2>1, <2>2, <2>3
<1>26. ASSUME BackEnds PROVE TouchOK'
  BY <1>26 DEF BackEnds
<1>27. ASSUME RenameBack PROVE TouchOK'
  BY <1>27 DEF RenameBack
<1>28. ASSUME RestartOld PROVE TouchOK'
  <2>1. disk' = disk /\ made' = made /\ slot' = slot /\ newc' = newc
    BY <1>28 DEF RestartOld
  <2>2. pc'.at \in {"return", "settle"}
    BY <1>28 DEF RestartOld, Onward, At
  <2>3. ASSUME Untouched PROVE oldc' = oldc
    <3>1. /\ pc.item \in Containers /\ pc.item \in OldRunning
          /\ oldc[pc.item] = OldBefore(pc.item)
      BY <1>28, <2>3 DEF RestartOld
    <3>2. [oldc EXCEPT ![pc.item].run = TRUE] = oldc
      <4> DEFINE o == oldc[pc.item]
      <4>1. o \in [there : BOOLEAN, name : {"own", "previous"}, run : BOOLEAN] /\ o.run = TRUE
        BY <3>1
      <4>2. [o EXCEPT !.run = TRUE] = o
        <5> HIDE DEF o
        <5> QED BY <4>1
      <4> QED BY <3>1, <4>2
    <3> QED BY <1>28, <3>2 DEF RestartOld
  <2>4. Untouched => Untouched'
    BY <2>1, <2>3
  <2> QED
    <3> HIDE DEF Untouched
    <3> QED BY <2>1, <2>2, <2>4
<1>29. ASSUME DropResource PROVE TouchOK'
  BY <1>29 DEF DropResource
<1>30. ASSUME Settle PROVE TouchOK'
  BY <1>30 DEF Settle
<1>31. ASSUME EndLoop PROVE TouchOK'
  BY <1>31, LoopEnds DEF At, Planned
<1>32. ASSUME Recover PROVE TouchOK'
  BY <1>32 DEF Recover, Pending
<1>33. ASSUME RecoverUnbound PROVE TouchOK'
  BY <1>33, SMTT(30) DEF RecoverUnbound, Pending
<1>34. ASSUME Crash PROVE TouchOK'
  BY <1>34 DEF Crash
<1>35. ASSUME UNCHANGED vars PROVE TouchOK'
  BY <1>35, SMTT(30) DEF vars
<1> QED BY <1>1, <1>2, <1>3, <1>4, <1>5, <1>6, <1>7, <1>8, <1>9, <1>10, <1>11,
           <1>12, <1>13, <1>14, <1>15, <1>16, <1>17, <1>18, <1>19, <1>20,
           <1>21, <1>22, <1>23, <1>24, <1>25, <1>26, <1>27, <1>28, <1>29,
           <1>30, <1>31, <1>32, <1>33, <1>34, <1>35 DEF Next, Work

\* The old data and containers: a rollback takes away only what is new, and
\* cleaning up comes after the commit.
LEMMA DataStep ==
    ASSUME IInv, [Next]_vars
    PROVE  DataOK'
<1> USE SetAssumption, NoneAssumption, BoundAssumption DEF IInv, TypeOK, PcOK,
      Entry, Absent, JournalOK, Ahead, Committed, TouchOK, DataOK, OldKept,
      Forwards, Cleanups, Backwards, Preparing, Retiring, Moving, AtRoot,
      Creating
<1> USE DEF At, On, Idle, Quiet, host, Spend, Outcomes, Forward, Write, Undo,
      Record, Cleaning, Onward
<1>1. ASSUME Restore PROVE DataOK'
  <2>1. Untouched
    BY <1>1 DEF Restore
  <2>2. slot' = slot /\ oldc' = oldc
    BY <1>1 DEF Restore, host
  <2>3. OldKept /\ \A r \in Roots : slot[r].previous = "none"
    BY <2>1 DEF Untouched, SlotsBefore, OldsBefore, SlotBefore, OldBefore
  <2>4. \A r \in Roots \ HadPrevious : slot[r].target = "none"
    BY <2>1 DEF Untouched, SlotsBefore, SlotBefore
  <2>5. pc' \in {At("volume", Volumes), Idle}
    BY <1>1 DEF Restore
  <2> QED BY <2>2, <2>3, <2>4, <2>5 DEF At, Idle
<1>2. ASSUME Intend PROVE DataOK'
  BY <1>2 DEF Intend
<1>3. ASSUME Make PROVE DataOK'
  BY <1>3 DEF Make
<1>4. ASSUME Plan PROVE DataOK'
  BY <1>4 DEF Plan
<1>5. ASSUME CreateWorkspace PROVE DataOK'
  BY <1>5 DEF CreateWorkspace
<1>6. ASSUME StopOld PROVE DataOK'
  BY <1>6 DEF StopOld
<1>7. ASSUME RenameOld PROVE DataOK'
  BY <1>7 DEF RenameOld
<1>8. ASSUME Stage PROVE DataOK'
  BY <1>8 DEF Stage
<1>9. ASSUME Identify PROVE DataOK'
  BY <1>9 DEF Identify
<1>10. ASSUME Retain PROVE DataOK'
  BY <1>10 DEF Retain
<1>11. ASSUME Mark PROVE DataOK'
  BY <1>11 DEF Mark
<1>12. ASSUME Publish PROVE DataOK'
  BY <1>12 DEF Publish
<1>13. ASSUME CreateNew PROVE DataOK'
  BY <1>13 DEF CreateNew
<1>14. ASSUME RecordNew PROVE DataOK'
  BY <1>14 DEF RecordNew
<1>15. ASSUME StartNew PROVE DataOK'
  BY <1>15 DEF StartNew
<1>16. ASSUME Unhealthy PROVE DataOK'
  BY <1>16 DEF Unhealthy
<1>17. ASSUME Commit PROVE DataOK'
  BY <1>17 DEF Commit, Clean
<1>18. ASSUME DeleteOld PROVE DataOK'
  BY <1>18 DEF DeleteOld
<1>19. ASSUME RemovePrevious PROVE DataOK'
  BY <1>19 DEF RemovePrevious
<1>20. ASSUME Complete PROVE DataOK'
  BY <1>20 DEF Complete
<1>21. ASSUME Keep PROVE DataOK'
  BY <1>21 DEF Keep
<1>22. ASSUME Resolve PROVE DataOK'
  BY <1>22 DEF Resolve, Planned
<1>23. ASSUME RemoveNew PROVE DataOK'
  BY <1>23 DEF RemoveNew
<1>24. ASSUME PickRoot PROVE DataOK'
  BY <1>24 DEF PickRoot
<1>25. ASSUME BackStep PROVE DataOK'
  <2>1. /\ disk' = disk /\ oldc' = oldc
        /\ pc.at = "backing" /\ pc'.at \in {"back", "backing"}
    BY <1>25, BackMoves
  <2>2. pc.item \in Roots /\ \A r \in Roots \ {pc.item} : slot'[r] = slot[r]
    BY <1>25, BackMoves
  <2>3. Tidied(pc.item) \/ Captured(pc.item) \/ PutBack(pc.item)
    BY <1>25, BackMoves
  <2> QED BY <2>1, <2>2, <2>3 DEF Tidied, Captured, PutBack
<1>26. ASSUME BackEnds PROVE DataOK'
  BY <1>26 DEF BackEnds
<1>27. ASSUME RenameBack PROVE DataOK'
  BY <1>27 DEF RenameBack
<1>28. ASSUME RestartOld PROVE DataOK'
  BY <1>28 DEF RestartOld
<1>29. ASSUME DropResource PROVE DataOK'
  BY <1>29 DEF DropResource
<1>30. ASSUME Settle PROVE DataOK'
  BY <1>30 DEF Settle
<1>31. ASSUME EndLoop PROVE DataOK'
  BY <1>31, LoopEnds DEF At, Planned
<1>32. ASSUME Recover PROVE DataOK'
  BY <1>32 DEF Recover, Pending
<1>33. ASSUME RecoverUnbound PROVE DataOK'
  BY <1>33 DEF RecoverUnbound, Pending
<1>34. ASSUME Crash PROVE DataOK'
  BY <1>34 DEF Crash
<1>35. ASSUME UNCHANGED vars PROVE DataOK'
  BY <1>35, SMTT(30) DEF vars
<1> QED BY <1>1, <1>2, <1>3, <1>4, <1>5, <1>6, <1>7, <1>8, <1>9, <1>10, <1>11,
           <1>12, <1>13, <1>14, <1>15, <1>16, <1>17, <1>18, <1>19, <1>20,
           <1>21, <1>22, <1>23, <1>24, <1>25, <1>26, <1>27, <1>28, <1>29,
           <1>30, <1>31, <1>32, <1>33, <1>34, <1>35 DEF Next, Work

\* The order of the way forward.
LEMMA OrderStep ==
    ASSUME IInv, [Next]_vars
    PROVE  OrderOK'
<1> USE SetAssumption, NoneAssumption, BoundAssumption DEF IInv, TypeOK, PcOK,
      Entry, Absent, JournalOK, Ahead, Committed, TouchOK, DataOK, OrderOK,
      OldQuiet, NoneRuns, Published, NewData, Restored, Forwards, Cleanups,
      Backwards, Preparing, Retiring, Moving, AtRoot, Creating, Untouched,
      SlotsBefore, OldsBefore, NoneNew, SlotBefore, OldBefore
<1> USE DEF At, On, Idle, Quiet, host, Spend, Outcomes, Forward, Write, Undo,
      Record, Cleaning, Onward
<1>1. ASSUME Restore PROVE OrderOK'
  BY <1>1 DEF Restore
<1>2. ASSUME Intend PROVE OrderOK'
  BY <1>2 DEF Intend
<1>3. ASSUME Make PROVE OrderOK'
  BY <1>3 DEF Make
<1>4. ASSUME Plan PROVE OrderOK'
  BY <1>4 DEF Plan
<1>5. ASSUME CreateWorkspace PROVE OrderOK'
  BY <1>5 DEF CreateWorkspace
<1>6. ASSUME StopOld PROVE OrderOK'
  BY <1>6 DEF StopOld
<1>7. ASSUME RenameOld PROVE OrderOK'
  BY <1>7 DEF RenameOld
<1>8. ASSUME Stage PROVE OrderOK'
  BY <1>8 DEF Stage
<1>9. ASSUME Identify PROVE OrderOK'
  BY <1>9 DEF Identify
<1>10. ASSUME Retain PROVE OrderOK'
  BY <1>10 DEF Retain
<1>11. ASSUME Mark PROVE OrderOK'
  BY <1>11 DEF Mark
<1>12. ASSUME Publish PROVE OrderOK'
  BY <1>12 DEF Publish
<1>13. ASSUME CreateNew PROVE OrderOK'
  BY <1>13 DEF CreateNew
<1>14. ASSUME RecordNew PROVE OrderOK'
  BY <1>14 DEF RecordNew
<1>15. ASSUME StartNew PROVE OrderOK'
  BY <1>15 DEF StartNew
<1>16. ASSUME Unhealthy PROVE OrderOK'
  BY <1>16 DEF Unhealthy
<1>17. ASSUME Commit PROVE OrderOK'
  BY <1>17 DEF Commit, Clean
<1>18. ASSUME DeleteOld PROVE OrderOK'
  BY <1>18, SMTT(60) DEF DeleteOld
<1>19. ASSUME RemovePrevious PROVE OrderOK'
  BY <1>19 DEF RemovePrevious
<1>20. ASSUME Complete PROVE OrderOK'
  BY <1>20 DEF Complete
<1>21. ASSUME Keep PROVE OrderOK'
  BY <1>21 DEF Keep
<1>22. ASSUME Resolve PROVE OrderOK'
  BY <1>22 DEF Resolve, Planned
<1>23. ASSUME RemoveNew PROVE OrderOK'
  BY <1>23 DEF RemoveNew
<1>24. ASSUME PickRoot PROVE OrderOK'
  BY <1>24 DEF PickRoot
<1>25. ASSUME BackStep PROVE OrderOK'
  BY <1>25 DEF BackStep, Moved
<1>26. ASSUME BackEnds PROVE OrderOK'
  BY <1>26 DEF BackEnds
<1>27. ASSUME RenameBack PROVE OrderOK'
  BY <1>27 DEF RenameBack
<1>28. ASSUME RestartOld PROVE OrderOK'
  BY <1>28 DEF RestartOld
<1>29. ASSUME DropResource PROVE OrderOK'
  BY <1>29 DEF DropResource
<1>30. ASSUME Settle PROVE OrderOK'
  BY <1>30 DEF Settle
<1>31. ASSUME EndLoop PROVE OrderOK'
  BY <1>31, LoopEnds DEF At, Planned
<1>32. ASSUME Recover PROVE OrderOK'
  BY <1>32 DEF Recover, Pending
<1>33. ASSUME RecoverUnbound PROVE OrderOK'
  BY <1>33 DEF RecoverUnbound, Pending
<1>34. ASSUME Crash PROVE OrderOK'
  BY <1>34 DEF Crash
<1>35. ASSUME UNCHANGED vars PROVE OrderOK'
  BY <1>35, SMTT(30) DEF vars
<1> QED BY <1>1, <1>2, <1>3, <1>4, <1>5, <1>6, <1>7, <1>8, <1>9, <1>10, <1>11,
           <1>12, <1>13, <1>14, <1>15, <1>16, <1>17, <1>18, <1>19, <1>20,
           <1>21, <1>22, <1>23, <1>24, <1>25, <1>26, <1>27, <1>28, <1>29,
           <1>30, <1>31, <1>32, <1>33, <1>34, <1>35 DEF Next, Work

\* The order of the way back.
LEMMA UndoStep ==
    ASSUME IInv, [Next]_vars
    PROVE  UndoOK'
<1> USE SetAssumption, NoneAssumption, BoundAssumption DEF IInv, TypeOK, PcOK,
      Entry, Absent, JournalOK, Ahead, Committed, DataOK, UndoOK, AsBefore,
      OldData, NoneRuns, OldBefore, Forwards, Cleanups, Backwards, Preparing,
      Retiring, Moving, AtRoot, Creating
<1> USE DEF At, On, Idle, Quiet, host, Spend, Outcomes, Forward, Write, Undo,
      Record, Cleaning, Onward
<1>1. ASSUME Restore PROVE UndoOK'
  BY <1>1 DEF Restore
<1>2. ASSUME Intend PROVE UndoOK'
  BY <1>2 DEF Intend
<1>3. ASSUME Make PROVE UndoOK'
  BY <1>3 DEF Make
<1>4. ASSUME Plan PROVE UndoOK'
  BY <1>4 DEF Plan
<1>5. ASSUME CreateWorkspace PROVE UndoOK'
  BY <1>5 DEF CreateWorkspace
<1>6. ASSUME StopOld PROVE UndoOK'
  BY <1>6 DEF StopOld
<1>7. ASSUME RenameOld PROVE UndoOK'
  BY <1>7 DEF RenameOld
<1>8. ASSUME Stage PROVE UndoOK'
  BY <1>8 DEF Stage
<1>9. ASSUME Identify PROVE UndoOK'
  BY <1>9 DEF Identify
<1>10. ASSUME Retain PROVE UndoOK'
  BY <1>10 DEF Retain
<1>11. ASSUME Mark PROVE UndoOK'
  BY <1>11 DEF Mark
<1>12. ASSUME Publish PROVE UndoOK'
  BY <1>12 DEF Publish
<1>13. ASSUME CreateNew PROVE UndoOK'
  BY <1>13 DEF CreateNew
<1>14. ASSUME RecordNew PROVE UndoOK'
  BY <1>14 DEF RecordNew
<1>15. ASSUME StartNew PROVE UndoOK'
  BY <1>15 DEF StartNew
<1>16. ASSUME Unhealthy PROVE UndoOK'
  BY <1>16 DEF Unhealthy
<1>17. ASSUME Commit PROVE UndoOK'
  BY <1>17 DEF Commit, Clean
<1>18. ASSUME DeleteOld PROVE UndoOK'
  BY <1>18 DEF DeleteOld
<1>19. ASSUME RemovePrevious PROVE UndoOK'
  BY <1>19 DEF RemovePrevious
<1>20. ASSUME Complete PROVE UndoOK'
  BY <1>20 DEF Complete
<1>21. ASSUME Keep PROVE UndoOK'
  BY <1>21 DEF Keep
<1>22. ASSUME Resolve PROVE UndoOK'
  BY <1>22 DEF Resolve, Planned
<1>23. ASSUME RemoveNew PROVE UndoOK'
  <2>1. PICK c \in pc.left, o \in Outcomes :
          /\ newc' = IF o = "refused" THEN newc ELSE [newc EXCEPT ![c] = "none"]
          /\ Onward(o, At("remove", pc.left \ {c}))
    BY <1>23 DEF RemoveNew
  <2>2. pc.at = "remove" /\ mem' = mem /\ c \in Containers
    BY <1>23, <2>1 DEF RemoveNew
  <2>3. pc' = At("remove", pc.left \ {c}) /\ (~bad' => ~bad /\ o = "ok")
    BY <2>1, NoErrorSoFar
  <2>4. pc'.at = "remove" /\ pc'.left = pc.left \ {c}
    BY <2>3 DEF At
  <2>5. ~bad' => \A x \in mem'.ids \ pc'.left : newc'[x] = "none"
    <3>1. ~bad => \A x \in mem.ids \ pc.left : newc[x] = "none"
      BY <2>2
    <3>2. /\ mem.ids \subseteq Containers
          /\ newc \in [Containers -> {"none", "created", "running"}]
      OBVIOUS
    <3> HIDE DEF IInv, TypeOK, PcOK, JournalOK, DataOK, OrderOK, UndoOK
    <3> QED BY <2>1, <2>2, <2>3, <2>4, <3>1, <3>2
  <2>6. OrderOK => UndoOK'
    BY <2>4, <2>5
  <2> QED BY <2>6
<1>24. ASSUME PickRoot PROVE UndoOK'
  BY <1>24 DEF PickRoot
<1>25. ASSUME BackStep PROVE UndoOK'
  <2>1. NoneRuns /\ newc' = newc /\ pc.at = "backing" /\ pc.item \in Roots
    BY <1>25, BackMoves
  <2>2. \A r \in Roots \ {pc.item} : slot'[r] = slot[r]
    BY <1>25, BackMoves
  <2>3. CASE pc' = pc /\ bad' = bad
    BY <2>1, <2>2, <2>3
  <2>4. CASE pc' = At("back", pc.left) /\ bad' = TRUE
    BY <2>1, <2>4 DEF At
  <2> QED BY <1>25, <2>3, <2>4, BackMoves
<1>26. ASSUME BackEnds PROVE UndoOK'
  <2>1. pc.at = "backing" /\ pc' = At("back", pc.left) /\ UNCHANGED <<slot, newc>>
    BY <1>26 DEF BackEnds, host
  <2>2. pc'.at = "back" /\ pc'.left = pc.left
    BY <2>1 DEF At
  <2>3. ~bad' => ~bad /\ Undone(pc.item) = "done"
    BY <1>26 DEF BackEnds
  <2>4. ~bad' => AsBefore(pc.item)
    <3>1. pc.item \in Roots /\ pc.at \in Backwards
      BY <2>1
    <3> HIDE DEF AsBefore, IInv, Backwards
    <3> QED BY <2>3, <3>1, DoneIsBefore
  <2> QED BY <2>1, <2>2, <2>3, <2>4
<1>27. ASSUME RenameBack PROVE UndoOK'
  <2>1. pc.at = "return" /\ UNCHANGED <<slot, newc>>
    BY <1>27 DEF RenameBack
  <2>2. PICK c \in pc.left :
          \/ bad' = TRUE /\ pc' = At("return", pc.left \ {c})
          \/ \E o \in Outcomes :
               /\ oldc[c].there
               /\ oldc' = IF o = "refused" THEN oldc ELSE [oldc EXCEPT ![c].name = "own"]
               /\ Onward(o, IF o = "ok" /\ c \in OldRunning THEN On("restart", c)
                            ELSE At("return", pc.left \ {c}))
    BY <1>27 DEF RenameBack
  <2>3. CASE bad' = TRUE /\ pc' = At("return", pc.left \ {c})
    BY <2>1, <2>3 DEF At
  <2>4. ASSUME NEW o \in Outcomes, oldc[c].there,
               oldc' = IF o = "refused" THEN oldc ELSE [oldc EXCEPT ![c].name = "own"],
               Onward(o, IF o = "ok" /\ c \in OldRunning THEN On("restart", c)
                         ELSE At("return", pc.left \ {c}))
        PROVE  UndoOK'
    <3>1. /\ pc' = IF o = "ok" /\ c \in OldRunning THEN On("restart", c)
                   ELSE At("return", pc.left \ {c})
          /\ ~bad' => ~bad /\ o = "ok"
      BY <2>4, NoErrorSoFar
    <3>2. c \in HasOld /\ c \in Containers
      BY <2>1, <2>2
    <3>3. ASSUME o = "ok"
          PROVE  /\ \A x \in Containers \ {c} : oldc'[x] = oldc[x]
                 /\ oldc'[c].name = "own"
                 /\ c \notin OldRunning => oldc'[c] = OldBefore(c)
      BY <2>4, <3>2, <3>3 DEF OrderOK
    <3>4. CASE o = "ok" /\ c \in OldRunning
      <4>1. pc'.at = "restart" /\ pc'.left = pc.left \ {c} /\ pc'.item = c
        BY <3>1, <3>4 DEF On
      <4> QED BY <2>1, <3>1, <3>2, <3>3, <3>4, <4>1
    <3>5. CASE ~(o = "ok" /\ c \in OldRunning)
      <4>1. pc'.at = "return" /\ pc'.left = pc.left \ {c}
        BY <3>1, <3>5 DEF At
      <4>2. ~bad' => \A x \in HasOld \ pc'.left : oldc'[x] = OldBefore(x)
        <5>1. ~bad => \A x \in HasOld \ pc.left : oldc[x] = OldBefore(x)
          BY <2>1
        <5> HIDE DEF IInv, TypeOK, PcOK, JournalOK, DataOK, OrderOK, UndoOK
        <5> HIDE DEF OldBefore
        <5> QED BY <3>1, <3>2, <3>3, <3>5, <4>1, <5>1
      <4> QED BY <2>1, <3>1, <4>1, <4>2
    <3> QED BY <3>4, <3>5
  <2> QED BY <2>2, <2>3, <2>4
<1>28. ASSUME RestartOld PROVE UndoOK'
  <2>0. pc.at = "restart" /\ UNCHANGED <<slot, newc>>
    BY <1>28 DEF RestartOld
  <2>1. pc.item \in OldRunning /\ pc.item \in HasOld /\ oldc[pc.item].there
    <3>1. pc.item \in OldRunning
      BY <2>0
    <3>2. pc.item \in HasOld
      BY <3>1
    <3>3. OldKept
      BY <2>0
    <3> QED BY <3>1, <3>2, <3>3 DEF OldKept
  <2>2. PICK o \in Outcomes :
          /\ oldc' = IF o = "refused" THEN oldc ELSE [oldc EXCEPT ![pc.item].run = TRUE]
          /\ \/ Onward(o, At("return", pc.left))
             \/ o = "refused" /\ Onward(o, At("settle", {}))
    BY <1>28 DEF RestartOld
  <2>3. /\ ~bad' => ~bad /\ o = "ok"
        /\ \/ pc' = At("return", pc.left)
           \/ o = "refused" /\ pc' = At("settle", {})
    BY <2>2, NoErrorSoFar
  <2>4. ASSUME o = "ok"
        PROVE  /\ \A x \in Containers \ {pc.item} : oldc'[x] = oldc[x]
               /\ oldc[pc.item].name = "own" => oldc'[pc.item] = OldBefore(pc.item)
    <3> DEFINE c == pc.item
    <3>1. oldc' = [oldc EXCEPT ![c].run = TRUE]
      BY <2>2, <2>4
    <3>2. c \in Containers /\ c \in HasOld /\ c \in OldRunning /\ oldc[c].there
      BY <2>1
    <3>3. oldc \in [Containers -> Olds]
      BY DEF Olds
    <3> HIDE DEF c, IInv, TypeOK, PcOK, JournalOK, DataOK, OrderOK, UndoOK
    <3>4. oldc[c].name = "own" => oldc'[c] = OldBefore(c)
      BY <3>1, <3>2, <3>3 DEF Olds
    <3>5. \A x \in Containers \ {c} : oldc'[x] = oldc[x]
      BY <3>1, <3>2, <3>3
    <3> QED BY <3>4, <3>5 DEF c
  <2>5. CASE pc' = At("return", pc.left)
    <3>1. pc'.at = "return" /\ pc'.left = pc.left
      BY <2>5 DEF At
    <3> QED BY <2>0, <2>1, <2>3, <2>4, <3>1
  <2>6. CASE o = "refused" /\ pc' = At("settle", {})
    <3>1. pc'.at = "settle" /\ bad'
      BY <2>3, <2>6 DEF At
    <3> QED BY <3>1
  <2> QED BY <2>3, <2>5, <2>6
<1>29. ASSUME DropResource PROVE UndoOK'
  <2>1. pc.at = "drop" /\ UNCHANGED <<slot, oldc, newc>>
    BY <1>29 DEF DropResource
  <2>2. PICK x \in pc.left :
          \/ bad' = TRUE /\ pc' = At("drop", pc.left \ {x})
          \/ \E o \in Outcomes :
               /\ made' = IF o = "refused" THEN made ELSE made \ {x}
               /\ Onward(o, At("drop", pc.left \ {x}))
    BY <1>29 DEF DropResource
  <2>3. /\ pc' = At("drop", pc.left \ {x})
        /\ ~bad' => ~bad /\ made' = made \ {x}
    <3>1. bad \in BOOLEAN
      OBVIOUS
    <3> HIDE DEF IInv, TypeOK, PcOK, JournalOK, DataOK, OrderOK, UndoOK
    <3> QED BY <2>2, <3>1, NoErrorSoFar
  <2>4. pc'.at = "drop" /\ pc'.left = pc.left \ {x}
    BY <2>3 DEF At
  <2> QED BY <2>1, <2>3, <2>4
<1>30. ASSUME Settle PROVE UndoOK'
  BY <1>30 DEF Settle
<1>31. ASSUME EndLoop PROVE UndoOK'
  <2>1. UNCHANGED <<slot, oldc, newc, made, mem, disk, bad>> /\ pc.left = {}
    BY <1>31, LoopEnds
  <2>2. pc'.at \in {"back", "return", "drop", "settle"} \/ pc'.at \notin Backwards
    BY <1>31, LoopEnds DEF At
  <2>3. ~mem.planned /\ pc.at \in Backwards => Untouched
    BY DEF TouchOK, Idle, At
  <2>4. pc'.at = "back" => /\ pc.at = "remove" /\ ~bad
                           /\ pc'.left = IF mem.planned THEN Roots ELSE {}
    BY <1>31, UndoLoopEnds
  <2>5. pc'.at = "return" => /\ pc.at = "back" /\ ~bad
                             /\ pc'.left = IF mem.planned THEN HasOld ELSE {}
    BY <1>31, UndoLoopEnds
  <2>6. pc'.at = "drop" => pc.at = "return" /\ pc'.left = mem.res
    BY <1>31, UndoLoopEnds
  <2>7. pc'.at = "settle" => pc.at = "drop" \/ bad
    BY <1>31, UndoLoopEnds
  <2>8. CASE pc'.at = "back"
    <3>1. NoneRuns
      BY <2>1, <2>4, <2>8 DEF OrderOK, Idle, At
    <3>2. ~mem.planned => \A r \in Roots : AsBefore(r)
      BY <2>3, <2>4, <2>8 DEF Untouched, SlotsBefore, SlotBefore
    <3> QED BY <2>1, <2>4, <2>8, <3>1, <3>2
  <2>9. CASE pc'.at = "return"
    <3>1. ~mem.planned => \A c \in HasOld : oldc[c] = OldBefore(c)
      BY <2>3, <2>5, <2>9 DEF Untouched, OldsBefore
    <3> QED BY <2>1, <2>5, <2>9, <3>1
  <2>10. CASE pc'.at = "drop"
    <3>1. made \subseteq mem.res
      BY <2>6, <2>10 DEF TouchOK, Idle, At
    <3> QED BY <2>1, <2>6, <2>10, <3>1
  <2>11. CASE pc'.at = "settle"
    BY <2>1, <2>7, <2>11
  <2>12. CASE pc'.at \notin Backwards
    BY <2>12
  <2> QED BY <2>2, <2>8, <2>9, <2>10, <2>11, <2>12
<1>32. ASSUME Recover PROVE UndoOK'
  BY <1>32 DEF Recover, Pending
<1>33. ASSUME RecoverUnbound PROVE UndoOK'
  BY <1>33 DEF RecoverUnbound, Pending
<1>34. ASSUME Crash PROVE UndoOK'
  BY <1>34 DEF Crash
<1>35. ASSUME UNCHANGED vars PROVE UndoOK'
  BY <1>35, SMTT(30) DEF vars
<1> QED BY <1>1, <1>2, <1>3, <1>4, <1>5, <1>6, <1>7, <1>8, <1>9, <1>10, <1>11,
           <1>12, <1>13, <1>14, <1>15, <1>16, <1>17, <1>18, <1>19, <1>20,
           <1>21, <1>22, <1>23, <1>24, <1>25, <1>26, <1>27, <1>28, <1>29,
           <1>30, <1>31, <1>32, <1>33, <1>34, <1>35 DEF Next, Work

\* Nobody writes to data that moves.
LEMMA WriterStep ==
    ASSUME IInv, [Next]_vars
    PROVE  NoWriterDuringMove'
<1> USE SetAssumption, NoneAssumption, BoundAssumption DEF IInv, TypeOK, PcOK,
      Entry, Absent, JournalOK, Ahead, Committed, DataOK, OrderOK, UndoOK,
      NoWriterDuringMove, OldData, NewData, OldQuiet, NoneNew, NoneRuns,
      Forwards, Cleanups, Backwards, Preparing, Retiring, Moving, AtRoot,
      Creating
<1> USE DEF At, On, Idle, Quiet, host, Spend, Outcomes, Forward, Write, Undo,
      Record, Cleaning, Onward
<1>1. ASSUME Restore PROVE NoWriterDuringMove'
  BY <1>1 DEF Restore
<1>2. ASSUME Intend PROVE NoWriterDuringMove'
  BY <1>2 DEF Intend
<1>3. ASSUME Make PROVE NoWriterDuringMove'
  BY <1>3 DEF Make
<1>4. ASSUME Plan PROVE NoWriterDuringMove'
  BY <1>4 DEF Plan
<1>5. ASSUME CreateWorkspace PROVE NoWriterDuringMove'
  BY <1>5 DEF CreateWorkspace
<1>6. ASSUME StopOld PROVE NoWriterDuringMove'
  BY <1>6 DEF StopOld
<1>7. ASSUME RenameOld PROVE NoWriterDuringMove'
  BY <1>7 DEF RenameOld
<1>8. ASSUME Stage PROVE NoWriterDuringMove'
  BY <1>8 DEF Stage
<1>9. ASSUME Identify PROVE NoWriterDuringMove'
  BY <1>9 DEF Identify
<1>10. ASSUME Retain PROVE NoWriterDuringMove'
  BY <1>10 DEF Retain
<1>11. ASSUME Mark PROVE NoWriterDuringMove'
  BY <1>11 DEF Mark
<1>12. ASSUME Publish PROVE NoWriterDuringMove'
  BY <1>12 DEF Publish
<1>13. ASSUME CreateNew PROVE NoWriterDuringMove'
  BY <1>13 DEF CreateNew
<1>14. ASSUME RecordNew PROVE NoWriterDuringMove'
  BY <1>14 DEF RecordNew
<1>15. ASSUME StartNew PROVE NoWriterDuringMove'
  BY <1>15 DEF StartNew
<1>16. ASSUME Unhealthy PROVE NoWriterDuringMove'
  BY <1>16 DEF Unhealthy
<1>17. ASSUME Commit PROVE NoWriterDuringMove'
  BY <1>17 DEF Commit, Clean
<1>18. ASSUME DeleteOld PROVE NoWriterDuringMove'
  BY <1>18 DEF DeleteOld
<1>19. ASSUME RemovePrevious PROVE NoWriterDuringMove'
  BY <1>19 DEF RemovePrevious
<1>20. ASSUME Complete PROVE NoWriterDuringMove'
  BY <1>20 DEF Complete
<1>21. ASSUME Keep PROVE NoWriterDuringMove'
  BY <1>21 DEF Keep
<1>22. ASSUME Resolve PROVE NoWriterDuringMove'
  BY <1>22 DEF Resolve, Planned
<1>23. ASSUME RemoveNew PROVE NoWriterDuringMove'
  BY <1>23 DEF RemoveNew
<1>24. ASSUME PickRoot PROVE NoWriterDuringMove'
  BY <1>24 DEF PickRoot
<1>25. ASSUME BackStep PROVE NoWriterDuringMove'
  <2>1. NoneRuns /\ newc' = newc /\ oldc' = oldc
    BY <1>25, BackMoves
  <2>2. pc.item \in Roots /\ \A r \in Roots \ {pc.item} : slot'[r] = slot[r]
    BY <1>25, BackMoves
  <2>3. Tidied(pc.item) \/ Captured(pc.item) \/ PutBack(pc.item)
    BY <1>25, BackMoves
  <2>4. OldData => OldData'
    BY <2>2, <2>3 DEF Tidied, Captured, PutBack
  <2> QED BY <2>1, <2>4
<1>26. ASSUME BackEnds PROVE NoWriterDuringMove'
  BY <1>26 DEF BackEnds
<1>27. ASSUME RenameBack PROVE NoWriterDuringMove'
  BY <1>27 DEF RenameBack
<1>28. ASSUME RestartOld PROVE NoWriterDuringMove'
  BY <1>28 DEF RestartOld
<1>29. ASSUME DropResource PROVE NoWriterDuringMove'
  BY <1>29 DEF DropResource
<1>30. ASSUME Settle PROVE NoWriterDuringMove'
  BY <1>30 DEF Settle
<1>31. ASSUME EndLoop PROVE NoWriterDuringMove'
  BY <1>31, LoopEnds DEF At, Planned
<1>32. ASSUME Recover PROVE NoWriterDuringMove'
  BY <1>32 DEF Recover, Pending
<1>33. ASSUME RecoverUnbound PROVE NoWriterDuringMove'
  BY <1>33 DEF RecoverUnbound, Pending
<1>34. ASSUME Crash PROVE NoWriterDuringMove'
  BY <1>34 DEF Crash
<1>35. ASSUME UNCHANGED vars PROVE NoWriterDuringMove'
  BY <1>35, SMTT(30) DEF vars
<1> QED BY <1>1, <1>2, <1>3, <1>4, <1>5, <1>6, <1>7, <1>8, <1>9, <1>10, <1>11,
           <1>12, <1>13, <1>14, <1>15, <1>16, <1>17, <1>18, <1>19, <1>20,
           <1>21, <1>22, <1>23, <1>24, <1>25, <1>26, <1>27, <1>28, <1>29,
           <1>30, <1>31, <1>32, <1>33, <1>34, <1>35 DEF Next, Work

\* What was committed stays in place, unless the commit itself is in doubt.
LEMMA CommittedStep ==
    ASSUME IInv, [Next]_vars
    PROVE  (Committed /\ ~doubt => Restored)'
<1> USE SetAssumption, NoneAssumption, BoundAssumption DEF IInv, TypeOK, PcOK,
      Entry, Absent, JournalOK, Committed, OrderOK, UndoOK, Restored, NewData,
      Forwards, Cleanups, Backwards, Preparing, Retiring, Moving, AtRoot,
      Creating
<1> USE DEF At, On, Idle, Quiet, host, Spend, Outcomes, Forward, Write, Undo,
      Record, Cleaning, Onward
<1>1. ASSUME Restore PROVE (Committed /\ ~doubt => Restored)'
  BY <1>1 DEF Restore
<1>2. ASSUME Intend PROVE (Committed /\ ~doubt => Restored)'
  BY <1>2 DEF Intend
<1>3. ASSUME Make PROVE (Committed /\ ~doubt => Restored)'
  BY <1>3 DEF Make
<1>4. ASSUME Plan PROVE (Committed /\ ~doubt => Restored)'
  BY <1>4 DEF Plan
<1>5. ASSUME CreateWorkspace PROVE (Committed /\ ~doubt => Restored)'
  BY <1>5 DEF CreateWorkspace
<1>6. ASSUME StopOld PROVE (Committed /\ ~doubt => Restored)'
  BY <1>6 DEF StopOld
<1>7. ASSUME RenameOld PROVE (Committed /\ ~doubt => Restored)'
  BY <1>7 DEF RenameOld
<1>8. ASSUME Stage PROVE (Committed /\ ~doubt => Restored)'
  BY <1>8 DEF Stage
<1>9. ASSUME Identify PROVE (Committed /\ ~doubt => Restored)'
  BY <1>9 DEF Identify
<1>10. ASSUME Retain PROVE (Committed /\ ~doubt => Restored)'
  BY <1>10 DEF Retain
<1>11. ASSUME Mark PROVE (Committed /\ ~doubt => Restored)'
  BY <1>11 DEF Mark
<1>12. ASSUME Publish PROVE (Committed /\ ~doubt => Restored)'
  BY <1>12 DEF Publish
<1>13. ASSUME CreateNew PROVE (Committed /\ ~doubt => Restored)'
  BY <1>13 DEF CreateNew
<1>14. ASSUME RecordNew PROVE (Committed /\ ~doubt => Restored)'
  BY <1>14 DEF RecordNew
<1>15. ASSUME StartNew PROVE (Committed /\ ~doubt => Restored)'
  BY <1>15 DEF StartNew
<1>16. ASSUME Unhealthy PROVE (Committed /\ ~doubt => Restored)'
  BY <1>16 DEF Unhealthy
<1>17. ASSUME Commit PROVE (Committed /\ ~doubt => Restored)'
  BY <1>17 DEF Commit, Clean
<1>18. ASSUME DeleteOld PROVE (Committed /\ ~doubt => Restored)'
  BY <1>18 DEF DeleteOld
<1>19. ASSUME RemovePrevious PROVE (Committed /\ ~doubt => Restored)'
  BY <1>19 DEF RemovePrevious
<1>20. ASSUME Complete PROVE (Committed /\ ~doubt => Restored)'
  BY <1>20 DEF Complete
<1>21. ASSUME Keep PROVE (Committed /\ ~doubt => Restored)'
  BY <1>21 DEF Keep
<1>22. ASSUME Resolve PROVE (Committed /\ ~doubt => Restored)'
  BY <1>22 DEF Resolve, Planned
<1>23. ASSUME RemoveNew PROVE (Committed /\ ~doubt => Restored)'
  BY <1>23 DEF RemoveNew
<1>24. ASSUME PickRoot PROVE (Committed /\ ~doubt => Restored)'
  BY <1>24 DEF PickRoot
<1>25. ASSUME BackStep PROVE (Committed /\ ~doubt => Restored)'
  BY <1>25 DEF BackStep, Moved
<1>26. ASSUME BackEnds PROVE (Committed /\ ~doubt => Restored)'
  BY <1>26 DEF BackEnds
<1>27. ASSUME RenameBack PROVE (Committed /\ ~doubt => Restored)'
  BY <1>27 DEF RenameBack
<1>28. ASSUME RestartOld PROVE (Committed /\ ~doubt => Restored)'
  BY <1>28 DEF RestartOld
<1>29. ASSUME DropResource PROVE (Committed /\ ~doubt => Restored)'
  BY <1>29 DEF DropResource
<1>30. ASSUME Settle PROVE (Committed /\ ~doubt => Restored)'
  BY <1>30 DEF Settle
<1>31. ASSUME EndLoop PROVE (Committed /\ ~doubt => Restored)'
  BY <1>31 DEF EndLoop, After, Planned, Loops
<1>32. ASSUME Recover PROVE (Committed /\ ~doubt => Restored)'
  BY <1>32 DEF Recover, Pending
<1>33. ASSUME RecoverUnbound PROVE (Committed /\ ~doubt => Restored)'
  BY <1>33 DEF RecoverUnbound, Pending
<1>34. ASSUME Crash PROVE (Committed /\ ~doubt => Restored)'
  BY <1>34 DEF Crash
<1>35. ASSUME UNCHANGED vars PROVE (Committed /\ ~doubt => Restored)'
  BY <1>35, SMTT(30) DEF vars
<1> QED BY <1>1, <1>2, <1>3, <1>4, <1>5, <1>6, <1>7, <1>8, <1>9, <1>10, <1>11,
           <1>12, <1>13, <1>14, <1>15, <1>16, <1>17, <1>18, <1>19, <1>20,
           <1>21, <1>22, <1>23, <1>24, <1>25, <1>26, <1>27, <1>28, <1>29,
           <1>30, <1>31, <1>32, <1>33, <1>34, <1>35 DEF Next, Work

\* How the record of the restore may change, and what else happens then.
Decided ==
    /\ Committed /\ ~doubt => Committed' /\ ~doubt'
    /\ doubt /\ ~doubt' => ~Committed' /\ UNCHANGED host
    /\ ~Committed /\ Committed' => pc.at = "commit" /\ UNCHANGED host
    /\ disk.phase = "rolled_back" => UNCHANGED <<host, disk, doubt>>
    /\ disk.phase # "rolled_back" /\ disk'.phase = "rolled_back"
         => pc.at = "settle" /\ ~bad /\ UNCHANGED host

\* A write of the journal by code that may decide so.
LEMMA WriteDecides ==
    ASSUME NEW m, NEW o, Write(m, o), doubt \in BOOLEAN, doubt => Committed, UNCHANGED host,
           disk.phase # "rolled_back",
           Committed /\ ~doubt => m.phase \in {"cleanup_pending", "completed"},
           m.phase \in {"cleanup_pending", "completed"} /\ ~Committed => pc.at = "commit",
           m.phase = "rolled_back" => pc.at = "settle" /\ ~bad
    PROVE  Decided
<1>1. CASE o = "refused"
  BY <1>1 DEF Write, Decided, Committed
<1>2. CASE o # "refused"
  <2>1. disk' = m /\ (doubt' <=> /\ m.phase \in {"cleanup_pending", "completed"}
                                 /\ doubt \/ (o = "lost" /\ ~Committed))
    BY <1>2 DEF Write
  <2> QED BY <2>1 DEF Decided, Committed
<1> QED BY <1>1, <1>2

LEMMA DecisionStep ==
    ASSUME IInv, [Next]_vars
    PROVE  Decided
<1> USE SetAssumption, NoneAssumption, BoundAssumption DEF IInv, TypeOK, PcOK,
      Entry, Absent, JournalOK, Committed, Decided, Forwards, Cleanups,
      Backwards, Preparing, Retiring, Moving, AtRoot, Creating
<1> USE DEF At, On, Idle, Quiet, host, Spend, Outcomes, Forward, Write, Undo,
      Record, Cleaning, Onward
<1>1. ASSUME Restore PROVE Decided
  BY <1>1 DEF Restore
<1>2. ASSUME Intend PROVE Decided
  <2> DEFINE m(x) == [mem EXCEPT !.res = @ \cup {x}]
  <2> HIDE DEF Write, Decided, host
  <2>1. PICK x \in pc.left, o \in Outcomes : Write(m(x), o)
    BY <1>2 DEF Intend
  <2>2. UNCHANGED host /\ pc.at \in {"volume", "network"}
    BY <1>2 DEF Intend, host
  <2>3. \A y : m(y).phase \in {"preparing", "applying"} /\ ~Committed
    BY <2>2
  <2> HIDE DEF m, IInv, TypeOK, PcOK
  <2>4. doubt \in BOOLEAN /\ (doubt => Committed) /\ disk.phase # "rolled_back"
    BY <2>2 DEF IInv, TypeOK
  <2> QED BY <2>1, <2>2, <2>3, <2>4, WriteDecides
<1>3. ASSUME Make PROVE Decided
  BY <1>3 DEF Make
<1>4. ASSUME Plan PROVE Decided
  <2> DEFINE m == [mem EXCEPT !.planned = TRUE, !.phase = "applying"]
  <2> HIDE DEF Write, Decided, host
  <2>1. PICK o \in Outcomes : Write(m, o)
    BY <1>4 DEF Plan
  <2>2. UNCHANGED host /\ pc.at = "plan"
    BY <1>4 DEF Plan, host
  <2>3. m.phase = "applying" /\ ~Committed
    BY <2>2
  <2> HIDE DEF m, IInv, TypeOK, PcOK
  <2>4. doubt \in BOOLEAN /\ (doubt => Committed) /\ disk.phase # "rolled_back"
    BY <2>2 DEF IInv, TypeOK
  <2> QED BY <2>1, <2>2, <2>3, <2>4, WriteDecides
<1>5. ASSUME CreateWorkspace PROVE Decided
  <2> DEFINE m(x) == [mem EXCEPT !.space = @ \cup {x}]
  <2> HIDE DEF Write, Decided, host
  <2>1. PICK x \in pc.left, o \in Outcomes : Write(m(x), o)
    BY <1>5 DEF CreateWorkspace
  <2>2. UNCHANGED host /\ pc.at = "space"
    BY <1>5 DEF CreateWorkspace, host
  <2>3. \A y : m(y).phase \in {"preparing", "applying"} /\ ~Committed
    BY <2>2
  <2> HIDE DEF m, IInv, TypeOK, PcOK
  <2>4. doubt \in BOOLEAN /\ (doubt => Committed) /\ disk.phase # "rolled_back"
    BY <2>2 DEF IInv, TypeOK
  <2> QED BY <2>1, <2>2, <2>3, <2>4, WriteDecides
<1>6. ASSUME StopOld PROVE Decided
  BY <1>6 DEF StopOld
<1>7. ASSUME RenameOld PROVE Decided
  BY <1>7 DEF RenameOld
<1>8. ASSUME Stage PROVE Decided
  BY <1>8 DEF Stage
<1>9. ASSUME Identify PROVE Decided
  BY <1>9 DEF Identify
<1>10. ASSUME Retain PROVE Decided
  BY <1>10 DEF Retain
<1>11. ASSUME Mark PROVE Decided
  BY <1>11 DEF Mark
<1>12. ASSUME Publish PROVE Decided
  BY <1>12 DEF Publish
<1>13. ASSUME CreateNew PROVE Decided
  BY <1>13 DEF CreateNew
<1>14. ASSUME RecordNew PROVE Decided
  BY <1>14 DEF RecordNew
<1>15. ASSUME StartNew PROVE Decided
  BY <1>15 DEF StartNew
<1>16. ASSUME Unhealthy PROVE Decided
  BY <1>16 DEF Unhealthy
<1>17. ASSUME Commit PROVE Decided
  BY <1>17 DEF Commit, Clean
<1>18. ASSUME DeleteOld PROVE Decided
  BY <1>18 DEF DeleteOld
<1>19. ASSUME RemovePrevious PROVE Decided
  BY <1>19 DEF RemovePrevious
<1>20. ASSUME Complete PROVE Decided
  <2> DEFINE m == [mem EXCEPT !.phase = "completed"]
  <2> HIDE DEF Write, Decided, host
  <2>1. PICK o \in Outcomes : Write(m, o)
    BY <1>20 DEF Complete
  <2>2. UNCHANGED host /\ pc.at = "complete"
    BY <1>20 DEF Complete, host
  <2>3. m.phase = "completed" /\ Committed
    BY <2>2
  <2> HIDE DEF m, IInv, TypeOK, PcOK
  <2>4. doubt \in BOOLEAN /\ (doubt => Committed) /\ disk.phase # "rolled_back"
    BY <2>2 DEF IInv, TypeOK
  <2> QED BY <2>1, <2>2, <2>3, <2>4, WriteDecides
<1>21. ASSUME Keep PROVE Decided
  <2> DEFINE m == [mem EXCEPT !.phase = "cleanup_pending"]
  <2> HIDE DEF Write, Decided, host
  <2>1. PICK o \in Outcomes : Write(m, o)
    BY <1>21 DEF Keep
  <2>2. UNCHANGED host /\ pc.at = "keep"
    BY <1>21 DEF Keep, host
  <2>3. m.phase = "cleanup_pending" /\ Committed
    BY <2>2
  <2> HIDE DEF m, IInv, TypeOK, PcOK
  <2>4. doubt \in BOOLEAN /\ (doubt => Committed) /\ disk.phase # "rolled_back"
    BY <2>2 DEF IInv, TypeOK
  <2> QED BY <2>1, <2>2, <2>3, <2>4, WriteDecides
<1>22. ASSUME Resolve PROVE Decided
  BY <1>22 DEF Resolve, Planned
<1>23. ASSUME RemoveNew PROVE Decided
  BY <1>23 DEF RemoveNew
<1>24. ASSUME PickRoot PROVE Decided
  BY <1>24 DEF PickRoot
<1>25. ASSUME BackStep PROVE Decided
  BY <1>25 DEF BackStep, Moved
<1>26. ASSUME BackEnds PROVE Decided
  BY <1>26 DEF BackEnds
<1>27. ASSUME RenameBack PROVE Decided
  BY <1>27 DEF RenameBack
<1>28. ASSUME RestartOld PROVE Decided
  BY <1>28 DEF RestartOld
<1>29. ASSUME DropResource PROVE Decided
  BY <1>29 DEF DropResource
<1>30. ASSUME Settle PROVE Decided
  <2> DEFINE m == [mem EXCEPT !.phase = IF bad THEN "needs_attention" ELSE "rolled_back"]
  <2> HIDE DEF Write, Decided, host
  <2>1. PICK o \in Outcomes : Write(m, o)
    BY <1>30 DEF Settle
  <2>2. UNCHANGED host /\ pc.at = "settle"
    BY <1>30 DEF Settle, host
  <2>3. m.phase = (IF bad THEN "needs_attention" ELSE "rolled_back") /\ (Committed => doubt)
    BY <2>2
  <2> HIDE DEF m, IInv, TypeOK, PcOK
  <2>4. doubt \in BOOLEAN /\ (doubt => Committed) /\ disk.phase # "rolled_back"
    BY <2>2 DEF IInv, TypeOK
  <2> QED BY <2>1, <2>2, <2>3, <2>4, WriteDecides
<1>31. ASSUME EndLoop PROVE Decided
  BY <1>31, LoopEnds DEF At, Planned
<1>32. ASSUME Recover PROVE Decided
  BY <1>32 DEF Recover, Pending
<1>33. ASSUME RecoverUnbound PROVE Decided
  BY <1>33 DEF RecoverUnbound, Pending
<1>34. ASSUME Crash PROVE Decided
  BY <1>34 DEF Crash
<1>35. ASSUME UNCHANGED vars PROVE Decided
  BY <1>35, SMTT(30) DEF vars
<1> QED BY <1>1, <1>2, <1>3, <1>4, <1>5, <1>6, <1>7, <1>8, <1>9, <1>10, <1>11,
           <1>12, <1>13, <1>14, <1>15, <1>16, <1>17, <1>18, <1>19, <1>20,
           <1>21, <1>22, <1>23, <1>24, <1>25, <1>26, <1>27, <1>28, <1>29,
           <1>30, <1>31, <1>32, <1>33, <1>34, <1>35 DEF Next, Work

LEMMA InitIInv == Init => IInv
<1> SUFFICES ASSUME Init PROVE IInv
  OBVIOUS
<1> USE SetAssumption, NoneAssumption, BoundAssumption DEF Init, Idle, At,
      Absent
<1>1. TypeOK
  <2>1. slot \in [Roots -> Slots] /\ oldc \in [Containers -> Olds]
    BY DEF Slots, Olds
  <2>2. mem \in Entry /\ disk \in Entry
    BY DEF Entry
  <2>3. /\ newc \in [Containers -> {"none", "created", "running"}]
        /\ made \subseteq Volumes \cup Networks
        /\ bad \in BOOLEAN /\ recovering \in BOOLEAN /\ doubt \in BOOLEAN
    OBVIOUS
  <2>4. faults = 0 /\ crashes = 0
    OBVIOUS
  <2> HIDE DEF Init
  <2>5. faults \in 0..MaxFaults /\ crashes \in 0..MaxCrashes
    BY <2>4
  <2> QED BY <2>1, <2>2, <2>3, <2>5 DEF TypeOK, Slots, Olds
<1>2. PcOK
  BY DEF PcOK, Retiring, Moving, AtRoot
<1>3. JournalOK
  BY DEF JournalOK, Committed, Forwards, Preparing, Retiring, Moving, AtRoot,
     Creating,
         Cleanups, Backwards
<1>4. TouchOK
  BY DEF TouchOK, Untouched, SlotsBefore, OldsBefore, NoneNew, SlotBefore,
     OldBefore
<1>5. DataOK
  BY DEF DataOK, OldKept
<1>6. OrderOK
  BY DEF OrderOK, Retiring, Moving, AtRoot, Creating
<1>7. UndoOK
  BY DEF UndoOK
<1>8. NoWriterDuringMove
  BY DEF NoWriterDuringMove, OldData, NewData
<1>9. ~Committed
  BY DEF Committed
<1> QED BY <1>1, <1>2, <1>3, <1>4, <1>5, <1>6, <1>7, <1>8, <1>9 DEF IInv

\* The invariant is inductive, and so it holds.
THEOREM InvariantHolds == Spec => []IInv
<1>1. ASSUME IInv, [Next]_vars PROVE IInv'
  <2>1. TypeOK' /\ PcOK'
    BY <1>1, TypeStep, PcStep DEF IInv
  <2>2. JournalOK'
    BY <1>1, JournalStep DEF IInv
  <2>3. TouchOK' /\ DataOK' /\ OrderOK' /\ UndoOK' /\ NoWriterDuringMove'
    BY <1>1, TouchStep, DataStep, OrderStep, UndoStep, WriterStep
  <2>4. (Committed /\ ~doubt => Restored)'
    BY <1>1, CommittedStep
  <2> QED BY <2>1, <2>2, <2>3, <2>4 DEF IInv
<1> QED BY InitIInv, <1>1, PTL DEF Spec

\* Every variable keeps its type: the journal names only what the restore is
\* about, and the bounds on failures are respected.
THEOREM TypeCorrect == Spec => []TypeOK
<1>1. IInv => TypeOK BY DEF IInv
<1> QED BY <1>1, InvariantHolds, PTL

\* Until the commit the old data and the old containers exist, wherever the
\* Agent stopped and whatever failed, in the restore and in its rollback.
THEOREM OldIsKept == Spec => []NothingOldLost
<1>1. IInv => NothingOldLost
  BY DEF IInv, DataOK, OldKept, NothingOldLost
<1> QED BY <1>1, InvariantHolds, PTL

\* No service runs on data of the other side, or while its data is moved.
THEOREM NoWriter == Spec => []NoWriterDuringMove
<1>1. IInv => NoWriterDuringMove BY DEF IInv
<1> QED BY <1>1, InvariantHolds, PTL

(***************************************************************************)
(* The restore implements its promise.                                     *)
(***************************************************************************)
\* The two ends can be told apart when the restore has something to do.
LEMMA EndsDiffer ==
    Roots \cup OldRunning \cup NewRunning # {} => ~(Original /\ Restored)
<1> SUFFICES ASSUME Roots \cup OldRunning \cup NewRunning # {}, Original, Restored
             PROVE  FALSE
  OBVIOUS
<1>1. Roots = {}
  BY DEF Original, Restored, OldData, NewData
<1>2. ASSUME NEW c \in OldRunning PROVE FALSE
  <2>1. oldc[c] = [there |-> TRUE, name |-> "own", run |-> c \in OldRunning]
    BY SetAssumption DEF Original
  <2>2. (c \in OldRunning) = TRUE
    OBVIOUS
  <2>3. oldc[c].there = TRUE /\ oldc[c].run = (c \in OldRunning)
    BY <2>1
  <2> QED BY <2>2, <2>3, SetAssumption DEF Restored
<1>3. NewRunning = {}
  BY SetAssumption DEF Original, Restored
<1> QED BY <1>1, <1>2, <1>3

LEMMA OutcomeStep ==
    ASSUME IInv, IInv', [Next]_vars,
           ~(Original /\ Restored), ~(Original /\ Restored)'
    PROVE  [Outcome!Next]_(Outcome!vars)
<1> DEFINE decision == IF doubt THEN "doubtful" ELSE IF Committed THEN "committed"
                       ELSE IF disk.phase = "rolled_back" THEN "undone" ELSE "open"
           site == IF Original THEN "original" ELSE IF Restored THEN "restored" ELSE "mixed"
<1>1. Decided
  BY DecisionStep
<1>2. (Committed /\ ~doubt => Restored) /\ (Committed' /\ ~doubt' => Restored')
  BY DEF IInv
<1>3. ~(Original /\ Restored) /\ ~(Original' /\ Restored')
  OBVIOUS
<1>4. UNCHANGED host => UNCHANGED site
  BY DEF host, Original, Restored, OldData, NewData
<1>5. /\ disk.phase = "rolled_back" => ~Committed
      /\ (doubt => Committed) /\ (doubt' => Committed')
      /\ doubt \in BOOLEAN /\ doubt' \in BOOLEAN
  BY DEF Committed, IInv, JournalOK, TypeOK
<1>6. CASE Committed /\ ~doubt
  <2>1. decision = "committed" /\ decision' = "committed"
    BY <1>1, <1>6 DEF Decided
  <2>2. site = "restored" /\ site' = "restored"
    BY <1>1, <1>2, <1>3, <1>6 DEF Decided
  <2> QED BY <2>1, <2>2 DEF Outcome!vars
<1>7. CASE ~Committed /\ Committed'
  <2>1. site' = site /\ disk.phase # "rolled_back" /\ pc.at = "commit"
    BY <1>1, <1>4, <1>7 DEF Decided, Committed, host
  <2>2. Restored
    BY <2>1 DEF IInv, OrderOK
  <2>3. site = "restored"
    BY <1>3, <2>2
  <2> QED BY <1>5, <1>7, <2>1, <2>3 DEF Outcome!Next, Outcome!Commit
<1>8. CASE disk.phase = "rolled_back"
  <2>1. UNCHANGED host /\ disk' = disk /\ doubt' = doubt
    BY <1>1, <1>8 DEF Decided
  <2> QED BY <1>4, <2>1 DEF Outcome!vars, Committed
<1>9. CASE disk.phase # "rolled_back" /\ disk'.phase = "rolled_back"
  <2>1. pc.at = "settle" /\ ~bad /\ site' = site
    BY <1>1, <1>4, <1>9 DEF Decided
  <2>2. OldData /\ NoneRuns /\ made = {} /\ \A c \in HasOld : oldc[c] = OldBefore(c)
    BY <2>1 DEF IInv, UndoOK
  <2>3. Original
    BY <2>2, SetAssumption DEF Original, NoneRuns, OldBefore
  <2>4. ~Committed' /\ (Committed => doubt)
    BY <1>1, <1>9 DEF Committed, Decided
  <2>5. decision' = "undone" /\ decision \in {"open", "doubtful"}
    BY <1>5, <1>9, <2>4
  <2> QED BY <2>1, <2>3, <2>5 DEF Outcome!Next, Outcome!Undo
<1>10. CASE /\ ~Committed /\ ~Committed'
            /\ disk.phase # "rolled_back" /\ disk'.phase # "rolled_back"
  BY <1>5, <1>10 DEF Outcome!Next, Outcome!Change
<1>11. CASE doubt /\ doubt'
  BY <1>11 DEF Outcome!Next, Outcome!Change
<1>12. CASE doubt /\ ~doubt' /\ disk'.phase # "rolled_back"
  <2>1. ~Committed' /\ site' = site
    BY <1>1, <1>4, <1>12 DEF Decided
  <2> QED BY <1>12, <2>1 DEF Outcome!Next, Outcome!Reopen
<1> QED BY <1>5, <1>6, <1>7, <1>8, <1>9, <1>10, <1>11, <1>12 DEF Committed

\* A restore commits only when everything is in place, is rolled back only
\* when the host is as it was, and neither is reversed, for any order of
\* failures and stops, those of the sync after a rename included; a commit that
\* failed that way is in doubt and may still be rolled back.  The hypothesis:
\* the restore has something to replace or to start (otherwise its two ends are
\* the same host).
THEOREM RestoreIsAllOrNothing ==
    ASSUME Roots \cup OldRunning \cup NewRunning # {}
    PROVE  Spec => AllOrNothing
<1>1. Init => Outcome!Init
  <2> SUFFICES ASSUME Init PROVE Outcome!Init
    OBVIOUS
  <2>1. OldData /\ made = {} /\ \A c \in Containers : newc[c] # "running"
    BY SetAssumption DEF Init, OldData
  <2>2. \A c \in HasOld : oldc[c] = [there |-> TRUE, name |-> "own", run |-> c \in OldRunning]
    BY SetAssumption DEF Init
  <2>3. disk.phase = "absent" /\ ~doubt
    BY DEF Init, Absent
  <2> QED BY <2>1, <2>2, <2>3 DEF Original, Committed, Outcome!Init
<1>2. ~(Original /\ Restored)
  BY EndsDiffer
<1>3. /\ IInv /\ IInv' /\ ~(Original /\ Restored) /\ ~(Original /\ Restored)' /\ [Next]_vars
      => [Outcome!Next]_(Outcome!vars)
  BY OutcomeStep
<1> QED BY <1>1, <1>2, <1>3, InvariantHolds, PTL DEF Spec, AllOrNothing,
           Outcome!Spec
===============================================================================
