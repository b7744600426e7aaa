------------------------------ MODULE SlotPool ------------------------------
(***************************************************************************)
(* What a session manager promises to those who ask it for a terminal: a   *)
(* slot is granted within the global and the per-owner limit, it runs at   *)
(* most one process, it is given back only when that process is known to   *)
(* be gone, and no slot is granted once the manager has been closed.       *)
(* TerminalSessions implements this module.                                *)
(***************************************************************************)
EXTENDS Naturals, FiniteSets

CONSTANTS Slots,      \* requests for a slot; each is granted at most once
          Holders,    \* those on whose behalf slots are granted
          HolderOf,   \* the holder of each slot
          MaxHeld,    \* global limit
          MaxHolder   \* limit of one holder

VARIABLES asked,   \* requests that have been answered
          held,    \* slots granted and not given back
          live,    \* slots with a process that may be running
          shut     \* the pool has been closed

poolVars == <<asked, held, live, shut>>

HeldBy(o) == {s \in held : HolderOf[s] = o}

PoolInit == asked = {} /\ held = {} /\ live = {} /\ shut = FALSE

Grant(s) ==
    /\ s \notin asked /\ ~shut
    /\ Cardinality(held) < MaxHeld
    /\ Cardinality(HeldBy(HolderOf[s])) < MaxHolder
    /\ asked' = asked \cup {s}
    /\ held' = held \cup {s}
    /\ UNCHANGED <<live, shut>>

Refuse(s) ==
    /\ s \notin asked
    /\ asked' = asked \cup {s}
    /\ UNCHANGED <<held, live, shut>>

Run(s) ==
    /\ s \in held \ live
    /\ live' = live \cup {s}
    /\ UNCHANGED <<asked, held, shut>>

Die(s) ==
    /\ s \in live
    /\ live' = live \ {s}
    /\ UNCHANGED <<asked, held, shut>>

GiveBack(s) ==
    /\ s \in held \ live
    /\ held' = held \ {s}
    /\ UNCHANGED <<asked, live, shut>>

Shut ==
    /\ ~shut
    /\ shut' = TRUE
    /\ UNCHANGED <<asked, held, live>>

PoolNext ==
    \/ \E s \in Slots : Grant(s) \/ Refuse(s) \/ Run(s) \/ Die(s) \/ GiveBack(s)
    \/ Shut

PoolSpec == PoolInit /\ [][PoolNext]_poolVars
=============================================================================
