--------------------------- MODULE RestoreOutcome ---------------------------
(***************************************************************************)
(* What a restore promises, without its steps: the host ends either as it  *)
(* was or as the backup says, and the record of the restore tells which.   *)
(* Until the decision the host may be anything; after it, nothing changes. *)
(* A commit that was recorded and still failed is in doubt: it binds nobody*)
(* until another record replaces it.                                       *)
(***************************************************************************)
VARIABLES
    decision,  \* "open", "committed", "doubtful", "undone"
    site       \* "original", "mixed", "restored"

vars == <<decision, site>>

Init == decision = "open" /\ site = "original"

Change == /\ decision \in {"open", "doubtful"}
          /\ site' \in {"original", "mixed", "restored"}
          /\ UNCHANGED decision

Commit == /\ decision = "open" /\ site = "restored"
          /\ decision' \in {"committed", "doubtful"}
          /\ UNCHANGED site

Reopen == /\ decision = "doubtful"
          /\ decision' = "open"
          /\ UNCHANGED site

Undo == /\ decision \in {"open", "doubtful"} /\ site = "original"
        /\ decision' = "undone"
        /\ UNCHANGED site

Next == Change \/ Commit \/ Reopen \/ Undo

Spec == Init /\ [][Next]_vars
=============================================================================
