------------------------- MODULE MCTerminalSessions -------------------------
(***************************************************************************)
(* Instances of TerminalSessions for TLC.                                  *)
(***************************************************************************)
EXTENDS TerminalSessions, TLC

CONSTANTS o1, o2

MCCalls2 == 1..2
MCCalls1 == {1}
MCOwners == {o1, o2}

\* Two calls of one owner, or one call; the other owner acts only by CloseOwner.
MCOwnerOf2 == 1 :> o1 @@ 2 :> o1
MCOwnerOf1 == 1 :> o1

MCRetainedOne == {1}
=============================================================================
