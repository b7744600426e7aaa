---------------------------- MODULE MCTaskInput ----------------------------
(***************************************************************************)
(* Instances of TaskInput for TLC: one page, or two pages of one task.     *)
(***************************************************************************)
EXTENDS TaskInput

CONSTANTS A, B

MCOnePage == {A}
MCTwoPages == {A, B}
=============================================================================
