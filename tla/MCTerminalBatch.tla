-------------------------- MODULE MCTerminalBatch --------------------------
(***************************************************************************)
(* An instance of TerminalBatch for TLC: one batch on one host.            *)
(***************************************************************************)
EXTENDS TerminalBatch

CONSTANTS B1, H1

MCOneBatch == {B1}
MCOneHost == {H1}
=============================================================================
