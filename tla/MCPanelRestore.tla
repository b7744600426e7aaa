---------------------------- MODULE MCPanelRestore ----------------------------
(***************************************************************************)
(* Instances of PanelRestore for TLC.                                      *)
(***************************************************************************)
EXTENDS PanelRestore

CONSTANTS r1, r2, o1, o2

MCRequests == {r1, r2}
MCOrigins == {o1, o2}
MCOneStep == {1}

\* The origins differ by nothing but their names.
MCInit == RestoreInit /\ store.origin # o2
MCSpec == MCInit /\ [][RestoreNext]_all /\ WF_all(Restoring)
=============================================================================
