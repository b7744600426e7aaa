---------------------------- MODULE MCHostRestore ----------------------------
(***************************************************************************)
(* Two data trees, one of them new to the host, and two containers: one    *)
(* replaces a running container, the other has no predecessor.             *)
(***************************************************************************)
EXTENDS HostRestore

CONSTANTS data, site, db, web, net, vol
=============================================================================
