---------------------------- MODULE MCSelfUpdate ----------------------------
(***************************************************************************)
(* An instance of SelfUpdate for TLC: the stable release the host has, and *)
(* a preview that was published twice under different digests.             *)
(***************************************************************************)
EXTENDS SelfUpdate, TLC

CONSTANTS r1, p2, p2b

MCVersionOf == r1 :> 1 @@ p2 :> 2 @@ p2b :> 2
=============================================================================
