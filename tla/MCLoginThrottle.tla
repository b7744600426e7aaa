-------------------------- MODULE MCLoginThrottle --------------------------
(***************************************************************************)
(* An instance of LoginThrottle for TLC.                                   *)
(***************************************************************************)
EXTENDS LoginThrottle, TLC

CONSTANTS P, K, L, Home, Away, Admin

\* P guesses the administrator's password.  From one other address come K, a
\* guess or a passkey login, and L, a passkey login or the request for one.
MCThree       == {P, K, L}
MCThreeMayBe  == P :> {"password"} @@ K :> {"password", "passkey"} @@ L :> {"passkey", "begin"}
MCThreeSource == P :> Home @@ K :> Away @@ L :> Away
MCThreeUser   == [a \in MCThree |-> Admin]
=============================================================================
