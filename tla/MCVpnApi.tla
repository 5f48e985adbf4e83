------------------------------ MODULE MCVpnApi ------------------------------
(***************************************************************************)
(* A small instance of the client endpoints for TLC.                       *)
(***************************************************************************)
EXTENDS VpnApi, TLC

CONSTANTS d1, d2, w1, w2, s1, s2, s3

\* A device that moves to another worker, and a second device that shares the
\* report loop with it.
TwoDevices == s1 :> d1 @@ s2 :> d1 @@ s3 :> d2
TwoDevicesAt == s1 :> w1 @@ s2 :> w2 @@ s3 :> w1

=============================================================================
