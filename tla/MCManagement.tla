---------------------------- MODULE MCManagement ----------------------------
(***************************************************************************)
(* A small instance of the management stream for TLC.                      *)
(***************************************************************************)
EXTENDS Management, TLC

CONSTANTS c1, c2, u1

\* One device that has connected twice.
SameUuid == c1 :> u1 @@ c2 :> u1

=============================================================================
