------------------------------ MODULE MCTunnel ------------------------------
(***************************************************************************)
(* Small instances of the connect proxy for TLC.                           *)
(***************************************************************************)
EXTENDS Tunnel, TLC

\* Requests and instances are interchangeable in every safety property.
Symmetry == Permutations(Requests) \cup Permutations(Instances)

=============================================================================
