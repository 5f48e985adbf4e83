----------------------------- MODULE MCClients -----------------------------
(***************************************************************************)
(* Small instances of the device state tracker for TLC.                    *)
(***************************************************************************)
EXTENDS Clients, TLC

\* Devices and workers are interchangeable in every safety property.
Symmetry == Permutations(Devices) \cup Permutations(Workers)

=============================================================================
