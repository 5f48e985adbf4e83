----------------------------- MODULE MCCluster -----------------------------
(***************************************************************************)
(* Small instances of the cluster for TLC.                                 *)
(***************************************************************************)
EXTENDS Cluster, TLC

\* Workers and connections are interchangeable in every safety property.
Symmetry == Permutations(Workers) \cup Permutations(Conns)

=============================================================================
