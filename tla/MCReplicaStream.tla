-------------------------- MODULE MCReplicaStream --------------------------
(* Instances of ReplicaStream for TLC.                                     *)
EXTENDS ReplicaStream

CONSTANTS r1, r2

=============================================================================
