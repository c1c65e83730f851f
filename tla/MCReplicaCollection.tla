------------------------ MODULE MCReplicaCollection ------------------------
(* Instances of ReplicaCollection for TLC.                                 *)
EXTENDS ReplicaCollection, TLC

CONSTANTS c1, c2, w1, w2

\* An operator who only deletes, beside a caller who creates and scales.
CollectMayCall == c1 :> {"Create", "Scale", "Deploy"} @@ c2 :> {"Delete"}

=============================================================================
