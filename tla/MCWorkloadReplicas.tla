------------------------- MODULE MCWorkloadReplicas -------------------------
(* Instances of WorkloadReplicas for TLC: who may call which verb.         *)
EXTENDS WorkloadReplicas, TLC

CONSTANTS c1, c2, w1, w2

\* One caller, every verb: calls never overlap.
SoloMayCall == c1 :> Verbs

=============================================================================
