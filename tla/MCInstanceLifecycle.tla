------------------------ MODULE MCInstanceLifecycle ------------------------
(* Instances of InstanceLifecycle for TLC: who may call which verb.        *)
EXTENDS InstanceLifecycle, TLC

CONSTANTS c1, c2, i1, i2

\* One caller, every verb: calls on an instance never overlap.
SoloMayCall == c1 :> Verbs

\* Two callers racing over every verb that ends in a settled state.
RaceMayCall == [c \in {c1, c2} |-> Verbs \ {"Update", "Scale"}]

=============================================================================
