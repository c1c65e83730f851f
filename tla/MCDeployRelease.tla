-------------------------- MODULE MCDeployRelease --------------------------
(* Instances of DeployRelease for TLC: the services, and who may call what. *)
EXTENDS DeployRelease, TLC

CONSTANTS c1, c2, s1, s2, v1, v2, e1

\* Every service starts with the same image and no environment.
AllV1 == [s \in Services |-> [image |-> v1, env |-> NoEnv]]

\* One service gets a new image and an environment, or all get the new image.
ToV2 == {s1 :> [image |-> v2, env |-> e1], [s \in Services |-> [image |-> v2, env |-> NoEnv]]}

\* Two callers racing over every verb.
RaceMayCall == [c \in {c1, c2} |-> Verbs]

\* A Deploy and its Cancel.
CancelMayCall == c1 :> {"Deploy"} @@ c2 :> {"Cancel"}

\* Callers that may call the same verbs cannot be told apart.
SomeOrder == Permutations(Callers)

=============================================================================
