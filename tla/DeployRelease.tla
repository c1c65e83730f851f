---------------------------- MODULE DeployRelease ----------------------------
(***************************************************************************)
(* deploy.service on one instance: Releases (what every service should     *)
(* run, versioned), Deployments (the rollouts) and the containers the      *)
(* docker provider recreates one service at a time.  The store and the     *)
(* provider are called with no lock held, so a Deploy, Rollback or Cancel  *)
(* may run between any two steps of another.                               *)
(*                                                                         *)
(* rolling, recreate and blue-green do the same, and are "lockstep" here;  *)
(* "unknown" stands for a strategy or provider that is not registered.     *)
(***************************************************************************)
EXTENDS Naturals, Sequences, FiniteSets

CONSTANTS
    Services,       \* service names of the instance
    Images,
    Envs,           \* environments a request may carry
    NoEnv,          \* the empty environment, which leaves the old one in place
    Initial,        \* inst.Services: what Provision started
    Recorded,       \* TRUE: RecordInitial has run when the behaviour starts
    Requests,       \* the services and images that Deploys ask for
    Callers,
    MayCall,        \* the verbs each caller issues
    MaxReleases,    \* bound on releases inserted
    MaxDeployments, \* bound on deployments inserted
    MaxMishaps      \* bound on failures, interruptions and reboots together

Verbs == {"Deploy", "RecordInitial", "Rollback", "Cancel"}

Specs == [image : Images, env : Envs]

MapsTo(S) == UNION {[T -> S] : T \in SUBSET Services}

\* What some of the services should run, as a request or a release has it.
SpecMaps == MapsTo(Specs)

ContainerMaps == MapsTo([image : Images, env : Envs, up : BOOLEAN])

ASSUME DeployAssumption ==
    /\ NoEnv \in Envs
    /\ Services # {}
    /\ Initial \in [Services -> Specs]
    /\ Requests \subseteq {ups \in SpecMaps : DOMAIN ups # {}}
    /\ Recorded \in BOOLEAN
    /\ MayCall \in [Callers -> SUBSET Verbs]
    /\ MaxReleases \in Nat
    /\ MaxDeployments \in Nat
    /\ MaxMishaps \in Nat

VARIABLES
    release,        \* the release table, in insertion order
    deployment,     \* the deployment table, in insertion order
    container,      \* the project's containers: services without one have none
    call,           \* each caller's verb in flight
    cut,            \* history: deployments whose call was cut short
    mishaps

vars == <<release, deployment, container, call, cut, mishaps>>

Strategies == {"lockstep", "canary", "unknown", "initial"}

Progress == {"pending", "running", "succeeded", "failed"}

ProgressMaps == MapsTo(Progress)

Unfinished == {"pending", "running"}

\* raced is history: the release's call overlapped another one.
Releases == [version : Nat, snap : SpecMaps, raced : BOOLEAN]

\* rolled_back is a state the code declares and never writes.
DeployStates == Unfinished \cup {"succeeded", "failed", "rolled_back", "cancelled"}

Deployments == [state : DeployStates, release : Nat,
                strategy : Strategies, ups : SpecMaps, progress : ProgressMaps]

NoRow == [state |-> "pending", release |-> 0, strategy |-> "unknown",
          ups |-> <<>>, progress |-> <<>>]

\* row is the call's copy of its deployment; batch is what one provider call
\* lists, left what it has not got done yet, todo what later calls will list;
\* listed the services whose container is still the one it listed or created;
\* now the service whose container it is recreating, env the environment that
\* one will get; spared (history) those it found with their image already.
\* What a call no longer reads is emptied.
Calls == [verb : Verbs \cup {"none"},
          at : {"idle", "version", "snapshot", "release", "deployment", "start", "mark",
                "list", "recreate", "remove", "create", "start container", "finish",
                "cancel"},
          version : Nat, snap : SpecMaps, dep : Nat, row : Deployments,
          batch : SUBSET Services, left : SUBSET Services, todo : SUBSET Services,
          listed : SUBSET Services, now : SUBSET Services, env : Envs,
          spared : SUBSET Services, failed : BOOLEAN, alone : BOOLEAN]

Idle == [verb |-> "none", at |-> "idle", version |-> 0, snap |-> <<>>, dep |-> 0,
         row |-> NoRow, batch |-> {}, left |-> {}, todo |-> {}, listed |-> {},
         now |-> {}, env |-> NoEnv, spared |-> {}, failed |-> FALSE, alone |-> TRUE]

TypeOK ==
    /\ release \in Seq(Releases)
    /\ deployment \in Seq(Deployments)
    /\ container \in ContainerMaps
    /\ call \in [Callers -> Calls]
    /\ cut \subseteq DOMAIN deployment
    /\ mishaps \in Nat

Started(sp) == [image |-> sp.image, env |-> sp.env, up |-> TRUE]

InitialRow(rel) ==
    [state |-> "succeeded", release |-> rel, strategy |-> "initial", ups |-> Initial,
     progress |-> [s \in Services |-> "succeeded"]]

Init ==
    /\ release = IF Recorded THEN <<[version |-> 1, snap |-> Initial, raced |-> FALSE]>> ELSE <<>>
    /\ deployment = IF Recorded THEN <<InitialRow(1)>> ELSE <<>>
    /\ container = [s \in Services |-> Started(Initial[s])]
    /\ call = [c \in Callers |-> Idle]
    /\ cut = {}
    /\ mishaps = 0

-----------------------------------------------------------------------------
(* Steps the verbs share.                                                  *)

Budget == mishaps < MaxMishaps

Outcome(ok) ==
    \/ ok /\ mishaps' = mishaps
    \/ ~ok /\ Budget /\ mishaps' = mishaps + 1

Become(c, r) == call' = [call EXCEPT ![c] = r]

Return(c) == Become(c, Idle)

\* alone: no other call has been in flight since this one began.
Enter(c, r) ==
    call' = [d \in Callers |->
                IF d = c THEN [r EXCEPT !.alone = \A e \in Callers : call[e] = Idle]
                ELSE IF call[d] = Idle THEN Idle
                ELSE [call[d] EXCEPT !.alone = FALSE]]

\* UpdateDeployment writes the whole row; progress ignores its error.
Save(c, row) == deployment' = [deployment EXCEPT ![call[c].dep] = row]

InState(row, s) == [row EXCEPT !.state = s]

WithProgress(row, S, p) ==
    [row EXCEPT !.progress = [s \in DOMAIN row.progress |->
                                 IF s \in S THEN p ELSE row.progress[s]]]

Versions == {release[i].version : i \in DOMAIN release}

NextReleaseVersion ==
    IF release = <<>> THEN 1
    ELSE 1 + CHOOSE v \in Versions : \A u \in Versions : u <= v

\* What ListReleases with Limit 1 may return: ties come in no defined order.
Newest == {i \in DOMAIN release : \A v \in Versions : v <= release[i].version}

\* The bounds: every call under way has room for the rows it will insert.
RoomForRelease ==
    Len(release) + Cardinality({c \in Callers : call[c].at \in {"version", "snapshot", "release"}})
        < MaxReleases

RoomForDeployment ==
    Len(deployment) + Cardinality({c \in Callers :
                          call[c].at \in {"version", "snapshot", "release", "deployment"}})
        < MaxDeployments

-----------------------------------------------------------------------------
(* Deploy and RecordInitial: the release, then the deployment row.         *)

\* GetByID and NextReleaseVersion.
BeginDeploy(c, ups, strategy) ==
    /\ "Deploy" \in MayCall[c] /\ call[c] = Idle
    /\ RoomForRelease /\ RoomForDeployment
    /\ Enter(c, [Idle EXCEPT !.verb = "Deploy", !.at = "snapshot",
                             !.version = NextReleaseVersion,
                             !.row = [NoRow EXCEPT !.strategy = strategy, !.ups = ups]])
    /\ UNCHANGED <<release, deployment, container, cut, mishaps>>

\* Mutant of Inherit: the release holds the request's services only.
InheritNothing(ups, prior) == ups

\* buildReleaseSnapshot's merge: what ups does not list comes from prior.
Inherit(ups, prior) ==
    [s \in DOMAIN ups \cup DOMAIN prior |-> IF s \in DOMAIN ups THEN ups[s] ELSE prior[s]]

BuildSnapshot(c) ==
    /\ call[c].at = "snapshot"
    /\ \E prior \in IF release = <<>> THEN {<<>>} ELSE {release[i].snap : i \in Newest} :
          Become(c, [call[c] EXCEPT !.at = "release", !.snap = Inherit(call[c].row.ups, prior)])
    /\ UNCHANGED <<release, deployment, container, cut, mishaps>>

\* RecordInitial: nothing to do if a release is listed; a listing that fails
\* counts as an empty one.
BeginRecordInitial(c) ==
    /\ "RecordInitial" \in MayCall[c] /\ call[c] = Idle
    /\ RoomForRelease /\ RoomForDeployment
    /\ \E ok \in BOOLEAN : Outcome(ok) /\ (ok => release = <<>>)
    /\ Enter(c, [Idle EXCEPT !.verb = "RecordInitial", !.at = "version", !.snap = Initial])
    /\ UNCHANGED <<release, deployment, container, cut>>

RecordVersion(c) ==
    /\ call[c].at = "version"
    /\ Become(c, [call[c] EXCEPT !.at = "release", !.version = NextReleaseVersion])
    /\ UNCHANGED <<release, deployment, container, cut, mishaps>>

\* Mutant of InsertRelease: the version is bumped once more.
InsertReleaseSkips(c) ==
    /\ call[c].at = "release"
    /\ release' = Append(release, [version |-> call[c].version + 1, snap |-> call[c].snap,
                                   raced |-> ~call[c].alone])
    /\ Become(c, [call[c] EXCEPT !.at = "deployment", !.version = 0, !.snap = <<>>,
                                 !.row.release = Len(release) + 1])
    /\ UNCHANGED <<deployment, container, cut, mishaps>>

InsertRelease(c) ==
    /\ call[c].at = "release"
    /\ release' = Append(release, [version |-> call[c].version, snap |-> call[c].snap,
                                   raced |-> ~call[c].alone])
    /\ Become(c, [call[c] EXCEPT !.at = "deployment", !.version = 0, !.snap = <<>>,
                                 !.row.release = Len(release) + 1])
    /\ UNCHANGED <<deployment, container, cut, mishaps>>

\* RecordInitial's row is a finished rollout: there is nothing to drive.
InsertDeployment(c) ==
    LET ups == call[c].row.ups
        row == [call[c].row EXCEPT !.progress = [s \in DOMAIN ups |-> "pending"]]
    IN  /\ call[c].at = "deployment"
        /\ \/ /\ call[c].verb = "RecordInitial"
              /\ deployment' = Append(deployment, InitialRow(call[c].row.release))
              /\ Return(c)
           \/ /\ call[c].verb # "RecordInitial"
              /\ deployment' = Append(deployment, row)
              /\ Become(c, [call[c] EXCEPT !.at = "start", !.dep = Len(deployment) + 1,
                                           !.row = row])
        /\ UNCHANGED <<release, container, cut, mishaps>>

-----------------------------------------------------------------------------
(* Rollback: a new deployment of an old release.                           *)

BeginRollback(c, rel) ==
    /\ "Rollback" \in MayCall[c] /\ call[c] = Idle
    /\ RoomForDeployment
    /\ Enter(c, [Idle EXCEPT !.verb = "Rollback", !.at = "deployment",
                             !.row = [NoRow EXCEPT !.strategy = "lockstep", !.release = rel,
                                                   !.ups = release[rel].snap]])
    /\ UNCHANGED <<release, deployment, container, cut, mishaps>>

-----------------------------------------------------------------------------
(* The rollout.                                                            *)

\* Strategy and provider are looked up after the row is there: an error
\* leaves it pending.
Start(c) ==
    LET row == InState(call[c].row, "running") IN
    /\ call[c].at = "start"
    /\ \/ /\ call[c].row.strategy = "unknown"
          /\ Return(c)
          /\ deployment' = deployment
       \/ /\ call[c].row.strategy # "unknown"
          /\ Save(c, row)
          /\ Become(c, [call[c] EXCEPT !.at = "mark", !.row = row, !.todo = DOMAIN row.ups])
    /\ UNCHANGED <<release, container, cut, mishaps>>

\* canary hands over one service at a time, the others all of them.
Batches(c) == IF call[c].row.strategy = "canary" THEN {{s} : s \in call[c].todo}
              ELSE {call[c].todo}

\* OnServiceProgress "running", for the services of the next provider call.
MarkBatch(c) ==
    /\ call[c].at = "mark"
    /\ \E S \in Batches(c), ok \in BOOLEAN :
          LET row == WithProgress(call[c].row, S, "running") IN
          /\ Outcome(ok)
          /\ IF ok THEN Save(c, row) ELSE deployment' = deployment
          /\ Become(c, [call[c] EXCEPT !.at = "list", !.row = row, !.batch = S, !.left = S,
                                       !.todo = @ \ S])
    /\ UNCHANGED <<release, container, cut>>

\* provider.Deploy lists the project's containers.
ListContainers(c) ==
    /\ call[c].at = "list"
    /\ \E ok \in BOOLEAN :
          /\ Outcome(ok)
          /\ Become(c, [call[c] EXCEPT !.at = "recreate", !.failed = ~ok,
                                       !.listed = IF ok THEN DOMAIN container ELSE {}])
    /\ UNCHANGED <<release, deployment, container, cut>>

Fail(c) == Become(c, [call[c] EXCEPT !.at = "recreate", !.failed = TRUE, !.now = {},
                                     !.env = NoEnv])

\* The lookup in the listing, and recreateServiceContainer's inspect by ID: an
\* unknown or vanished container is an error, one that has the image already is
\* left as it is, and an empty environment keeps the old one.
Inspect(c, s) ==
    LET new == call[c].row.ups[s] IN
    /\ call[c].at = "recreate" /\ ~call[c].failed /\ s \in call[c].left
    /\ \/ s \notin call[c].listed /\ Fail(c) /\ mishaps' = mishaps
       \/ s \in call[c].listed /\ Fail(c) /\ Outcome(FALSE)
       \/ /\ s \in call[c].listed /\ container[s].image = new.image
          /\ Become(c, [call[c] EXCEPT !.left = @ \ {s}, !.spared = @ \cup {s}])
          /\ mishaps' = mishaps
       \/ /\ s \in call[c].listed /\ container[s].image # new.image
          /\ Become(c, [call[c] EXCEPT !.at = "remove", !.now = {s},
                           !.env = IF new.env = NoEnv THEN container[s].env ELSE new.env])
          /\ mishaps' = mishaps
    /\ UNCHANGED <<release, deployment, container, cut>>

\* ContainerRemove by ID; a container that is gone already will do.  From here
\* on every other call's listing of it is stale.
RemoveOld(c) ==
    /\ call[c].at = "remove"
    /\ \/ Fail(c) /\ Outcome(FALSE) /\ container' = container
       \/ \E s \in call[c].now :
             LET gone == IF s \in call[c].listed THEN {s} ELSE {} IN
             /\ container' = [t \in DOMAIN container \ gone |-> container[t]]
             /\ call' = [d \in Callers |->
                            IF d = c THEN [call[d] EXCEPT !.at = "create", !.listed = @ \ gone]
                            ELSE [call[d] EXCEPT !.listed = @ \ gone]]
             /\ mishaps' = mishaps
    /\ UNCHANGED <<release, deployment, cut>>

\* ContainerCreate under the old name, which may be taken by another call.
CreateNew(c) ==
    /\ call[c].at = "create"
    /\ \E s \in call[c].now :
          \/ s \in DOMAIN container /\ Fail(c) /\ UNCHANGED <<container, mishaps>>
          \/ Fail(c) /\ Outcome(FALSE) /\ container' = container
          \/ /\ s \notin DOMAIN container
             /\ container' = [t \in DOMAIN container \cup {s} |->
                                 IF t = s THEN [image |-> call[c].row.ups[s].image,
                                                env |-> call[c].env, up |-> FALSE]
                                 ELSE container[t]]
             /\ Become(c, [call[c] EXCEPT !.at = "start container", !.listed = @ \cup {s}])
             /\ mishaps' = mishaps
    /\ UNCHANGED <<release, deployment, cut>>

\* Mutant of StartNew: the error is not returned.
StartNewShrugs(c) ==
    /\ call[c].at = "start container"
    /\ \E s \in call[c].now :
          /\ s \in call[c].listed
          /\ \E ok \in BOOLEAN :
                Outcome(ok) /\ container' = [container EXCEPT ![s].up = ok]
          /\ Become(c, [call[c] EXCEPT !.at = "recreate", !.left = @ \ {s}, !.now = {},
                                       !.env = NoEnv])
    /\ UNCHANGED <<release, deployment, cut>>

\* ContainerStart by the new ID, which another call may have removed.
StartNew(c) ==
    /\ call[c].at = "start container"
    /\ \E s \in call[c].now :
          \/ s \notin call[c].listed /\ Fail(c) /\ UNCHANGED <<container, mishaps>>
          \/ Fail(c) /\ Outcome(FALSE) /\ container' = container
          \/ /\ s \in call[c].listed
             /\ container' = [container EXCEPT ![s].up = TRUE]
             /\ Become(c, [call[c] EXCEPT !.at = "recreate", !.left = @ \ {s}, !.now = {},
                                          !.env = NoEnv])
             /\ mishaps' = mishaps
    /\ UNCHANGED <<release, deployment, cut>>

\* Mutant of SettleBatch: the services of a failed call stay running.
SettleBatchOnSuccess(c) ==
    LET row == WithProgress(call[c].row, call[c].batch,
                            IF call[c].failed THEN "running" ELSE "succeeded")
    IN  /\ call[c].at = "recreate"
        /\ call[c].failed \/ call[c].left = {}
        /\ Save(c, row) /\ mishaps' = mishaps
        /\ Become(c, [call[c] EXCEPT
                         !.at = IF call[c].failed \/ call[c].todo = {} THEN "finish" ELSE "mark",
                         !.row = row, !.batch = {}, !.left = {}, !.listed = {}])
        /\ UNCHANGED <<release, container, cut>>

\* OnServiceProgress with the outcome of the provider call.
SettleBatch(c) ==
    LET row == WithProgress(call[c].row, call[c].batch,
                            IF call[c].failed THEN "failed" ELSE "succeeded")
    IN  /\ call[c].at = "recreate"
        /\ call[c].failed \/ call[c].left = {}
        /\ \E ok \in BOOLEAN : Outcome(ok) /\ IF ok THEN Save(c, row) ELSE deployment' = deployment
        /\ Become(c, [call[c] EXCEPT
                         !.at = IF call[c].failed \/ call[c].todo = {} THEN "finish" ELSE "mark",
                         !.row = row, !.batch = {}, !.left = {}, !.listed = {}])
        /\ UNCHANGED <<release, container, cut>>

\* Mutant of Finish: the error is returned without saving the row.
FinishForgets(c) ==
    /\ call[c].at = "finish"
    /\ IF call[c].failed THEN deployment' = deployment
       ELSE Save(c, InState(call[c].row, "succeeded"))
    /\ Return(c)
    /\ UNCHANGED <<release, container, cut, mishaps>>

Finish(c) ==
    /\ call[c].at = "finish"
    /\ Save(c, InState(call[c].row, IF call[c].failed THEN "failed" ELSE "succeeded"))
    /\ Return(c)
    /\ UNCHANGED <<release, container, cut, mishaps>>

-----------------------------------------------------------------------------
(* Cancel.                                                                 *)

BeginCancel(c, d) ==
    /\ "Cancel" \in MayCall[c] /\ call[c] = Idle
    /\ deployment[d].state \in Unfinished
    /\ Enter(c, [Idle EXCEPT !.verb = "Cancel", !.at = "cancel", !.dep = d,
                             !.row = InState(deployment[d], "cancelled")])
    /\ UNCHANGED <<release, deployment, container, cut, mishaps>>

CancelWrite(c) ==
    /\ call[c].at = "cancel"
    /\ Save(c, call[c].row)
    /\ Return(c)
    /\ UNCHANGED <<release, container, cut, mishaps>>

-----------------------------------------------------------------------------

\* Deployments whose own call is in flight.
Driven(S) == {call[c].dep : c \in {d \in S : call[d].verb \in {"Deploy", "Rollback"}}} \ {0}

\* A checked store call fails, or the caller's context is cancelled.
Interrupt(c) ==
    /\ call[c] # Idle
    /\ Budget
    /\ mishaps' = mishaps + 1
    /\ cut' = cut \cup Driven({c})
    /\ Return(c)
    /\ UNCHANGED <<release, deployment, container>>

Reboot ==
    /\ Budget
    /\ mishaps' = mishaps + 1
    /\ cut' = cut \cup Driven(Callers)
    /\ call' = [c \in Callers |-> Idle]
    /\ UNCHANGED <<release, deployment, container>>

Begin(c) ==
    \/ \E ups \in Requests, strategy \in Strategies \ {"initial"} : BeginDeploy(c, ups, strategy)
    \/ BeginRecordInitial(c)
    \/ \E rel \in DOMAIN release : BeginRollback(c, rel)
    \/ \E d \in DOMAIN deployment : BeginCancel(c, d)

Advance(c) ==
    \/ BuildSnapshot(c)
    \/ RecordVersion(c)
    \/ InsertRelease(c)
    \/ InsertDeployment(c)
    \/ Start(c)
    \/ MarkBatch(c)
    \/ ListContainers(c)
    \/ \E s \in Services : Inspect(c, s)
    \/ RemoveOld(c)
    \/ CreateNew(c)
    \/ StartNew(c)
    \/ SettleBatch(c)
    \/ Finish(c)
    \/ CancelWrite(c)

Next ==
    \/ \E c \in Callers : Begin(c) \/ Advance(c) \/ Interrupt(c)
    \/ Reboot

Spec == Init /\ [][Next]_vars

-----------------------------------------------------------------------------
(* Properties.                                                             *)

\* Versions count up without a gap, and two releases share one only if the calls
\* of both overlapped others: NextReleaseVersion is read before the insert.  The
\* code promises no more, although its documentation says "versioned
\* sequentially" (deployments.mdx:12) and RecordInitial's comment says "never ...
\* a duplicate v1" (service_impl.go:250).
VersionsContiguous ==
    \A i \in DOMAIN release :
        /\ \A v \in 1 .. release[i].version : v \in Versions
        /\ \A j \in DOMAIN release \ {i} :
              release[i].version = release[j].version => release[i].raced /\ release[j].raced

\* Releases are self-contained: once the initial release is recorded, every
\* release holds every service, whatever raced, failed or was cut short.
SnapshotsComplete ==
    \A i \in DOMAIN release : DOMAIN release[i].snap = Services

\* A deployment is left unfinished only when its call was cut short or its
\* strategy could not be looked up: Deploy, Rollback and Cancel write whole rows
\* over each other, and the last of them always writes a final state.
NoStuckDeployment ==
    \A d \in DOMAIN deployment :
        deployment[d].state \in Unfinished /\ (\A c \in Callers : call[c].dep # d) =>
            d \in cut \/ deployment[d].strategy = "unknown"

\* ServiceProgress tells what happened: a succeeded deployment has every service
\* succeeded, and a failed one names a service that failed.
ProgressHonest ==
    \A d \in DOMAIN deployment :
        LET row == deployment[d] IN
        /\ row.state = "succeeded" => \A s \in DOMAIN row.ups : row.progress[s] = "succeeded"
        /\ row.state = "failed" => \E s \in DOMAIN row.ups : row.progress[s] = "failed"

\* When a Rollback that overlapped no other call says it succeeded, every
\* service of the instance has a container with the release's image; unless it
\* had that image already when the Rollback came to it, the container runs and
\* has the environment the release names, if it names one, whatever failed
\* before.  The "full multi-service state" of release.go:15 would be more: a
\* container spared for its image may be stopped or have a newer environment
\* (docker/provider.go:429), and one whose release has no environment keeps the
\* newer one (:444).
RollbackRestores ==
    [][\A c \in Callers :
          Finish(c) /\ call[c].verb = "Rollback" /\ call[c].alone /\ ~call[c].failed =>
              \A s \in Services :
                  LET want == release[call[c].row.release].snap[s] IN
                  /\ s \in DOMAIN container
                  /\ container[s].image = want.image
                  /\ s \notin call[c].spared =>
                        container[s].up /\ want.env \in {NoEnv, container[s].env}]_vars

\* The deployments page: Cancel sets the state to cancelled and halts the
\* strategy, so a cancelled deployment stays cancelled.
CancelSticks ==
    [][\A d \in DOMAIN deployment :
          deployment[d].state = "cancelled" => deployment'[d].state = "cancelled"]_vars

=============================================================================
