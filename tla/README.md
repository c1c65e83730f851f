# ctrlplane: models, checks and proofs

ctrlplane is a Go library that provisions, deploys and deletes tenants'
services on docker, kubernetes or nomad. Its services hold no locks across
calls: each API request, worker tick or hook runs in a goroutine of its own,
loads a *copy* of a database row, calls a provider that may take minutes, and
writes the *whole* copy back. What can go wrong lies in the interleavings of
these read-call-write sequences, in the errors and crashes between their steps,
and in the rows and containers they leave behind. This directory models those
sequences, checks them with TLC and proves the most important facts about them
for every number of callers, instances and failures.

## Inventory

| Component | State it keeps | Operations | What is hard |
|---|---|---|---|
| `instance` service | one row per instance: state, suspension, services | Create, Update, Delete, Start, Stop, Restart, Scale, Suspend, Unsuspend | verbs of different callers overwrite each other's row; a provider verb fails half-way; crash between mark and settle; Delete against Create |
| `workload` service | one row per workload: state, count, count before Pause; replicas are instance rows found by label and slug | Create, Update, Scale, Pause, Resume, Restart, Deploy, Delete | loops over replicas that fail in the middle, are retried, race with another loop; adoption of rows left behind |
| `deploy` service and strategies | releases (numbered snapshots), deployments | Deploy, RecordInitial, Rollback, Cancel | version numbers under concurrency, partial deploys that inherit from the wrong release, Cancel against completion |
| `worker` (gc, reconciler, scheduler, health, telemetry, certificates) | none of its own; ticks | Run of each worker | sweeps limited to a page, races with the verbs above |
| providers: docker, kubernetes, nomad | containers, deployments, tracking ConfigMaps | Provision, Deprovision, Start, Stop, Restart, Deploy, Scale, Rollback, Status | partial application, missing projects, cleanup that depends on what was tracked |
| `dispatch`, `provider.Registry` | registered providers | Provision, Deprovision, Status by source type; Register, Get | a provider that disappears while rows name it |
| `bootstrap` | retired and desired services per hook | Reconcile | hook failures, crash while provisioning, a retiring service desired again |
| `event` bus | subscriptions, history | Publish, Subscribe, Unsubscribe | handlers while the list changes, index-based removal |
| `workload` streams, `metrics`, `health` watches | channels, subscriber lists, goroutines per replica | WatchHealth, WatchMetrics, StreamLogs, Track, Untrack, RunCheck | a send on a closed channel, lost or late events, goroutines that outlive their stream |
| `providerhealth`, `telemetry`, `observability` | caches, samples | checks, sweeps | stale entries |
| `secrets` and vault | two stores written in turn | Set, Get, Delete, Inject | one of two writes fails, a Set and a Delete cross |
| `network` | domains, routes, certificates; a router | AddRoute, RemoveRoute, ... | the store and the router diverge |
| `datacenter`, `template`, `vars`, `render`, `admin` | rows, tenants, quotas | CRUD, resolution | check-then-act, quotas |
| stores: memory, badger, mongo, postgres, sqlite | the tables | Insert, Update, Delete, List, ... | backends that disagree on uniqueness, missing rows, filters |
| `api`, `app`, `cmd`, `dashboard`, `extension`, `auth`, `plugin`, `audit_hook` | wiring | HTTP handlers, pages, hooks | no state of their own |

How they interact: `workload` calls `instance` and `deploy`; `instance` and
`deploy` call the provider through `dispatch` and publish on the `event` bus;
the garbage collector reads `workload`'s table and calls `instance.Delete`;
the reconciler calls `bootstrap`, which calls the provider with projects of its own;
everything reads and writes the store.

## Modules

The service modules share one shape. The tables are functions or sequences; `call[c]` is
what caller `c` (an API request's goroutine) has in flight, with the private
copy of the row it loaded; one action is the code between two calls to the store
or the provider, so everything another goroutine may interleave with is a step
of its own. `Outcome(ok)`, `Provider(...)` and `Fail(...)` let a call fail;
`Interrupt` is a cancelled context or a failing checked store call, `Reboot` loses
every call in flight and keeps the tables. Variables marked *history* are written by
the model only: they let a property say "unless the call was cut short" and the
like, and no guard reads them.

| Module | Code | How state and actions correspond |
|---|---|---|
| `InstanceLifecycle` | `instance/service_impl.go`, `instance/state.go`, `store/memory/instance.go`, the providers' verbs | `row` is the instance table, `backend` what the provider holds of an instance's project. `Load`/`Mark`/`RunVerb`/settle are the four parts of Start, Stop, Restart, Suspend, Unsuspend and Scale; `CreateInsert`..., the Delete steps and Update follow their functions. `Lenient` says whether verbs on a missing project succeed (docker loops over no containers) or fail (kubernetes finds no Deployment; there a Scale also starts a project that was stopped, `Wakes`). `DeleteDisown` is Delete without a registered provider, whose store error is dropped and whose event is published in any case. |
| `WorkloadReplicas` | `workload/service_impl.go`, `workload/transitions.go`, `store/memory/workload.go` | `workload` and `instance` are the two tables, replicas are found by label (`owner`) and slug (`index`). `Begin*` is the load and validation of a verb, `SpawnLookup`/`SpawnInsert`/`SpawnProvision` are `spawnReplica`, `ScaleRemove`, `RestartOne`, `DeployOne`, `DeleteOne` one iteration of each loop, `*Finish` the last write. `Legacy` are slugs held by instances without labels, which `spawnReplica` adopts. A listing is `PageOf` the replicas: `ListInstances` asks for 1000 rows, and all but two backends match the label in those that came, so each listing reaches some number in `Rooms` of a workload's newest replicas. |
| `ReplicaCollection` | `worker/gc.go` | Extends `WorkloadReplicas` with the collector's sweep: `GCList` (one page, newest first), `GCCheck` (`isOrphan`), `GCDelete`; `Age` moves instances past the grace period; `Stranger` is an instance somebody else creates, which takes a place in the page. The two components run on the same tables. |
| `DeployRelease` | `deploy/service_impl.go`, `deploy/strategies`, `store/memory/deploy.go`, `provider/docker/provider.go` (Deploy) | `release`, `deployment` and `container` of one instance. Deploy reads the version, builds the snapshot, inserts release and deployment, then drives a strategy: `MarkBatch`, `ListContainers`, then one container at a time is inspected, removed, created and started, in steps of their own, `SettleBatch`, `Finish`. Rollback and Cancel share those tables. A container has an image, an environment, and runs or does not. `alone` and `listed` record, for the properties and for docker's stale container IDs, what other calls did meanwhile. |
| `StorePolicies` | `store/memory`, `store/badger`, `store/mongo`, `store/postgres`, `store/sqlite` | A policy for each of 13 tables on each of 5 backends: whether the table is served at all, whether an insert checks its business key, what an update or delete of a missing row does, which rows a tenant's calls reach, which secondary index a lookup reads. |
| `Stores` | the same | The operations under a policy, by one client per tenant with a copy of any age: `Insert`, `Get`, the lookups by key (badger's datacenters and bootstraps in two transactions), `List`, `Update`, `Delete`. A secret is addressed by its owner, instance and key, not by its row's ID (`Target`), so that a stale write reaches a recreated secret. Table and backend are chosen in the initial state. |
| `RecordStore` | the store interfaces' comments and their callers | The abstract specification: what the services take a table to be. `Stores` implements it (`Contract == INSTANCE RecordStore WITH ...`). |
| `Bootstrap` | `bootstrap/`, `worker/reconciler.go`, `worker/scheduler.go`, `store/memory/bootstrap.go` | `tick` is the reconciler's position in a tick and its local variables: the walk over the listed datacenters, the desired set, then `Retire`, `Deprovision` (with its write of the row after a failure), `Drop` and `Insert`, `Mark`, `Provision`, `Save` for one service after the other. `declared` is what operators edit meanwhile, `Contribution` what hooks add, `live` what the provider runs, `Crash` the end of the process between two steps. |
| `Providers` | `provider/docker`, `provider/kubernetes` (Deployment, StatefulSet, manifests, helm, argo), `provider/nomad`, `dispatch` | A verb is the list `call.todo` of API calls on the objects of one instance; each is one step that succeeds, fails, or takes effect and loses its answer, and what the code does about an error (stop, go on, ignore) is part of the call. `tracked` is the manifests' ConfigMap. `ListedAs` and `sortByDeps` translate docker's classification and sorting of the services. |
| `ReplicaStream` | `workload/streaming.go`, `workload/metrics_streaming.go`, `metrics/service_impl.go`, `metrics/tracker.go`, `health/service_impl.go` (Watch, RunCheck) | One stream: `fanin` is the goroutine that resyncs and merges, `reader[r]` the goroutine per replica, `chan[r]`/`buffer[r]` the source's channel and `out` the merged one. A send that blocks is a step whose guard waits for room; `Push`, `UntrackSubs` and `Unwatch` are the critical sections of the metrics service. |
| `MirroredRows` | `secrets/service_impl.go`, `secrets/memoryvault`, `network/service_impl.go`, their memory tables | `row` is a secret's, route's or domain's row, `outside` the vault's value or what the router serves, `issued` and `recorded` certificates at the router and in the store. Every verb is its check and then one action per write; a write outside that fails may have taken effect. `SetRouter` binds the router late, as the comment at `network/service_impl.go:33` describes. |
| `*_proofs` | | Theorems about nine of them, below; those about `ReplicaCollection` are in `WorkloadReplicas_proofs`. |
| `MC*` | | Which caller issues which verb, and values of the parameters, for TLC. |

Definitions whose comment begins with "Mutant of" are faulty variants of a
definition, each a bug that could plausibly be made in that code; a property is
kept only if one of them violates it. They are part of no specification.

How the modules fit together: `ReplicaCollection` composes the collector with the
workload service; `InstanceLifecycle`'s one-variable `backend` and its `Lenient`
summarise what `Providers` shows engine by engine (a verb that fails half-way, verbs
on a missing project); the memory tables that `InstanceLifecycle`,
`WorkloadReplicas`, `Bootstrap` and `MirroredRows` use row by row are instances of
what `Stores` shows of every table (an update or delete of a missing row is
refused, an ID never returns).

## Runs and bounds

| Run | Question | Bounds | States |
|---|---|---|---|
| `instance_solo` | Does a row at rest tell the truth about its project (`RowMatchesBackend`), and does Running imply there is one (`RunningHasProject`)? | 1 caller, all verbs; 2 instances, one already running; provider that refuses missing projects and whose Scale starts a stopped one; 2 mishaps | 469,130 |
| `instance_race` | Can racing verbs leave a transitional state (`NoStuckTransitional`), leak a project (`NoOrphanProject`), bring a row back (`NoResurrection`), delete twice (`DeletionFinal`)? Does a repeated Delete get there (`DeleteConverges`)? | 2 callers, all verbs but Update and Scale, 1 instance, lenient provider, 2 mishaps | 319,415 |
| `replicas_solo` | Do Active and Paused rows have the replica rows they count (`CountMatches`), does Resume restore what Pause took (`ResumeRestores`), do shrinks keep the oldest (`ShrinkKeepsOldest`)? | 1 caller, all verbs, 2 workloads of one slug, counts 1 to 3, listings that reach 2 or 3 replicas, 4 inserts, 2 mishaps | 4,897,820 |
| `collect_all` | Does a replica outlive its workload only when a Delete or a listing could not see it (`NoOrphanReplica`), and does the last writer settle the row (`NoStuckState`)? Does the collector delete only orphans (`CollectorSparesReplicas`), and all its page lets it see (`OrphansCollected`)? Is a workload under repeated Delete gone in the end, with its replicas (`DeleteConverges`)? | 2 callers (Create, Scale, Deploy against Delete), 1 workload of 2 replicas, listings that reach 1 or 2, a collector's page of 1, another caller's instance on slug 1, 2 inserts, 1 mishap | 277,302 |
| `deploy_race` | Are versions gapless and shared by overlapping calls only (`VersionsContiguous`), releases complete (`SnapshotsComplete`), is no deployment left unfinished (`NoStuckDeployment`), is progress true (`ProgressHonest`), what does a Rollback restore (`RollbackRestores`)? | 2 callers, all verbs, 2 services, 2 images, an environment or none, 2 requests, 3 releases, 3 deployments, 1 mishap | 3,635,091 |
| `deploy_cancel` | The first disagreement below (expects a violation of `CancelSticks`) | 2 callers, no mishap | |
| `stores_all` | On which tables of which backends are keys unique under racing creators (`KeysUnique`) and secondary keys exact (`IndexExact`)? Does every table of every backend behave as `RecordStore` says (`ImplementsContract`)? | all 65 tables; 2 tenants (one the platform), 2 IDs, 2 keys, 1 update | 666,637 |
| `bootstrap_all` | Is no project without its row (`ProjectsHaveRows`), no service run twice (`OneProjectPerService`), running true (`RunningIsLive`), and does a datacenter get what is agreed to be wanted of it (`Converges`)? | 1 shared datacenter, 2 services, 2 bodies, 2 hooks that disagree on one service and agree on the other, 3 rows, 2 edits, 2 mishaps | 1,379,809 |
| `bootstrap_lost` | The second disagreement below (expects a violation of `NextTickRecovers`) | the same, no edit, no crash, 1 mishap | |
| `providers_all` | Is a successful Provision whole (`ProvisionIsWhole`), a successful Deprovision clean (`DeprovisionIsClean`), in which order are services started (`StartsInOrder`), and does repeating a verb get there (`RepeatingHelps`)? | all 7 engines; 5 services (an init, a sidecar, 3 mains with seven graphs of dependencies between them), 2 documents, 2 mishaps | 65,681 |
| `stream_all` | Does nobody send on a closed channel (`NoSendAfterClose`), is nothing accepted lost or reordered (`DeliveredInOrder`), does a cancelled stream close (`TeardownEnds`) and an open one follow its replicas (`StreamFollows`)? | 2 replicas, one of them late, all 4 kinds of stream, buffers of 1, 2 events each, 1 mishap | 269,600 |
| `mirror_all` | When do store and vault, or store and router, diverge (`DivergenceHasCause`), is a removal final (`RemovalIsFinal`), and does a call that was alone mend what it found (`LoneCallMends`)? | 3 callers, a secret, a route and a domain, 2 contents, 2 certificates, 2 mishaps | 45,740 |

The bounds, by name. `Instances`, `Workloads`, `Ids`, `Certs`, `MaxInstances`,
`MaxReleases` and `MaxDeployments` are pools of IDs: NewEntity never mints one twice,
so a pool is finite and a behaviour ends when it is used up. The programs too may
stop, with every request answered: the runs say `CHECK_DEADLOCK FALSE` for that
reason. `MaxMishaps` bounds failures, interruptions and reboots together: one mishap
in every place already gives every single-fault behaviour, two a fault during the
recovery from a fault. `MaxEdits` bounds what operators change while a tick runs,
`MaxVal` the updates of a stored row, `MaxEvents` the events of a replica. `Rooms` stands for
the page of 1000 rows and `MaxPerTick` for the collector's: small enough that replicas
lie beyond them. Two callers are enough for every hazard listed, since each is
between a call and one that overtakes it; the proofs cover any number. Two services tell "listed" from
"inherited", "failed" from "not reached". Counts up to 3 let a shrink remove some
replicas and keep some. Two workloads share one slug, so that a replica of a deleted
workload stands in a new one's way. Buffers of one element are full after one event,
so every block and every drop happens.

Three more bounds of `ReplicaStream` are not numbers: the poller of one replica is
between ring and subscribers at a time; the tracker takes no Started event after the
Deleted one of the same instance (a finding below); a log stream that ended is not
opened again, as in the code, so `StreamFollows` claims following for health and
metrics only.

`SYMMETRY` in `deploy_race` permutes callers, in `mirror_all` callers
and certificates: initial states, constants and properties treat them alike,
`CHOOSE` picks only numbers there, and neither run checks a liveness property.

What races in which run. `instance_race` leaves out Update and Scale, which write back
the state they loaded and may undo a settled one. `collect_all` leaves out Update and
Pause for the same reason: a Scale that finished in between is undone to `Scaling` for
good (hazards, `workload/service_impl.go:423`). Two Scales at once are in no run; of
them the theorems `NoOrphans`, for any callers and verbs, and `NeverStuck`, for all verbs
but Update and Pause, are what is shown. The slug collision of two workloads is in `replicas_solo`, that of a stranger's
instance in `collect_all`.

## Fairness

Safety properties are checked without fairness. Liveness is checked in six runs.

- `InstanceLifecycle!Fairness`: weak fairness of `Advance(c)` for each caller,
  since a goroutine in a call always goes on (a failing provider call is a step
  too; one that hangs for ever is not modelled); strong fairness of "some caller
  begins Delete on i": the operator who keeps asking for the Delete gets a turn
  although other verbs come and go. No fairness for any other verb to begin.
- `ReplicaCollection!GCFairness`: weak fairness of the collector's steps (the
  scheduler ticks for ever, a tick always ends) and of time passing, of
  `Advance(c)`, and of `BeginDelete` for a caller that issues nothing but Delete.
- `Bootstrap!Spec` (two runs): weak fairness of `Step`. The scheduler ticks for ever, restarts
  with the process, and a tick always ends; operators need not edit anything.
- `Providers!Fairness`: a verb under way goes on, and a caller who has decided to
  insist (`aim`) repeats the verb. `RepeatingHelps` speaks of such callers only.
- `ReplicaStream!FairSpec`: the goroutines of a stream that can run do: weak
  fairness of the merging goroutine, of each reader, of the source's unsubscription
  and of the last close; strong fairness of `TearDown`, one case of a `select` beside
  a ticker, because a context once done stays done and the select picks it in the
  end. None for the consumer, who may stop reading for ever, nor for events, scaling
  or logs.

Failures are bounded, so fairness of `Advance` says in effect that a call which
is retried often enough meets a provider that works. Without that, nothing the
control plane does converges.

## Proofs

Eight modules of theorems, checked to the last leaf by tlapm 1.4.5. Each holds for any
sets of callers, IDs and values, any `MayCall` and any number of mishaps; what is
assumed of the constants is the `*Assumption` of the module proved about, and what a
theorem states as its own hypothesis (`Settling`, `Solo`, `~Lenient`, `0 \notin Targets`, `Legacy = {}`,
`Recorded`). Type correctness is a theorem in each of them (`TypeCorrect`, `GCTypeCorrect`).

`InstanceLifecycle_proofs` (`LifecycleAssumption`):

- `NoProjectOrphaned` (`NoOrphanProject`): a project without a row is one whose
  Delete ran with its provider unregistered, or that a Create was still
  provisioning.
- `DeletedForGood` (`DeletionFinal`): one InstanceDeleted per instance, after
  which the row is gone, but for Deletes that find the provider unregistered: those
  publish besides, and alone may publish for a row that stays.
- `NeverResurrected` (`NoResurrection`): no stale copy brings a row back.
- `NeverStuck`: `Settling => (Spec => []NoStuckTransitional)`, where `Settling` says that no
  caller issues Update or Scale, the verbs that write back the state they loaded. A
  Delete without a provider that failed to drop its row (`kept`) is an exception.
- `RowTellsTheTruth`: `Solo => (Spec => []RowMatchesBackend)` and `RunningIsProvisioned`:
  `Solo /\ ~Lenient => (Spec => []RunningHasProject)`, where `Solo` says that there is one
  caller. A Stopped row may stand over a running project where kubernetes' Scale woke
  it (`woken`, kept until the project is stopped again).

None of the first three is inductive alone. `IInv` adds what they rest on: calls and
projects concern minted IDs and hold a copy of a row that was there
(`OnlyMinted`); nobody writes `Destroyed`, so Delete never takes its early exit
(`NeverDestroyed`); a Delete that is about to drop the row has nothing left
behind it or a recorded reason (`DropSecured`), and this stays so once the row is
gone (`GoneSecured`), because only a Create in flight could provision again and
`Quiet` excludes it; a published deletion is of a minted row that is gone
(`DeletedOnce`). `NeverStuck` rests on `Driven`: whoever writes a transitional state is
from then on bound to write the row once more, a settled state or none
(`SettledGoals`), unless it is cut short. The last two rest on `SoloInv`: each stage of
a verb has made sure of something about the project (`Assured`), so that the row it
settles fits the project (`Fits`).

`WorkloadReplicas_proofs` (`ReplicasAssumption`). `TypeCorrect` needs two facts about
numbers: that the indices of the replicas have a largest one, for
`nextReplicaIndex`, and that the indices still to fill have a smallest
(`LargestExists`, `LowestTyped`).

- `NoOrphans` (`NoOrphanReplica`): a replica outlives its workload's row only if it
  was inserted while a Delete was in flight, or after it, or lay outside the page of
  some listing (`missed`). The invariant adds
  `Named`, a call in flight is about a workload and its copy is of a row that was
  there, so that no write-back is taken for a removal; and `Covered`, a Delete whose
  walk has met no error has every live replica of its workload still ahead of it,
  save those missed. When the walk ends cleanly nothing is ahead, so the row
  Delete drops leaves only missed replicas. Most steps cannot disturb `Covered`:
  they let no replica appear or change hands, no row disappear, and leave their
  caller outside Delete's walk (`QuietStep`); the lemmas `SpawnCovered`,
  `ListCovered`, `DeleteOneCovered` and `DeleteFinishCovered` are the steps that could.
- `NeverStuck`: `Settling => (Spec => []NoStuckState)`, where `Settling` says that no caller
  issues Update or Pause, which write back the state they loaded. Its invariant is
  again `Driven`: past its mark, every verb but Restart is bound to settle the row
  (`Active`, `Paused`, `Failed`) or to drop it.

- `CountsMatch`: `Solo /\ Legacy = {} => (Spec => []CountMatches)`, which counts rows, Failed
  ones included, and speaks of workloads no listing cut off; `ResumesRestore`:
  `Solo /\ 0 \notin Targets => (Spec => ResumeRestores)` and `ShrinksKeepOldest`:
  `Solo => (Spec => ShrinkKeepsOldest)`. `Solo` says that calls come one at a time, as in
  the run `replicas_solo`: two Scales at once count each other's replicas. An
  unlabelled row adopted for its slug is never counted (hence `Legacy = {}`), and a
  Scale to zero leaves no stamp for Resume to read (hence `0 \notin Targets`); both are
  what the code does, and are listed below.

These three share `HeldInv`: a call holds the row as it is in the table, but for what
it has itself written. `CountInv` then counts, by cardinality: a call that is
spawning has as many indices to fill as it lacks replicas (`Filling`), one that is
shrinking as many victims ahead of it as it has too many (`Shrinking`), a deploy
keeps the number it counted on (`Keeping`); what makes the numbers add up is that no two
replicas of a workload have one index (`TableInv`: slugs are unique and labels agree with
them). `MemoryInv` says that a row at zero holds the count of before (`AtZero`) and that a
Pause past its stamp has written it (`Remembers`). `NewestInv` says that what a shrink has
still to remove is newer than all it will keep.

About `ReplicaCollection`, in the same module, for any size of page besides
(`CollectionAssumption`) and on the same lemmas:

- `GCTypeCorrect`: the sweep stays within its types.
- `CollectorSpares` (`CollectorSparesReplicas`): the lookup by which the collector
  decides is stale when it deletes, and still no workload loses a replica to it. The
  invariant `GCInv` says why: a workload ID is created once and every row, call and
  label names one that was (`Known`), so the workload the lookup missed, and the
  replica's label names, cannot come back (`Doomed`); a page holds only rows that were
  inserted (`Listed`), so the ID about to be deleted is never a fresh replica's.
  `TameKeeps` covers every step that adds neither a replica nor a workload row;
  `InsertKeeps` and `BeginKeeps` are the two that do.

`DeployRelease_proofs`, for any services, images and strategies:

- `VersionsStayContiguous` (`VersionsContiguous`), from `VersionsCounted`: the version a
  call has read is at most one past the newest in the table; and from `Ahead`: nobody
  draws the version of a call that has had the service to itself, so that a shared
  version is one of two overlapping calls (`Unshared`).
- `ReleasesAreComplete`: `[](Recorded => SnapshotsComplete)`. The constant `Recorded` says
  that RecordInitial has run when the behaviour starts, and it is needed: without its
  release a partial Deploy has nothing to inherit from.
- `NoDeploymentStuck` (`NoStuckDeployment`), from `Driving`: an unfinished deployment
  has a call that drives it, or a recorded reason.
- `ProgressStaysHonest` (`ProgressHonest`) and `RollbackDoesRestore`
  (`Recorded => RollbackRestores`): a container that was recreated runs with the release's
  image and with the environment it names; one spared for its image has the image.

Per call the invariant says which fields its step has filled (`Shape`, `Course`),
that its batches and snapshot are drawn from its request and release (`Drawn`,
`Filled`), that it drives a deployment of its own (`Tied`), that the containers it
listed are still those (`Sighted`, while it is alone), and what a Rollback has
restored so far (`Restoring`, `Achieved`). Across calls: at most one call is alone
(`Alone`), and snapshots list something, and everything once the initial release is
recorded (`SnapshotsSome`, `SnapshotsFull`).

`Stores_proofs`. Which policy a table has on which backend is a finite matter; the
lemmas `Sound` go through the policies table by table, and the steps are then proved
once, for any sound policy, any tenants, IDs, keys and number of updates.

- `KeysStayUnique` (`KeysUnique`), `IndexesStayExact` (`IndexExact`).
- `EveryBackendKeepsTheContract` (`ImplementsContract`): `Stores` implements
  `RecordStore`, the table the services believe they use. `StepMaps` shows each step
  of the detailed store to be one of the abstract one or a stutter. What it rests on:
  a row's owner and key never change and an ID never returns, so a client's old copy
  (`CopyTied`) and an index entry it has just read (`FoundTied`) name the row they
  came from or none; a secret's copy names the row that has its owner, instance and key
  now, which is unique, and a deleted row leaves that name behind (`gone`).

`Bootstrap_proofs`, for any services, bodies, hooks and edits:

- `EveryProjectHasARow` (`ProjectsHaveRows`), `NeverTwoProjects`
  (`OneProjectPerService`), `RunningTellsTheTruth` (`RunningIsLive`). The invariant
  follows a tick through its walk: what it still has to visit (`Walking`), what it is
  serving and from which copy (`Serving`, `InHandKnown`), that the copies it still
  has to act on have their rows (`Tied`), that what it is about to install is wanted
  (`Wanting`), and that a datacenter has one row of a name (`UniqueRows`).

`ReplicaStream_proofs`, for any replicas, buffers and events:

- `NeverSendsAfterClose` (`NoSendAfterClose`): no goroutine sends on a closed channel,
  which would panic. Readers are added by the resync alone (`OnlySyncAdds`); when the
  merged channel is closed the merging goroutine is over and every reader gone
  (`ClosedAtEnd`, `ReadersGone`); and a source still listed among the subscribers of
  metrics or health has an open channel, log streams never being listed
  (`ListedOpen`, `LogsUnlisted`).
- `DeliversInOrder` (`DeliveredInOrder`): an event on its way is in the merged channel, in
  its reader's hand or in the source's buffer. Each place is in order and ahead of the
  next (`OutUp`, `BufferUp`, `Queued`), what is on its way was accepted and not yet
  taken (`Fresh`), and only a cancelled reader has lost one (`Whole`). The last needs
  `Opened`: a reader that ran is in the map or was cancelled, and whoever is in the map
  is not opened again, so that nobody overwrites what a reader holds.

`Providers_proofs` (`ProvidersAssumption`), for any services, roles, orders, documents and
number of failed calls, on each of the seven engines:

- `ProvisionsAreWhole` (`ProvisionIsWhole`) and `DeprovisionsAreClean`
  (`DeprovisionIsClean`). The properties speak of the end of a verb; the invariant, of
  what is left of it: under a Provision, an object of what is asked for that is not yet
  right is still to be called for (`BuildingOn`), and under a Deprovision an object that
  is still there was passed over or is still to be deleted (`ClearingOn`). At the last
  call nothing is left, which is the property. Every call of a Provision stops the verb
  at an error (`Building`); those of a Deprovision need not, and what they drop is what
  `escaped` collects. `DockerBuilds` and the lemmas beside it say that each engine's list
  of calls deals with all its objects, which on docker needs that sorting loses no service.
- `ServicesStartInOrder` (`StartsInOrder`), whatever the services depend on: the roles come
  one after the other, an order of the request's own is kept if it is right, and no
  service starts right before one it depends on, unless each depends on the other. An
  insertion stops at the first neighbour that does not depend on what is inserted, which
  is all that `SiftAdjacent` needs; `SiftInOrder` says that one nobody before it depends
  on stays where it is. A topological order is not proved because it is false
  (finding below). `ProvidersAssumption` limits a list to 20 services: up to there
  Go's stable sort is one insertion sort.

`sortByDeps` and `ListedAs` are recursive functions, and the lemmas on them are by induction on
the length of the list. The library's induction theorem takes an operator, which the
provers cannot instantiate; `Induction` states it for a set of numbers instead, and is
proved from the library's fact that < is well-founded on the naturals. `RunExists` shows
that a function so defined exists, and `SiftIs` and `SortIs` what one insertion and all of them
preserve.

`MirroredRows_proofs`, for any secrets, routes, domains, certificates and contents:

- `DivergenceIsExplained` (`DivergenceHasCause`), `RemovalSticks` (`RemovalIsFinal`) and
  `AloneMends` (`LoneCallMends`). As long as nothing explains a divergence (`Trusted`),
  each call knows how far row and outside copy are apart because of it (`Knows`), two
  calls do not work on one entity unnoticed (`Alone`, `Apart`), and entities nobody
  works on agree (`Agreed`); what was removed or settled stays so (`GoneInv`,
  `SettledInv`), and certificates recorded are issued (`CertsInv`).

## Where the code and its documentation disagree

A run that TLC refutes, with the line quoted in PROJECT.json:

- `deploy_cancel`: Cancel does not halt the rollout, which overwrites the cancelled
  state (`deploy/service_impl.go:523`, deployments.mdx:77).
- `bootstrap_lost`: the next tick does not recover every lost write: a row whose write of
  `running` was lost stays in provisioning, and no tick looks at it again
  (`bootstrap/service_impl.go:226`, comment at 185).

Met while reading and modelling, without a run of their own. Most of the behaviour of
the first group is in the models, where it shows as the exception a property names or
as a verb a run leaves out.

*Instances, workloads, deploys*

- Delete during a Create's Provision drops the row and leaves the containers
  (`instance/service_impl.go:332`, comment at 276).
- Update writes back the state it loaded, over a Start or Stop
  (`instance/service_impl.go:240`, comment at 239).
- Scale on kubernetes starts a stopped or suspended project, whose row still says
  Stopped (`instance/service_impl.go:514`, `provider/kubernetes/provider.go:437`).
- Delete without a registered provider drops the error of store.Delete and publishes
  InstanceDeleted in any case: for a row that stayed, and twice when two Deletes meet
  (`instance/service_impl.go:319`). The garbage collector publishes an event of its own
  beside that of the Delete it calls (`worker/gc.go:268`).
- ListInstances asks for 1000 rows and matches the label in what came, on postgres,
  sqlite and badger; its comment at 705 "guarantees correctness regardless of backend".
  With more instances in the tenant Scale, Pause and Deploy miss replicas, and Delete
  leaves them behind (`workload/service_impl.go:719`).
- The documented retry of Scale counts a replica that failed to provision and says
  Active, over rows that are Failed (`workload/service_impl.go:335`, comments at 60-66
  and `workload.go:74`).
- A Delete that failed leaves Failed (`workload/service_impl.go:681`), not Destroying as
  its comment has it (624-627).
- The collector's page has no cursor: a tick lists the newest instances again, so "the
  remainder is picked up by the next tick" holds only if those are deleted meanwhile;
  a page of instances that stay hides older orphans for good (`worker/gc.go:221`, comment
  at 54).
- A Deploy that changes only the environment succeeds and does nothing
  (`provider/docker/provider.go:429`, comment at 374).
- workload.Delete and the failure paths write states that `validTransitions` does
  not allow; only Scale and Deploy validate.
- An unlabelled instance adopted for its slug is not labelled, so ListInstances
  does not count it and the workload's count and replica set differ.
- After a Scale to zero, Resume starts one replica, or as many as an earlier Pause had
  taken, and not those that were scaled away (`workload/service_impl.go:443`).
- docker's Start and Restart of a project without containers succeed, and the row
  says Running; Status says Running and Ready when the main container was never
  created.
- A docker recreation that fails after removing the container leaves a service that
  no later Deploy or Rollback can address: Deploy reports an unknown service.
- `rolled_back` is listed as a deployment's state (`deploy/deploy.go:27`,
  deployments.mdx:101) and never written: a Rollback is a deployment that succeeds.
- Racing Deploys read the same next version and both insert it, against "versioned
  sequentially" (deployments.mdx:12); racing RecordInitials insert version 1 twice,
  against the comment at `deploy/service_impl.go:250`.
- A Rollback restores images, not the "full multi-service state" of `deploy/release.go:15`
  and deployments.mdx:67: a container with the right image is skipped although it may be
  stopped or have another environment (`provider/docker/provider.go:429`), and a release
  without an environment keeps the newer one (444).
- A partial Deploy after a Rollback inherits the images that were rolled back, as
  the newest release is the one before the Rollback.
- RecordInitial that raced or failed leaves later releases without the services
  they do not list, although releases are documented as self-contained.

*Bootstrap and reconciler*

- Datacenters owned by a tenant are never reconciled (`worker/reconciler.go:84`,
  comment at 70).
- A row left in provisioning, retiring or retired by a crash or a failed write is not
  retried as such, also when its service is wanted again
  (`bootstrap/service_impl.go:233`); an error of one hook retires the services it had
  contributed.
- Two hooks that give one name different bodies replace each other's project tick after
  tick: the hooks are walked in a Go map's order (`bootstrap/hook.go:75`), while the
  comment at `bootstrap/service_impl.go:135` has the earlier hook win. `Converges` speaks
  of names whose hooks agree.
- A deleted datacenter's bootstrap rows and projects are left; datacenter.Delete counts
  the instances of the calling tenant only, on mongo it always counts none, and the
  postgres query names a column that is not there.
- The comment at `datacenter/service_impl.go:76` describes a slug check that the stores
  do not all make.

*Stores*

- Fields lost on a round trip, which no model tells apart: instances on mongo, postgres
  and sqlite drop DatacenterID, CurrentRelease and SuspendedAt
  (`store/mongo/models.go:70`); tenants on mongo and sqlite drop Plan, Quota, SuspendedAt
  and Metadata; checks drop Target and Retries, routes ServiceName, secrets ID, Type and
  Version (so Inject, which takes only secrets of type env, injects nothing there), audit entries ActorType and IPAddress; sqlite's telemetry
  drops Labels, Fields and Attributes.
- Business keys an insert does not check: domains on memory and badger, workloads on
  mongo and postgres, instances on postgres and sqlite. `KeysUnique` speaks of the
  tables that do check.
- UpdateSecret and DeleteSecret address by instance and key: a stale write or delete
  reaches the secret that was created in its place (`store/memory/secrets.go:69`,
  `store/badger/secrets.go:85`, `store/mongo/secrets.go:70`). mongo's and postgres'
  workloads, datacenters and bootstraps acknowledge an update of a row that is gone.
- Memory's telemetry queries keep the oldest entries under a Limit;
  `store/sqlite/migrations.go:633` alters a table that is never created.
- Quotas are never enforced; UpdateTenant, SuspendTenant and SetQuota overwrite whole
  rows of each other.
- Memory's clones are shallow (`store/memory/workload.go:128`).

*Providers*

- kubernetes' Start, Stop, Restart and Status know Deployments only, not StatefulSets;
  Deprovision tolerates errors only when both deletions fail (`provider.go:241`, comment
  at 230).
- Re-applying manifests with fewer documents forgets the dropped ones; a helm release is
  uninstalled from another namespace than it may have been installed into.
- `sortByDeps` is called a stable topological sort (`provider/docker/services.go:155`);
  its comparison is not transitive, and dependencies that are not neighbours stay as they
  are. Listed as api, db, web with api depending on web, api is started first. The run
  has such services; `StartsInOrder` says what the sort does do.

*Streams, secrets, network, events*

- A Started event after the Deleted one of the same instance leaves a poller for ever
  (`metrics/tracker.go:30`); an old poller's sample in flight lands in the new ring
  (`metrics/service_impl.go:75`).
- The comment at `workload/streaming.go:20` has the fan-in drop for a slow consumer; it
  blocks, and the sources drop. That at `workload/service.go:94` has a log stream close
  when all its replicas' streams ended; one that follows closes only with its context.
- A log stream that ended, also one with an over-long line, is not opened again.
- A secret's Delete that was cut between vault and store cannot be retried: the vault
  answers not found, the row stays, and Inject fails for the whole instance until the
  secret is Set again. Of two racing first Sets the value of the refused one may be
  stored.
- A Remove whose router call failed cannot be retried, its row being gone; routes
  added before SetRouter never reach the router.
- The event bus unsubscribes by index (`event/inmemory.go:123`), so a second
  unsubscription shifts another's, and Publish stops at the first handler that fails.
- The health runner's Run is a TODO.

## What is only model-checked, what is not modelled, and the plan

Model-checked only:

- Liveness (`DeleteConverges`, `OrphansCollected`, `Converges`, `RepeatingHelps`,
  `TeardownEnds`, `StreamFollows`), which TLAPS cannot prove under fairness.
- Nothing else: every safety property of a passing run is a theorem, those of calls made
  one at a time and of verbs that write back what they loaded under the hypotheses named
  above. The runs that expect a violation (`deploy_cancel`, `bootstrap_lost`) have none.

Left to no property although the models have it, each named in PROJECT.json's hazards with
its reason: the orphan of a Delete over a Create in Provision, Updates that undo what
another verb wrote, two Scales with one next index, kubernetes' swallowed deletions, and
a route whose removal the router refused.

Abstracted: names, images, environments and contents are model values; tenants occur
where a table's rows are filtered by them (`Stores`); `workload` treats
instance.Service's Delete, Restart and Provision as one step each
(`InstanceLifecycle` has their steps); a database's own transactions are atomic;
events other than InstanceDeleted, logging, tracing and audit are left out.

Not modelled, and why:

- `dashboard` (close to half of the repository's lines are pages generated from
  templates), `api`, `app`, `cmd`, `extension`, `auth`, `docs`, `examples`: decoding,
  wiring and pages, no state of their own.
- `vars`, `render`, `template`, the building of kubernetes objects and nomad jobs: pure
  functions over strings and structures, abstracted to the set of objects they yield.
- `telemetry`, `observability`, `providerhealth`, checkers, `plugin`, `audit_hook`:
  collection and forwarding of values on which no control depends.
- The event bus: one mutex, one process; only tests unsubscribe.
- Exec, Logs and Resources of the providers, and kubernetes' and nomad's Deploy.
- In `secrets`: replacing the vault, and the memory vault's loss of its values at a
  restart while the store keeps the rows; a secret's Version and Type. In `network`: a
  router that replaces another, or is set to none.

What comes next, in this order:

1. `DatacenterRemoval`: the count before a Delete, against creations, with the
   bootstrap rows left behind; with `admin`'s whole-row updates of a tenant.
2. `InstanceLifecycle`'s `backend` refined by `Providers`, so that `Lenient` is derived
   instead of given.
3. What the proofs ask for one caller, for several callers that work on different
   workloads.
4. `EventBus`, `providerhealth`, and `vars` as functions against a reference definition.
