--------------------------- MODULE WorkloadReplicas ---------------------------
(***************************************************************************)
(* workload.service: a workload row states how many replicas it wants, and *)
(* the replicas are instance rows found by their label and addressed by    *)
(* their slug, "<workload slug>-<index>".  Every verb loads a copy of the  *)
(* workload row, walks over the replicas one instance.Service call at a    *)
(* time and writes the whole copy back, with no lock held in between.      *)
(*                                                                         *)
(* All Workloads share one slug: those with other slugs never meet in the  *)
(* instance table.  instance.Service's Delete, Restart and the Provision   *)
(* of its Create are one step each; InstanceLifecycle has their steps.     *)
(***************************************************************************)
EXTENDS Integers, FiniteSets

CONSTANTS
    Workloads,      \* workload IDs; NewEntity never mints one twice
    NoOne,          \* the workload of an idle caller, the label of a legacy row
    Callers,
    MayCall,        \* the verbs each caller issues
    Targets,        \* replica counts asked for
    Legacy,         \* indices whose slug an instance without labels holds
    Rooms,          \* how many of a workload's replicas one listing may reach
    MaxInstances,   \* bound on the instance rows ever inserted
    MaxMishaps      \* bound on failures, interruptions and reboots together

Verbs == {"Create", "Update", "Scale", "Pause", "Resume", "Restart", "Deploy", "Delete"}

ASSUME ReplicasAssumption ==
    /\ NoOne \notin Workloads
    /\ MayCall \in [Callers -> SUBSET Verbs]
    /\ Targets \subseteq Nat
    /\ Legacy \subseteq Nat /\ IsFiniteSet(Legacy)
    /\ Rooms \subseteq Nat /\ Rooms # {}
    /\ MaxInstances \in Nat
    /\ MaxMishaps \in Nat

VARIABLES
    workload,       \* the workload table
    instance,       \* the instance table; IDs are minted in CreatedAt order
    next,           \* the ID the next Insert mints
    call,           \* each caller's verb in flight
    born,           \* workloads a Create has inserted
    cut,            \* history: workloads a call on which was cut short
    unmarked,       \* history: workloads whose Delete failed to mark the row
    missed,         \* history: replicas a Delete or a listing could not see
    before,         \* history: the count a workload had before it went to zero
    mishaps

vars == <<workload, instance, next, call, born, cut, unmarked, missed, before, mishaps>>

Ids == 1 .. MaxInstances + Cardinality(Legacy)

States == {"Provisioning", "Active", "Scaling", "Deploying", "Paused",
           "Failed", "Destroying", "Destroyed"}

\* The states of a verb that is still walking over the replicas.
Working == {"Provisioning", "Scaling", "Deploying", "Destroying"}

Rows == [state : States \cup {"absent"}, count : Nat, prev : Nat]

Absent == [state |-> "absent", count |-> 0, prev |-> 0]

Present(w) == workload[w].state # "absent"

InstanceRows == [owner : Workloads \cup {NoOne}, index : Nat,
                 state : {"absent", "Provisioning", "Running", "Failed"}]

Live(i) == instance[i].state # "absent"

\* The rows that carry the workload's label.
Replicas(w) == {i \in Ids : Live(i) /\ instance[i].owner = w}

\* ListInstances: the newest replicas that fit in the page of 1000.  Memory and
\* mongo filter by label first, so Rooms = {1000}; the others page over all the
\* tenant's instances and the label is matched in what is left, so Rooms = 0..1000.
PageOf(w, room) ==
    {i \in Replicas(w) : Cardinality({j \in Replicas(w) : j >= i}) <= room}

\* validTransitions and ValidateTransition, where staying put is allowed.
CanMove(from, to) ==
    \/ from = to
    \/ to \in CASE from = "Provisioning" -> {"Active", "Failed", "Destroying"}
                [] from = "Active"       -> {"Scaling", "Deploying", "Paused",
                                             "Destroying", "Failed"}
                [] from = "Scaling"      -> {"Active", "Failed"}
                [] from = "Deploying"    -> {"Active", "Failed"}
                [] from = "Paused"       -> {"Scaling", "Destroying", "Active"}
                [] from = "Failed"       -> {"Destroying", "Provisioning", "Scaling", "Active"}
                [] from = "Destroying"   -> {"Destroyed"}
                [] OTHER                 -> {}

\* todo holds indices while spawning and instance IDs while walking replicas.
Calls == [verb : Verbs \cup {"none"}, wl : Workloads \cup {NoOne},
          at : {"idle", "stamp", "asked", "loaded", "marked", "spawn", "insert", "provision",
                "walk", "failing"},
          copy : Rows, goal : Nat, todo : SUBSET Nat, inst : Nat, failed : BOOLEAN]

Idle == [verb |-> "none", wl |-> NoOne, at |-> "idle", copy |-> Absent,
         goal |-> 0, todo |-> {}, inst |-> 0, failed |-> FALSE]

InFlight(w) == \E c \in Callers : call[c].wl = w

Deleting(w) == \E c \in Callers : call[c].verb = "Delete" /\ call[c].wl = w

TypeOK ==
    /\ workload \in [Workloads -> Rows]
    /\ instance \in [Ids -> InstanceRows]
    /\ next \in Nat
    /\ call \in [Callers -> Calls]
    /\ born \subseteq Workloads
    /\ cut \subseteq Workloads
    /\ unmarked \subseteq Workloads
    /\ missed \subseteq Ids
    /\ before \in [Workloads -> Nat]
    /\ mishaps \in Nat

\* The index in the slug of each unlabelled row.
LegacyIndex == CHOOSE f \in [1 .. Cardinality(Legacy) -> Legacy] :
                  \A i, j \in 1 .. Cardinality(Legacy) : f[i] = f[j] => i = j

Init ==
    /\ workload = [w \in Workloads |-> Absent]
    /\ instance = [i \in Ids |->
          IF i <= Cardinality(Legacy)
          THEN [owner |-> NoOne, index |-> LegacyIndex[i], state |-> "Running"]
          ELSE [owner |-> NoOne, index |-> 0, state |-> "absent"]]
    /\ next = Cardinality(Legacy) + 1
    /\ call = [c \in Callers |-> Idle]
    /\ born = {}
    /\ cut = {}
    /\ unmarked = {}
    /\ missed = {}
    /\ before = [w \in Workloads |-> 0]
    /\ mishaps = 0

-----------------------------------------------------------------------------
(* Steps the verbs share.                                                  *)

Budget == mishaps < MaxMishaps

\* A call on a provider or store: it fails only within the budget.
Outcome(ok) ==
    \/ ok /\ mishaps' = mishaps
    \/ ~ok /\ Budget /\ mishaps' = mishaps + 1

At(c, verbs, place) == call[c].verb \in verbs /\ call[c].at = place

Become(c, r) == call' = [call EXCEPT ![c] = r]

Goto(c, place) == Become(c, [call[c] EXCEPT !.at = place])

Return(c) == Become(c, Idle)

\* UpdateWorkload: replaces the whole row, ErrNotFound when it is gone.
Write(w, r) == workload' = IF Present(w) THEN [workload EXCEPT ![w] = r] ELSE workload

\* Get: the verb works on a copy of the row from here on.
Load(c, verb, w, place, goal) ==
    /\ verb \in MayCall[c]
    /\ call[c] = Idle
    /\ Present(w)
    /\ Become(c, [Idle EXCEPT !.verb = verb, !.wl = w, !.at = place,
                              !.copy = workload[w], !.goal = goal])
    /\ UNCHANGED <<workload, instance, next, born, cut, unmarked, missed, before, mishaps>>

\* UpdateWorkload with the verb's working state; a missing row ends the call.
Mark(c, s) ==
    LET r == [call[c].copy EXCEPT !.state = s] IN
    /\ Write(call[c].wl, r)
    /\ IF Present(call[c].wl)
       THEN Become(c, [call[c] EXCEPT !.at = "marked", !.copy = r])
       ELSE Return(c)
    /\ UNCHANGED <<instance, next, born, cut, unmarked, missed, before, mishaps>>

\* Mutant of Failing: the error is returned without marking the row.
FailingForgets(c) ==
    /\ call[c].at = "failing"
    /\ workload' = workload
    /\ Return(c)
    /\ UNCHANGED <<instance, next, born, cut, unmarked, missed, before, mishaps>>

\* `_ = UpdateWorkload` of the Failed row, and the error is returned.
Failing(c) ==
    /\ call[c].at = "failing"
    /\ Write(call[c].wl, [call[c].copy EXCEPT !.state = "Failed"])
    /\ Return(c)
    /\ UNCHANGED <<instance, next, born, cut, unmarked, missed, before, mishaps>>

\* The element of todo the loop is at: both loops go up in replica index.
Lowest(S) == CHOOSE k \in S : \A m \in S : k <= m

FirstOf(S) == CHOOSE i \in S : \A j \in S : instance[i].index <= instance[j].index

Done(c, x) == [call[c] EXCEPT !.todo = @ \ {x}]

-----------------------------------------------------------------------------
(* spawnReplica, for the lowest index the call still has to fill.          *)

AtIndex(k) == {i \in Ids : Live(i) /\ instance[i].index = k}

\* GetBySlug: adopt a row of ours or an unlabelled one, refuse another's.
SpawnLookup(c) ==
    LET k == Lowest(call[c].todo) IN
    /\ call[c].at = "spawn"
    /\ call[c].todo # {}
    /\ \/ /\ \E i \in AtIndex(k) : instance[i].owner \in {NoOne, call[c].wl}
          /\ Become(c, Done(c, k))
       \/ /\ \E i \in AtIndex(k) : instance[i].owner \notin {NoOne, call[c].wl}
          /\ Goto(c, "failing")
       \/ AtIndex(k) = {} /\ Goto(c, "insert")
    /\ UNCHANGED <<workload, instance, next, born, cut, unmarked, missed, before, mishaps>>

\* instance.Create inserts the row; the store refuses a slug that is taken.
SpawnInsert(c) ==
    LET k == Lowest(call[c].todo)  w == call[c].wl IN
    /\ call[c].at = "insert"
    /\ call[c].todo # {}
    /\ \E ok \in BOOLEAN :
          /\ Outcome(ok)
          /\ IF ok /\ AtIndex(k) = {}
             THEN /\ next \in Ids
                  /\ instance' = [instance EXCEPT ![next] =
                                     [owner |-> w, index |-> k, state |-> "Provisioning"]]
                  /\ next' = next + 1
                  /\ missed' = IF Deleting(w) \/ ~Present(w)
                                  THEN missed \cup {next} ELSE missed
                  /\ Become(c, [call[c] EXCEPT !.at = "provision", !.inst = next])
             ELSE /\ Goto(c, "failing")
                  /\ UNCHANGED <<instance, next, missed>>
    /\ UNCHANGED <<workload, born, cut, unmarked, before>>

\* instance.Create provisions, then updates a row that may be gone by now.
SpawnProvision(c) ==
    LET i == call[c].inst IN
    /\ call[c].at = "provision"
    /\ \E ok \in BOOLEAN :
          /\ Outcome(ok)
          /\ instance' = IF Live(i)
                         THEN [instance EXCEPT ![i].state = IF ok THEN "Running" ELSE "Failed"]
                         ELSE instance
          /\ IF ok /\ Live(i)
             THEN Become(c, [Done(c, instance[i].index) EXCEPT !.at = "spawn", !.inst = 0])
             ELSE Goto(c, "failing")
    /\ UNCHANGED <<workload, next, born, cut, unmarked, missed, before>>

-----------------------------------------------------------------------------
(* Create.                                                                 *)

CreateInsert(c, w, n) ==
    LET r == [state |-> "Provisioning", count |-> n, prev |-> 0] IN
    /\ "Create" \in MayCall[c]
    /\ call[c] = Idle
    /\ w \notin born
    /\ n > 0
    /\ \A v \in Workloads : ~Present(v)
    /\ workload' = [workload EXCEPT ![w] = r]
    /\ born' = born \cup {w}
    /\ Become(c, [Idle EXCEPT !.verb = "Create", !.wl = w, !.at = "spawn", !.copy = r,
                              !.goal = n, !.todo = 0 .. (n - 1)])
    /\ UNCHANGED <<instance, next, cut, unmarked, missed, before, mishaps>>

CreateFinish(c) ==
    /\ At(c, {"Create"}, "spawn")
    /\ call[c].todo = {}
    /\ Write(call[c].wl, [call[c].copy EXCEPT !.state = "Active"])
    /\ Return(c)
    /\ UNCHANGED <<instance, next, born, cut, unmarked, missed, before, mishaps>>

-----------------------------------------------------------------------------
(* Scale, and the Pause and Resume that end in it.                         *)

Scalers == {"Scale", "Pause", "Resume"}

BeginScale(c, w, n) ==
    /\ CanMove(workload[w].state, "Scaling")
    /\ Load(c, "Scale", w, "loaded", n)

BeginPause(c, w) == Load(c, "Pause", w, "stamp", 0)

\* PreviousReplicas, or the current count, or one.
BeginResume(c, w) ==
    LET r == workload[w]
        target == IF r.prev # 0 THEN r.prev ELSE IF r.count # 0 THEN r.count ELSE 1
    IN  Load(c, "Resume", w, "asked", target)

\* Mutant of PauseStamp: the count is stamped even when it is zero.
PauseStampAlways(c) ==
    /\ At(c, {"Pause"}, "stamp")
    /\ Write(call[c].wl, [call[c].copy EXCEPT !.prev = call[c].copy.count])
    /\ IF Present(call[c].wl) THEN Goto(c, "asked") ELSE Return(c)
    /\ UNCHANGED <<instance, next, born, cut, unmarked, missed, before, mishaps>>

\* Pause remembers the count, unless the workload is already at zero.  When
\* the row is gone the call ends here or, with nothing to stamp, in Scale's Get.
PauseStamp(c) ==
    /\ At(c, {"Pause"}, "stamp")
    /\ IF call[c].copy.count > 0
       THEN Write(call[c].wl, [call[c].copy EXCEPT !.prev = call[c].copy.count])
       ELSE workload' = workload
    /\ IF Present(call[c].wl) THEN Goto(c, "asked") ELSE Return(c)
    /\ UNCHANGED <<instance, next, born, cut, unmarked, missed, before, mishaps>>

\* Scale's own Get and validation, after Pause's stamp or Resume's read.
ScaleGet(c) ==
    LET r == workload[call[c].wl] IN
    /\ call[c].at = "asked"
    /\ IF Present(call[c].wl) /\ CanMove(r.state, "Scaling")
       THEN Become(c, [call[c] EXCEPT !.at = "loaded", !.copy = r])
       ELSE Return(c)
    /\ UNCHANGED <<workload, instance, next, born, cut, unmarked, missed, before, mishaps>>

MarkScaling(c) == At(c, Scalers, "loaded") /\ Mark(c, "Scaling")

\* Mutant of Victims: the oldest replicas go.
VictimsOldest(S, n) ==
    {i \in S : Cardinality({j \in S : instance[j].index <= instance[i].index}) <= n}

\* The n replicas of S with the highest indices.
Victims(S, n) ==
    {i \in S : Cardinality({j \in S : instance[j].index >= instance[i].index}) <= n}

\* nextReplicaIndex: one past the highest index in use.
NextIndex(S) == IF S = {} THEN 0
                ELSE 1 + (CHOOSE k \in {instance[i].index : i \in S} :
                             \A i \in S : instance[i].index <= k)

\* ListInstances decides what to spawn or to remove.
ScaleList(c) ==
    /\ At(c, Scalers, "marked")
    /\ \E room \in Rooms :
          LET mine == PageOf(call[c].wl, room)
              have == Cardinality(mine)
              goal == call[c].goal
          IN  /\ missed' = missed \cup (Replicas(call[c].wl) \ mine)
              /\ \/ /\ goal >= have
                    /\ Become(c, [call[c] EXCEPT !.at = "spawn",
                                     !.todo = {NextIndex(mine) + k : k \in 0 .. (goal - have - 1)}])
                 \/ /\ goal < have
                    /\ Become(c, [call[c] EXCEPT !.at = "walk", !.todo = Victims(mine, have - goal)])
    /\ UNCHANGED <<workload, instance, next, born, cut, unmarked, before, mishaps>>

\* instance.Delete of row i: gone, ErrNotFound, or left Failed.
Remove(i, ok) ==
    \/ Live(i) /\ Outcome(ok)
       /\ instance' = [instance EXCEPT ![i].state = IF ok THEN "absent" ELSE "Failed"]
    \/ ~Live(i) /\ ~ok /\ UNCHANGED <<instance, mishaps>>

\* Mutant of ScaleRemove: a failed Delete does not stop the shrink.
ScaleRemoveBestEffort(c) ==
    LET i == FirstOf(call[c].todo) IN
    /\ At(c, Scalers, "walk")
    /\ call[c].todo # {}
    /\ \E ok \in BOOLEAN : Remove(i, ok)
    /\ Become(c, Done(c, i))
    /\ UNCHANGED <<workload, next, born, cut, unmarked, missed, before>>

ScaleRemove(c) ==
    LET i == FirstOf(call[c].todo) IN
    /\ At(c, Scalers, "walk")
    /\ call[c].todo # {}
    /\ \E ok \in BOOLEAN :
          /\ Remove(i, ok)
          /\ IF ok THEN Become(c, Done(c, i)) ELSE Goto(c, "failing")
    /\ UNCHANGED <<workload, next, born, cut, unmarked, missed, before>>

\* before: the count that a step to zero replaces.
ScaleFinish(c) ==
    LET w == call[c].wl IN
    /\ At(c, Scalers, "spawn") \/ At(c, Scalers, "walk")
    /\ call[c].todo = {}
    /\ Write(w, [call[c].copy EXCEPT !.count = call[c].goal,
                                     !.state = IF call[c].goal = 0 THEN "Paused" ELSE "Active"])
    /\ before' = IF call[c].goal = 0 /\ call[c].copy.count > 0
                 THEN [before EXCEPT ![w] = call[c].copy.count] ELSE before
    /\ Return(c)
    /\ UNCHANGED <<instance, next, born, cut, unmarked, missed, mishaps>>

-----------------------------------------------------------------------------
(* Update, Restart, Deploy: they keep the replica set.                     *)

BeginUpdate(c, w) == Load(c, "Update", w, "loaded", 0)

\* Name, services and labels change; the row written is the copy loaded.
UpdateWrite(c) ==
    /\ At(c, {"Update"}, "loaded")
    /\ Write(call[c].wl, call[c].copy)
    /\ Return(c)
    /\ UNCHANGED <<instance, next, born, cut, unmarked, missed, before, mishaps>>

BeginRestart(c, w) == Load(c, "Restart", w, "marked", 0)

BeginDeploy(c, w) ==
    /\ CanMove(workload[w].state, "Deploying")
    /\ Load(c, "Deploy", w, "loaded", 0)

MarkDeploying(c) == At(c, {"Deploy"}, "loaded") /\ Mark(c, "Deploying")

\* ListInstances; Deploy gives up, and says Active, when there is none.
WalkList(c) ==
    /\ At(c, {"Restart", "Deploy", "Delete"}, "marked")
    /\ \E room \in Rooms :
          LET mine == PageOf(call[c].wl, room) IN
          /\ missed' = missed \cup (Replicas(call[c].wl) \ mine)
          /\ IF call[c].verb = "Deploy" /\ mine = {}
             THEN Return(c) /\ Write(call[c].wl, [call[c].copy EXCEPT !.state = "Active"])
             ELSE /\ Become(c, [call[c] EXCEPT !.at = "walk", !.todo = mine])
                  /\ workload' = workload
    /\ UNCHANGED <<instance, next, born, cut, unmarked, before, mishaps>>

\* instance.Restart of one replica; the first error ends the call.
RestartOne(c) ==
    LET i == FirstOf(call[c].todo) IN
    /\ At(c, {"Restart"}, "walk")
    /\ call[c].todo # {}
    /\ \E ok \in BOOLEAN :
          /\ Outcome(ok)
          /\ instance' = IF Live(i)
                         THEN [instance EXCEPT ![i].state = IF ok THEN "Running" ELSE "Failed"]
                         ELSE instance
          /\ IF ok /\ Live(i) THEN Become(c, Done(c, i)) ELSE Return(c)
    /\ UNCHANGED <<workload, next, born, cut, unmarked, missed, before>>

RestartFinish(c) ==
    /\ At(c, {"Restart"}, "walk")
    /\ call[c].todo = {}
    /\ Return(c)
    /\ UNCHANGED <<workload, instance, next, born, cut, unmarked, missed, before, mishaps>>

\* deploy.Deploy of one replica; an error leaves the workload Failed.
DeployOne(c) ==
    LET i == FirstOf(call[c].todo) IN
    /\ At(c, {"Deploy"}, "walk")
    /\ call[c].todo # {}
    /\ \E ok \in BOOLEAN :
          /\ Outcome(ok)
          /\ IF ok /\ Live(i) THEN Become(c, Done(c, i)) ELSE Goto(c, "failing")
    /\ UNCHANGED <<workload, instance, next, born, cut, unmarked, missed, before>>

DeployFinish(c) ==
    /\ At(c, {"Deploy"}, "walk")
    /\ call[c].todo = {}
    /\ Write(call[c].wl, [call[c].copy EXCEPT !.state = "Active"])
    /\ Return(c)
    /\ UNCHANGED <<instance, next, born, cut, unmarked, missed, before, mishaps>>

-----------------------------------------------------------------------------
(* Delete: validates nothing, collects the replicas it could not remove.   *)

\* Mutant of BeginDelete: the transition is validated like Scale's.
BeginDeleteValidates(c, w) ==
    /\ CanMove(workload[w].state, "Destroying")
    /\ Load(c, "Delete", w, "loaded", 0)

BeginDelete(c, w) == Load(c, "Delete", w, "loaded", 0)

\* The error of this UpdateWorkload is ignored, a missing row included.
DeleteMark(c) ==
    LET w == call[c].wl
        r == [call[c].copy EXCEPT !.state = "Destroying"]
    IN  /\ At(c, {"Delete"}, "loaded")
        /\ \E ok \in BOOLEAN :
              /\ Outcome(ok)
              /\ IF ok THEN Write(w, r) ELSE workload' = workload
              /\ unmarked' = IF ok THEN unmarked ELSE unmarked \cup {w}
        /\ Become(c, [call[c] EXCEPT !.at = "marked", !.copy = r])
        /\ UNCHANGED <<instance, next, born, cut, missed, before>>

DeleteOne(c) ==
    LET i == FirstOf(call[c].todo) IN
    /\ At(c, {"Delete"}, "walk")
    /\ call[c].todo # {}
    /\ \E ok \in BOOLEAN :
          /\ Remove(i, ok)
          /\ Become(c, [Done(c, i) EXCEPT !.failed = call[c].failed \/ ~ok])
    /\ UNCHANGED <<workload, next, born, cut, unmarked, missed, before>>

\* Mutant of DeleteFinish: the swallow its comment warns of.
DeleteFinishSwallows(c) ==
    /\ At(c, {"Delete"}, "walk")
    /\ call[c].todo = {}
    /\ workload' = [workload EXCEPT ![call[c].wl] = Absent]
    /\ Return(c)
    /\ UNCHANGED <<instance, next, born, cut, unmarked, missed, before, mishaps>>

DeleteFinish(c) ==
    LET w == call[c].wl IN
    /\ At(c, {"Delete"}, "walk")
    /\ call[c].todo = {}
    /\ IF call[c].failed
       THEN Write(w, [call[c].copy EXCEPT !.state = "Failed"])
       ELSE workload' = [workload EXCEPT ![w] = Absent]
    /\ Return(c)
    /\ UNCHANGED <<instance, next, born, cut, unmarked, missed, before, mishaps>>

-----------------------------------------------------------------------------

\* A checked store call fails, or the caller's context is cancelled.
Interrupt(c) ==
    /\ call[c] # Idle
    /\ Budget
    /\ mishaps' = mishaps + 1
    /\ cut' = cut \cup {call[c].wl}
    /\ Return(c)
    /\ UNCHANGED <<workload, instance, next, born, unmarked, missed, before>>

Reboot ==
    /\ Budget
    /\ mishaps' = mishaps + 1
    /\ cut' = cut \cup {w \in Workloads : InFlight(w)}
    /\ call' = [c \in Callers |-> Idle]
    /\ UNCHANGED <<workload, instance, next, born, unmarked, missed, before>>

Begin(c) ==
    \E w \in Workloads :
        \/ \E n \in Targets : CreateInsert(c, w, n) \/ BeginScale(c, w, n)
        \/ BeginPause(c, w)
        \/ BeginResume(c, w)
        \/ BeginUpdate(c, w)
        \/ BeginRestart(c, w)
        \/ BeginDeploy(c, w)
        \/ BeginDelete(c, w)

Advance(c) ==
    \/ SpawnLookup(c)
    \/ SpawnInsert(c)
    \/ SpawnProvision(c)
    \/ Failing(c)
    \/ CreateFinish(c)
    \/ PauseStamp(c)
    \/ ScaleGet(c)
    \/ MarkScaling(c)
    \/ ScaleList(c)
    \/ ScaleRemove(c)
    \/ ScaleFinish(c)
    \/ UpdateWrite(c)
    \/ MarkDeploying(c)
    \/ WalkList(c)
    \/ RestartOne(c)
    \/ RestartFinish(c)
    \/ DeployOne(c)
    \/ DeployFinish(c)
    \/ DeleteMark(c)
    \/ DeleteOne(c)
    \/ DeleteFinish(c)

Next ==
    \/ \E c \in Callers : Begin(c) \/ Advance(c) \/ Interrupt(c)
    \/ Reboot

Spec == Init /\ [][Next]_vars

-----------------------------------------------------------------------------
(* Properties.                                                             *)

\* Calls on a workload made one at a time leave it, whenever it says Active or
\* Paused, with exactly as many replica rows as its count asks for, whatever
\* failed, was cut short or was retried on the way.  Out of it are a Delete that
\* could not mark the row (an error it ignores) and is then cut short, which
\* leaves Active and nothing behind, and a workload with replicas that some
\* listing could not see.  Rows are counted, not running replicas: Active is said
\* over Failed rows too, which is less than its comment (workload.go:74) has it.
CountMatches ==
    \A w \in Workloads :
        /\ workload[w].state \in {"Active", "Paused"}
        /\ ~InFlight(w)
        /\ w \notin unmarked
        /\ Replicas(w) \cap missed = {}
        => Cardinality(Replicas(w)) = workload[w].count

\* Resume on a workload at zero brings back the count it had before Pause took
\* it there, through repeated Pauses, failures and reboots.
ResumeRestores ==
    [][\A c \in Callers :
          ScaleFinish(c) /\ call[c].verb = "Resume" /\ call[c].copy.count = 0 =>
              workload'[call[c].wl].count = before[call[c].wl]]_vars

\* Scale's comment: a shrink removes the newest replicas first.  Each replica
\* it removes is newer than every one it means to keep, among those it can see.
ShrinkKeepsOldest ==
    [][\A c \in Callers, i \in Ids : ScaleRemove(c) /\ Live(i) /\ ~Live(i)' =>
          \A j \in Replicas(call[c].wl) \ (call[c].todo \cup missed) :
              instance[j].index < instance[i].index]_vars

\* The workload row is the handle by which replicas are cleaned up: a replica
\* outlives it only if it was inserted while a Delete of the workload was in
\* flight, or after it, or if some listing of the workload's replicas, which is
\* one page of instances filtered by label afterwards, did not reach it (the
\* replicas the garbage collector is left with).
NoOrphanReplica ==
    \A i \in Ids :
        Live(i) /\ instance[i].owner \in Workloads /\ ~Present(instance[i].owner) =>
            i \in missed

\* A working state is left behind only by a call that was cut short: however
\* verbs that end by writing a settled state interleave, the last one settles it.
\* That goes for Delete too, which settles in Failed (service_impl.go:675-681)
\* and not, as its doc comment (:624) says, in Destroying; Update and Pause write
\* back the state they loaded, a working one included.
NoStuckState ==
    \A w \in Workloads :
        workload[w].state \in Working /\ ~InFlight(w) => w \in cut

=============================================================================
