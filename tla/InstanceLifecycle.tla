-------------------------- MODULE InstanceLifecycle --------------------------
(***************************************************************************)
(* instance.service: the lifecycle verbs of one control plane working on   *)
(* instance rows while a provider (docker, kubernetes) holds the           *)
(* containers.  Every verb loads a private copy of the row, calls the      *)
(* provider with no lock held, and writes the whole copy back, so each     *)
(* store call and each provider call is a step of its own and the verbs of *)
(* different callers interleave between them.                              *)
(***************************************************************************)
EXTENDS Naturals

CONSTANTS
    Instances,      \* instance IDs; NewEntity never mints one twice
    NoInstance,     \* the instance of an idle caller
    Callers,        \* goroutines serving API requests, workers
    MayCall,        \* the verbs each caller issues
    Existing,       \* instances already running when the behaviour starts
    Lenient,        \* TRUE: the provider's verbs succeed on a missing project
    MaxMishaps      \* bound on failures, interruptions and reboots together

ASSUME LifecycleAssumption ==
    /\ NoInstance \notin Instances
    /\ Existing \subseteq Instances
    /\ MayCall \in [Callers -> SUBSET {"Create", "Update", "Delete", "Start", "Stop",
                                       "Restart", "Scale", "Suspend", "Unsuspend"}]
    /\ Lenient \in BOOLEAN
    /\ MaxMishaps \in Nat

VARIABLES
    row,            \* the instance table
    backend,        \* what the provider holds of each instance's project
    call,           \* each caller's verb in flight, with its copy of the row
    registered,     \* providers.Get finds the instance's provider
    minted,         \* IDs a Create has inserted
    deletions,      \* InstanceDeleted events the service has published, per instance
    history,        \* history variable: what happened to each instance
    mishaps         \* how much of the MaxMishaps budget is spent

vars == <<row, backend, call, registered, minted, deletions, history, mishaps>>

Verbs == {"Create", "Update", "Delete", "Start", "Stop",
          "Restart", "Scale", "Suspend", "Unsuspend"}

States == {"Provisioning", "Starting", "Running", "Stopping", "Stopped",
           "Failed", "Destroying", "Destroyed"}

Powers == {"none", "running", "stopped"}

Rows == [state : States \cup {"absent"}, suspended : BOOLEAN]

Absent == [state |-> "absent", suspended |-> FALSE]

Present(i) == row[i].state # "absent"

\* The states a verb passes through while its provider call is under way.
Transitional == {"Provisioning", "Starting", "Stopping", "Destroying"}

\* validTransitions, read by ValidateTransition.
CanMove(from, to) ==
    to \in CASE from = "Provisioning" -> {"Starting", "Failed", "Destroying"}
             [] from = "Starting"     -> {"Running", "Failed"}
             [] from = "Running"      -> {"Stopping", "Failed", "Destroying"}
             [] from = "Stopping"     -> {"Stopped", "Failed"}
             [] from = "Stopped"      -> {"Starting", "Destroying"}
             [] from = "Failed"       -> {"Starting", "Destroying"}
             [] from = "Destroying"   -> {"Destroyed", "Failed"}
             [] OTHER                 -> {}

Idle == [verb |-> "none", inst |-> NoInstance, at |-> "idle", copy |-> Absent]

Places == {"idle", "loaded", "marked", "inserted", "acted", "failing", "drop"}

Calls == [verb : Verbs \cup {"none"}, inst : Instances \cup {NoInstance},
          at : Places, copy : Rows]

InFlight(i) == \E c \in Callers : call[c].inst = i

Creating(i) == \E c \in Callers : call[c].verb = "Create" /\ call[c].inst = i

Faults == {"cut", "erred", "disowned", "kept", "overtaken", "woken"}

TypeOK ==
    /\ row \in [Instances -> Rows]
    /\ backend \in [Instances -> Powers]
    /\ call \in [Callers -> Calls]
    /\ \A c \in Callers : call[c].at # "idle" => call[c].inst \in Instances
    /\ registered \in BOOLEAN
    /\ minted \subseteq Instances
    /\ deletions \in [Instances -> Nat]
    /\ history \in [Instances -> SUBSET Faults]
    /\ mishaps \in Nat

Init ==
    /\ row = [i \in Instances |->
                 IF i \in Existing THEN [state |-> "Running", suspended |-> FALSE] ELSE Absent]
    /\ backend = [i \in Instances |-> IF i \in Existing THEN "running" ELSE "none"]
    /\ call = [c \in Callers |-> Idle]
    /\ registered = TRUE
    /\ minted = Existing
    /\ deletions = [i \in Instances |-> 0]
    /\ history = [i \in Instances |-> {}]
    /\ mishaps = 0

-----------------------------------------------------------------------------
(* The provider.  A verb that loops over the project's containers does     *)
(* nothing, successfully, when there are none (docker); kubernetes fails   *)
(* to find the Deployment.  A failing verb may have done part of its work. *)

Full(verb, before) ==
    IF verb = "Provision" THEN "running"
    ELSE IF verb = "Deprovision" \/ before = "none" THEN "none"
    ELSE CASE verb \in {"Start", "Restart", "Unsuspend"} -> "running"
           [] verb \in {"Stop", "Suspend"}               -> "stopped"
           [] OTHER                                      -> before

\* kubernetes' Scale sets the replicas the stored spec asks for, if any: a project
\* that was stopped runs again.  docker's does nothing.
Wakes(verb, before) == verb = "Scale" /\ ~Lenient /\ before = "stopped"

Goals(verb, before) ==
    {Full(verb, before)} \cup (IF Wakes(verb, before) THEN {"running"} ELSE {})

CanSucceed(verb, before) ==
    verb \in {"Provision", "Deprovision"} \/ before # "none" \/ Lenient

\* A failed verb leaves the project as it was, or part-way to its goal.
Partial(verb, before) ==
    IF verb = "Restart" /\ before # "none" THEN {before, "running", "stopped"}
    ELSE {before} \cup Goals(verb, before)

Budget == mishaps < MaxMishaps

\* The answer ok and the project's state after it, for a verb on instance i.
Provider(verb, i, ok, after) ==
    \/ /\ ok
       /\ CanSucceed(verb, backend[i])
       /\ after \in Goals(verb, backend[i])
       /\ mishaps' = mishaps
    \/ /\ ~ok
       /\ CanSucceed(verb, backend[i])
       /\ Budget
       /\ after \in Partial(verb, backend[i])
       /\ mishaps' = mishaps + 1
    \/ /\ ~ok
       /\ ~CanSucceed(verb, backend[i])
       /\ after = backend[i]
       /\ mishaps' = mishaps

-----------------------------------------------------------------------------
(* Steps the verbs share.                                                  *)

At(c, verb, place) == call[c].verb = verb /\ call[c].at = place

InState(r, s) == [state |-> s, suspended |-> r.suspended]

\* The caller moves on with r as its copy of the row.
Move(c, place, r) ==
    call' = [call EXCEPT ![c] = [verb |-> call[c].verb, inst |-> call[c].inst,
                                 at |-> place, copy |-> r]]

Goto(c, place, s) == Move(c, place, InState(call[c].copy, s))

Return(c) == call' = [call EXCEPT ![c] = Idle]

Note(i, fault) == history' = [history EXCEPT ![i] = @ \cup {fault}]

\* Mutant of Write: an upsert, as a store without the existence check.
WriteUpserts(i, r) == row' = [row EXCEPT ![i] = r]

\* store.Update: replaces the whole row, ErrNotFound when it is gone.
Write(i, r) == row' = IF Present(i) THEN [row EXCEPT ![i] = r] ELSE row

\* GetByID: the verb works on a private copy of the row from here on.
Load(c, verb, i) ==
    /\ call[c] = Idle
    /\ Present(i)
    /\ call' = [call EXCEPT ![c] = [verb |-> verb, inst |-> i,
                                    at |-> "loaded", copy |-> row[i]]]
    /\ UNCHANGED <<row, backend, registered, minted, deletions, history, mishaps>>

\* Update and return the row in the transitional state, or ErrNotFound.
Mark(c, verb, s) ==
    LET i == call[c].inst IN
    /\ At(c, verb, "loaded")
    /\ IF Present(i)
       THEN /\ Write(i, InState(call[c].copy, s))
            /\ Goto(c, "marked", s)
       ELSE Return(c) /\ row' = row
    /\ UNCHANGED <<backend, registered, minted, deletions, history, mishaps>>

\* The last Update of a verb whose provider call succeeded.
Settle(c) ==
    /\ call[c].at = "acted"
    /\ Write(call[c].inst, call[c].copy)
    /\ Return(c)
    /\ UNCHANGED <<backend, registered, minted, deletions, history, mishaps>>

\* `_ = s.store.Update` of the Failed row, then the provider's error is returned.
SettleFailed(c) ==
    /\ call[c].at = "failing"
    /\ Write(call[c].inst, InState(call[c].copy, "Failed"))
    /\ Return(c)
    /\ UNCHANGED <<backend, registered, minted, deletions, history, mishaps>>

-----------------------------------------------------------------------------
(* Create.                                                                 *)

CreateInsert(c, i) ==
    LET r == [state |-> "Provisioning", suspended |-> FALSE] IN
    /\ "Create" \in MayCall[c]
    /\ call[c] = Idle
    /\ registered
    /\ i \notin minted
    /\ minted' = minted \cup {i}
    /\ row' = [row EXCEPT ![i] = r]
    /\ call' = [call EXCEPT ![c] = [verb |-> "Create", inst |-> i,
                                    at |-> "inserted", copy |-> r]]
    /\ UNCHANGED <<backend, registered, deletions, history, mishaps>>

\* History: a failed verb, and a project that Scale woke, until it is stopped.
Recall(i, verb, ok, after) ==
    history' = [history EXCEPT ![i] =
                   IF ~ok THEN @ \cup {"erred"}
                   ELSE IF Wakes(verb, backend[i]) /\ after = "running" THEN @ \cup {"woken"}
                   ELSE IF verb \in {"Stop", "Suspend"} THEN @ \ {"woken"}
                   ELSE @]

\* The provider's verb, and where each of its two answers takes the caller.
Ask(c, verb, ok, after) ==
    /\ Provider(verb, call[c].inst, ok, after)
    /\ backend' = [backend EXCEPT ![call[c].inst] = after]
    /\ Recall(call[c].inst, verb, ok, after)
    /\ UNCHANGED <<row, registered, minted, deletions>>

\* Mutant of CreateProvision: the provider's error is dropped.
CreateProvisionIgnoresError(c) ==
    /\ At(c, "Create", "inserted")
    /\ \E ok \in BOOLEAN, after \in Powers :
          /\ Ask(c, "Provision", ok, after)
          /\ Goto(c, "acted", "Running")

CreateProvision(c) ==
    /\ At(c, "Create", "inserted")
    /\ \E ok \in BOOLEAN, after \in Powers :
          /\ Ask(c, "Provision", ok, after)
          /\ IF ok THEN Goto(c, "acted", "Running") ELSE Goto(c, "failing", "Failed")

-----------------------------------------------------------------------------
(* Start, Stop: validated, marked with the transitional state, then run.   *)

BeginStart(c, i) ==
    /\ "Start" \in MayCall[c]
    /\ CanMove(row[i].state, "Starting")
    /\ Load(c, "Start", i)

BeginStop(c, i) ==
    /\ "Stop" \in MayCall[c]
    /\ CanMove(row[i].state, "Stopping")
    /\ Load(c, "Stop", i)

MarkStart(c) == Mark(c, "Start", "Starting")

MarkStop(c) == Mark(c, "Stop", "Stopping")

\* An unregistered provider is noticed after the mark: the row stays marked.
LookupFails(c) ==
    /\ At(c, "Start", "marked") \/ At(c, "Stop", "marked")
    /\ ~registered
    /\ Return(c)
    /\ Note(call[c].inst, "cut")
    /\ UNCHANGED <<row, backend, registered, minted, deletions, mishaps>>

\* Mutant of RunVerb: the error path returns without marking the row Failed.
RunVerbForgetsFailed(c, verb, goal) ==
    /\ registered
    /\ \E ok \in BOOLEAN, after \in Powers :
          /\ Ask(c, verb, ok, after)
          /\ IF ok THEN Goto(c, "acted", goal) ELSE Return(c)

RunVerb(c, verb, goal) ==
    /\ registered
    /\ \E ok \in BOOLEAN, after \in Powers :
          /\ Ask(c, verb, ok, after)
          /\ IF ok THEN Goto(c, "acted", goal) ELSE Goto(c, "failing", "Failed")

ActStart(c) == At(c, "Start", "marked") /\ RunVerb(c, "Start", "Running")

ActStop(c) == At(c, "Stop", "marked") /\ RunVerb(c, "Stop", "Stopped")

-----------------------------------------------------------------------------
(* Restart, Suspend, Unsuspend, Scale, Update: no validation, no mark.     *)

BeginUnchecked(c, verb, i) ==
    /\ verb \in MayCall[c] \cap {"Restart", "Suspend", "Unsuspend", "Scale", "Update"}
    /\ Load(c, verb, i)

ActRestart(c) == At(c, "Restart", "loaded") /\ RunVerb(c, "Restart", "Running")

\* These return the provider's error without writing the row.
RunOrReturn(c, verb, r) ==
    /\ At(c, verb, "loaded")
    /\ registered
    /\ \E ok \in BOOLEAN, after \in Powers :
          /\ Ask(c, verb, ok, after)
          /\ IF ok THEN Move(c, "acted", r)
             ELSE Return(c)

\* Mutant of ActSuspend: only SuspendedAt is set.
ActSuspendKeepsState(c) ==
    RunOrReturn(c, "Suspend", [state |-> call[c].copy.state, suspended |-> TRUE])

ActSuspend(c) == RunOrReturn(c, "Suspend", [state |-> "Stopped", suspended |-> TRUE])

ActUnsuspend(c) == RunOrReturn(c, "Unsuspend", [state |-> "Running", suspended |-> FALSE])

ActScale(c) == RunOrReturn(c, "Scale", call[c].copy)

\* providers.Get fails before anything is changed.
NoProvider(c) ==
    /\ \E verb \in {"Restart", "Suspend", "Unsuspend", "Scale"} : At(c, verb, "loaded")
    /\ ~registered
    /\ Return(c)
    /\ UNCHANGED <<row, backend, registered, minted, deletions, history, mishaps>>

\* Name, services and labels change; the row written is the copy loaded.
ActUpdate(c) ==
    /\ At(c, "Update", "loaded")
    /\ Write(call[c].inst, call[c].copy)
    /\ Return(c)
    /\ UNCHANGED <<backend, registered, minted, deletions, history, mishaps>>

-----------------------------------------------------------------------------
(* Delete: convergent, so it validates nothing and ignores a failed mark.  *)

\* Mutant of BeginDelete: the transition is validated like every other.
BeginDeleteValidates(c, i) ==
    /\ "Delete" \in MayCall[c]
    /\ CanMove(row[i].state, "Destroying")
    /\ Load(c, "Delete", i)

BeginDelete(c, i) == "Delete" \in MayCall[c] /\ Load(c, "Delete", i)

DeleteMark(c) ==
    LET i == call[c].inst IN
    /\ At(c, "Delete", "loaded")
    /\ IF call[c].copy.state = "Destroyed"
       THEN /\ Goto(c, "drop", "Destroyed")
            /\ UNCHANGED <<row, mishaps>>
       ELSE /\ Goto(c, "marked", "Destroying")
            /\ \/ /\ Write(i, InState(call[c].copy, "Destroying"))
                  /\ mishaps' = mishaps
               \/ /\ Budget
                  /\ mishaps' = mishaps + 1
                  /\ row' = row
    /\ UNCHANGED <<backend, registered, minted, deletions, history>>

\* Mutant of DeleteDeprovision: best effort, the provider's error is dropped.
DeleteDeprovisionBestEffort(c) ==
    LET i == call[c].inst IN
    /\ At(c, "Delete", "marked")
    /\ registered
    /\ \E ok \in BOOLEAN, after \in Powers :
          /\ Provider("Deprovision", i, ok, after)
          /\ backend' = [backend EXCEPT ![i] = after]
    /\ Goto(c, "drop", "Destroying")
    /\ IF Creating(i) THEN Note(i, "overtaken") ELSE history' = history
    /\ UNCHANGED <<row, registered, minted, deletions>>

\* History: a Deprovision that a Create of the same instance may outlive.
DeleteDeprovision(c) ==
    LET i == call[c].inst IN
    /\ At(c, "Delete", "marked")
    /\ registered
    /\ \E ok \in BOOLEAN, after \in Powers :
          /\ Provider("Deprovision", i, ok, after)
          /\ backend' = [backend EXCEPT ![i] = after]
          /\ IF ok
             THEN /\ Goto(c, "drop", "Destroying")
                  /\ IF Creating(i) THEN Note(i, "overtaken") ELSE history' = history
             ELSE Goto(c, "failing", "Failed") /\ Note(i, "erred")
    /\ UNCHANGED <<row, registered, minted, deletions>>

\* The provider is no longer registered: the row goes, whatever is running.  The
\* error of store.Delete is dropped, and the event published in any case.
DeleteDisown(c) ==
    LET i == call[c].inst IN
    /\ At(c, "Delete", "marked")
    /\ ~registered
    /\ \/ /\ row' = [row EXCEPT ![i] = Absent]
          /\ Note(i, "disowned")
          /\ mishaps' = mishaps
       \/ /\ Budget
          /\ row' = row
          /\ history' = [history EXCEPT ![i] = @ \cup {"disowned", "kept"}]
          /\ mishaps' = mishaps + 1
    /\ deletions' = [deletions EXCEPT ![i] = @ + 1]
    /\ Return(c)
    /\ UNCHANGED <<backend, registered, minted>>

\* Mutant of DeleteDrop: ErrNotFound from store.Delete is ignored.
DeleteDropIgnoresNotFound(c) ==
    LET i == call[c].inst IN
    /\ At(c, "Delete", "drop")
    /\ row' = [row EXCEPT ![i] = Absent]
    /\ deletions' = [deletions EXCEPT ![i] = @ + 1]
    /\ Return(c)
    /\ UNCHANGED <<backend, registered, minted, history, mishaps>>

\* store.Delete decides between concurrent Deletes: one event, one ErrNotFound.
DeleteDrop(c) ==
    LET i == call[c].inst IN
    /\ At(c, "Delete", "drop")
    /\ row' = [row EXCEPT ![i] = Absent]
    /\ deletions' = IF Present(i) THEN [deletions EXCEPT ![i] = @ + 1] ELSE deletions
    /\ Return(c)
    /\ UNCHANGED <<backend, registered, minted, history, mishaps>>

-----------------------------------------------------------------------------
(* A call stops where it is: its context is cancelled, or a checked store  *)
(* call fails.  A reboot stops every call, and may come back with another  *)
(* set of providers configured.                                            *)

Interrupt(c) ==
    /\ call[c] # Idle
    /\ Budget
    /\ mishaps' = mishaps + 1
    /\ Return(c)
    /\ Note(call[c].inst, "cut")
    /\ UNCHANGED <<row, backend, registered, minted, deletions>>

Reboot ==
    /\ Budget
    /\ mishaps' = mishaps + 1
    /\ call' = [c \in Callers |-> Idle]
    /\ history' = [i \in Instances |->
                      IF InFlight(i) THEN history[i] \cup {"cut"} ELSE history[i]]
    /\ registered' \in BOOLEAN
    /\ UNCHANGED <<row, backend, minted, deletions>>

Begin(c) ==
    \E i \in Instances :
        \/ CreateInsert(c, i)
        \/ BeginStart(c, i)
        \/ BeginStop(c, i)
        \/ BeginDelete(c, i)
        \/ \E verb \in Verbs : BeginUnchecked(c, verb, i)

\* The verb in flight takes its next step.
Advance(c) ==
    \/ CreateProvision(c)
    \/ MarkStart(c)
    \/ MarkStop(c)
    \/ ActStart(c)
    \/ ActStop(c)
    \/ LookupFails(c)
    \/ ActRestart(c)
    \/ ActSuspend(c)
    \/ ActUnsuspend(c)
    \/ ActScale(c)
    \/ ActUpdate(c)
    \/ NoProvider(c)
    \/ DeleteMark(c)
    \/ DeleteDeprovision(c)
    \/ DeleteDisown(c)
    \/ DeleteDrop(c)
    \/ Settle(c)
    \/ SettleFailed(c)

Next ==
    \/ \E c \in Callers : Begin(c) \/ Advance(c) \/ Interrupt(c)
    \/ Reboot

Spec == Init /\ [][Next]_vars

\* Goroutines run on; some caller (an operator, the garbage collector) comes
\* back to Delete again and again for as long as the row is there.
Fairness ==
    /\ \A c \in Callers : WF_vars(Advance(c))
    /\ \A i \in Instances : SF_vars(\E c \in Callers : BeginDelete(c, i))

FairSpec == Spec /\ Fairness

-----------------------------------------------------------------------------
(* Properties.                                                             *)

\* A row is left in a transitional state only by a call that was cut short
\* (cancelled, rebooted, or provider lookup failed after the mark), or by a
\* Delete without a provider that failed to drop the row: whatever verbs
\* interleave, the last writer of a row writes a settled state.
NoStuckTransitional ==
    \A i \in Instances :
        row[i].state \in Transitional /\ ~InFlight(i) =>
            history[i] \cap {"cut", "kept"} # {}

\* Calls on an instance made one at a time leave the row telling the truth
\* about the project, unless one of them was cut short or failed: a Running row
\* has running containers and a Stopped one stopped containers, but for a Scale,
\* which wakes a stopped project on kubernetes and leaves the row Stopped.
RowMatchesBackend ==
    \A i \in Instances :
        ~InFlight(i) /\ Present(i) /\ history[i] \cap {"cut", "erred"} = {} =>
            /\ row[i].state = "Running" => backend[i] = "running"
            /\ row[i].state = "Stopped" =>
                  backend[i] = IF "woken" \in history[i] THEN "running" ELSE "stopped"

\* With one call at a time, a row at rest says Running only while the provider
\* holds a project for it, failures included.
RunningHasProject ==
    \A i \in Instances :
        ~InFlight(i) /\ row[i].state = "Running" /\ "cut" \notin history[i] =>
            backend[i] # "none"

\* The row is the only handle by which a project can be cleaned up.  A project
\* survives its row in two cases only: Delete ran while the provider was not
\* registered, or Deprovision ran while the instance's Create was in flight.
NoOrphanProject ==
    \A i \in Instances :
        backend[i] # "none" /\ ~Present(i) =>
            history[i] \cap {"disowned", "overtaken"} # {}

\* However many Deletes race, instance.service publishes InstanceDeleted once per
\* instance and only for a row that is gone; a Delete that found the provider
\* unregistered publishes besides, and is the only one to publish for a row
\* that stays: it drops the error of store.Delete.  (What the garbage collector
\* publishes of its own after a Delete, with its reason, is not counted here.)
DeletionFinal ==
    \A i \in Instances :
        /\ deletions[i] > 1 => "disowned" \in history[i]
        /\ deletions[i] > 0 /\ Present(i) => "kept" \in history[i]

\* No verb brings a row back by writing its stale copy after a Delete.
NoResurrection ==
    [][\A i \in Instances : i \in minted /\ ~Present(i) => ~Present(i)']_vars

\* Delete is convergent: repeated by an operator, it removes row and project
\* in the end, whatever the row's state, the other callers and the failures.
DeleteConverges ==
    \A i \in Instances :
        i \in minted ~> /\ ~Present(i)
                        /\ \/ backend[i] = "none"
                           \/ history[i] \cap {"disowned", "overtaken"} # {}

-----------------------------------------------------------------------------
(* The inductive invariant behind NoOrphanProject and DeletionFinal.       *)

\* The project has a recorded reason to outlive its row.
Lost(i) == history[i] \cap {"disowned", "overtaken"} # {}

\* Nothing is provisioned, and no Create in flight is about to provision.
Quiet(i) ==
    /\ backend[i] = "none"
    /\ \A c \in Callers : At(c, "Create", "inserted") => call[c].inst # i

Secured(i) == Lost(i) \/ Quiet(i)

\* Rows, projects and calls concern IDs that were minted, and a call in
\* flight holds a copy of a row that was there.
OnlyMinted ==
    /\ \A i \in Instances : Present(i) \/ backend[i] # "none" => i \in minted
    /\ \A c \in Callers :
          call[c].at # "idle" => call[c].inst \in minted /\ call[c].copy.state # "absent"

\* No verb writes the Destroyed state, so Delete never skips Deprovision.
NeverDestroyed ==
    /\ \A i \in Instances : row[i].state # "Destroyed"
    /\ \A c \in Callers : call[c].copy.state # "Destroyed"

\* A Delete about to drop the row has nothing left to lose.
DropSecured ==
    \A c \in Callers : At(c, "Delete", "drop") => Secured(call[c].inst)

GoneSecured ==
    \A i \in Instances : i \in minted /\ ~Present(i) => Secured(i)

DeletedOnce ==
    /\ DeletionFinal
    /\ \A i \in Instances :
          /\ deletions[i] > 0 => i \in minted
          /\ "kept" \in history[i] => "disowned" \in history[i]

IInv == TypeOK /\ OnlyMinted /\ NeverDestroyed /\ DropSecured /\ GoneSecured /\ DeletedOnce

=============================================================================
