-------------------------- MODULE ReplicaCollection --------------------------
(***************************************************************************)
(* worker.GarbageCollector running beside workload.service, on the same    *)
(* tables.  Each tick lists a page of the tenant's newest instances and    *)
(* deletes those that are old enough and whose workload is gone.           *)
(***************************************************************************)
EXTENDS WorkloadReplicas

CONSTANTS
    MaxPerTick,         \* GCConfig.MaxInstancesPerTick
    Strangers           \* slug indices under which others create unlabelled instances

ASSUME CollectionAssumption ==
    /\ MaxPerTick \in Nat \ {0}
    /\ Strangers \subseteq Nat

VARIABLES
    gc,                 \* the sweep under way
    horizon             \* instances up to this ID are past the grace period

gcVars == <<gc, horizon>>

allVars == <<workload, instance, next, call, born, cut, unmarked, missed, before,
             mishaps, gc, horizon>>

Resting == [at |-> "idle", todo |-> {}, aged |-> 0, inst |-> 0]

GCTypeOK ==
    /\ TypeOK
    /\ gc \in [at : {"idle", "sweep", "delete"}, todo : SUBSET Ids, aged : Nat, inst : Nat]
    /\ horizon \in Nat

GCInit == Init /\ gc = Resting /\ horizon = 0

\* IDs are minted in CreatedAt order, so instances grow old in ID order.
Age ==
    /\ horizon < next - 1
    /\ horizon' = horizon + 1
    /\ UNCHANGED <<vars, gc>>

\* instance.Create by another caller, of an instance that is no workload's.
Stranger(k) ==
    /\ next \in Ids
    /\ AtIndex(k) = {}
    /\ instance' = [instance EXCEPT ![next] =
                       [owner |-> NoOne, index |-> k, state |-> "Running"]]
    /\ next' = next + 1
    /\ UNCHANGED <<workload, call, born, cut, unmarked, missed, before, mishaps, gcVars>>

-----------------------------------------------------------------------------
(* The sweep of one tenant.                                                *)

\* instances.List with its Limit: newest first.
Page == {i \in Ids : Live(i) /\ Cardinality({j \in Ids : Live(j) /\ j >= i}) <= MaxPerTick}

\* The listing, and the clock read after it.
GCList ==
    /\ gc.at = "idle"
    /\ gc' = [at |-> "sweep", todo |-> Page, aged |-> horizon, inst |-> 0]
    /\ UNCHANGED <<vars, horizon>>

Newest(S) == CHOOSE i \in S : \A j \in S : i >= j

\* Mutant of PastGrace: the comparison is the wrong way round.
Fresh(i) == i > gc.aged

\* now.Sub(CreatedAt) is at least the grace period.
PastGrace(i) == i <= gc.aged

\* isOrphan up to its lookup: labelled, and old enough when the sweep began.
Eligible(i) == instance[i].owner \in Workloads /\ PastGrace(i)

\* Mutant of GCCheck: any error of the lookup is taken for ErrNotFound.
GCCheckAnyError ==
    LET i == Newest(gc.todo) IN
    /\ gc.at = "sweep"
    /\ gc.todo # {}
    /\ \E ok \in BOOLEAN :
          /\ Outcome(ok)
          /\ gc' = IF Eligible(i) /\ (~ok \/ ~Present(instance[i].owner))
                   THEN [gc EXCEPT !.at = "delete", !.inst = i]
                   ELSE [gc EXCEPT !.todo = @ \ {i}]
    /\ UNCHANGED <<workload, instance, next, call, born, cut, unmarked, missed, before, horizon>>

\* GetWorkloadByID: only ErrNotFound makes an orphan, any other error spares it.
GCCheck ==
    LET i == Newest(gc.todo) IN
    /\ gc.at = "sweep"
    /\ gc.todo # {}
    /\ \E ok \in BOOLEAN :
          /\ Outcome(ok)
          /\ gc' = IF Eligible(i) /\ ok /\ ~Present(instance[i].owner)
                   THEN [gc EXCEPT !.at = "delete", !.inst = i]
                   ELSE [gc EXCEPT !.todo = @ \ {i}]
    /\ UNCHANGED <<workload, instance, next, call, born, cut, unmarked, missed, before, horizon>>

\* instance.Delete; an error leaves the row to the next tick.
GCDelete ==
    /\ gc.at = "delete"
    /\ \E ok \in BOOLEAN : Remove(gc.inst, ok)
    /\ gc' = [gc EXCEPT !.at = "sweep", !.todo = @ \ {gc.inst}, !.inst = 0]
    /\ UNCHANGED <<workload, next, call, born, cut, unmarked, missed, before, horizon>>

GCEnd ==
    /\ gc.at = "sweep"
    /\ gc.todo = {}
    /\ gc' = Resting
    /\ UNCHANGED <<vars, horizon>>

Collect == GCList \/ GCCheck \/ GCDelete \/ GCEnd

GCNext ==
    \/ \E c \in Callers : (Begin(c) \/ Advance(c) \/ Interrupt(c)) /\ UNCHANGED gcVars
    \/ Reboot /\ gc' = Resting /\ horizon' = horizon
    \/ Collect
    \/ Age
    \/ \E k \in Strangers : Stranger(k)

GCSpec == GCInit /\ [][GCNext]_allVars

\* The scheduler ticks on, goroutines run on and time passes.  A caller that
\* only deletes is an operator who repeats Delete for as long as the row is
\* there, as the comment on workload.service's Delete invites to.
GCFairness ==
    /\ WF_allVars(Collect)
    /\ WF_allVars(Age)
    /\ \A c \in Callers :
          /\ WF_allVars(Advance(c) /\ UNCHANGED gcVars)
          /\ MayCall[c] = {"Delete"} =>
                \A w \in Workloads : WF_allVars(BeginDelete(c, w) /\ UNCHANGED gcVars)

GCFairSpec == GCSpec /\ GCFairness

-----------------------------------------------------------------------------
(* Properties.                                                             *)

\* The collector deletes only instances whose workload existed and is gone at
\* the moment it deletes them, although it looked the workload up earlier and
\* although lookups fail: a workload never loses a replica to it.
CollectorSparesReplicas ==
    [][\A i \in Ids : GCDelete /\ Live(i) /\ ~Live(i)' =>
          instance[i].owner \in born /\ ~Present(instance[i].owner)]_allVars

\* An instance the collector has no business with.
Kept(i) == Live(i) /\ (instance[i].owner \notin Workloads \/ Present(instance[i].owner))

\* Such instances, newer than i, fill the page of every tick.
Crowded(i) == Cardinality({j \in Ids : Kept(j) /\ j > i}) >= MaxPerTick

\* A tick lists one page, the newest instances, and keeps no cursor.  A replica
\* whose workload is gone is deleted in the end, however many orphans the page
\* leaves out at first, unless a page of newer instances that stay stands before
\* it: for that one the next tick of GCConfig's comment (gc.go:54) never comes.
OrphansCollected ==
    \A i \in Ids, w \in Workloads :
        (Live(i) /\ instance[i].owner = w /\ ~Present(w)) ~> (~Live(i) \/ Crowded(i))

\* Delete is retryable from every state, and the collector picks up what raced
\* with it: repeated by an operator, it leaves no workload row and, but for those
\* a page of newer instances hides from the collector, no replica, whatever
\* state the row was in, whatever failed and whoever scaled meanwhile.
DeleteConverges ==
    \A w \in Workloads :
        w \in born ~> /\ ~Present(w)
                     /\ \A i \in Ids : Live(i) /\ instance[i].owner = w => Crowded(i)

=============================================================================
