------------------------------ MODULE Bootstrap ------------------------------
(***************************************************************************)
(* The reconciler worker and the bootstrap service.  Once per tick, for    *)
(* every datacenter the store lists, the platform services that operators  *)
(* declared and hooks contributed are compared with the stored rows: rows  *)
(* no longer wanted are retired, missing ones inserted and provisioned.    *)
(* Each store write and each provider call is one step.  It may fail, the  *)
(* code ignores most failures, and the process may die between two steps;  *)
(* operators edit the declarations meanwhile.                              *)
(***************************************************************************)
EXTENDS Naturals, FiniteSets

CONSTANTS Datacenters,
          Owner,         \* datacenter -> its tenant, or Platform
          Platform,      \* the empty tenant
          Names,         \* names of bootstrap services
          Bodies,        \* what specChanged compares: kind and services
          Hooks,
          Contribution,  \* hook -> datacenter -> name -> body or None
          Ids,           \* row identifiers
          MaxEdits,      \* bounds the edits of declarations
          MaxMishaps,    \* bounds failed calls, lost writes and crashes
          MayCrash,      \* whether the process dies at all
          None

ASSUME BootstrapAssumption ==
    /\ Contribution \in
          [Hooks -> [Datacenters -> [Names -> Bodies \cup {None}]]]
    /\ None \notin Bodies \cup Ids \cup Datacenters \cup Names
    /\ IsFiniteSet(Hooks)
    /\ MaxEdits \in Nat /\ MaxMishaps \in Nat
    /\ MayCrash \in BOOLEAN

VARIABLES convergent,  \* does Provision overwrite what a failed one left?
          declared,    \* datacenter -> name -> declared body or None
          rows,        \* id -> row or None
          live,        \* id -> what the provider runs under it
          tick,        \* the reconciler's position and local variables
          hurt,        \* rows whose last change was cut short (history)
          edits, mishaps

vars == <<convergent, declared, rows, live, tick, hurt, edits, mishaps>>

Wishes == [Names -> Bodies \cup {None}]
States == {"pending", "provisioning", "running", "failed", "retiring", "retired"}
Row == [dc: Datacenters, name: Names, body: Bodies, state: States]

\* What one Reconcile knows of a row it listed or inserted.
Known == [id: Ids, body: Bodies, state: States]

ASSUME NoneAssumption == None \notin Row /\ None \notin Known

Steps == {"idle", "walk", "retire", "deprovision", "drop",
          "install", "mark", "provision", "save"}

Tick == [at: Steps,
         left: SUBSET Datacenters,                        \* still to visit
         seen: [Datacenters -> Wishes] \cup {None},       \* as listed
         dc: Datacenters \cup {None},
         want: Wishes \cup {None},                        \* desiredByName
         cur: [Names -> Known \cup {None}] \cup {None},   \* currentByName
         todo: SUBSET Names,                              \* of this pass
         name: Names \cup {None},                         \* in hand
         ok: BOOLEAN]                                     \* Provision's answer

Idle == [at |-> "idle", left |-> {}, seen |-> None, dc |-> None, want |-> None,
         cur |-> None, todo |-> {}, name |-> None, ok |-> FALSE]

\* The stores answer a list for the empty tenant with the shared rows only.
Listed == {d \in Datacenters : Owner[d] = Platform}

RowsOf(d, n) == {i \in Ids : rows[i] /= None /\ rows[i].dc = d /\ rows[i].name = n}

\* A TypeID is never drawn twice; an identifier that nothing has is as good.
Free == {i \in Ids : rows[i] = None /\ live[i] = "none"}

Init ==
    /\ convergent \in BOOLEAN
    /\ declared \in [Datacenters -> Wishes]
    /\ rows = [i \in Ids |-> None]
    /\ live = [i \in Ids |-> "none"]
    /\ tick = Idle
    /\ hurt = {}
    /\ edits = 0
    /\ mishaps = 0

\* Something went wrong in this step, or nothing did.
Mishap(bad) ==
    IF bad THEN mishaps < MaxMishaps /\ mishaps' = mishaps + 1
           ELSE UNCHANGED mishaps

\* datacenter.Update with a new list of bootstrap services.
Declare(d, n) ==
    /\ edits < MaxEdits
    /\ edits' = edits + 1
    /\ \E b \in (Bodies \cup {None}) \ {declared[d][n]} :
          declared' = [declared EXCEPT ![d][n] = b]
    /\ UNCHANGED <<convergent, rows, live, tick, hurt, mishaps>>

-----------------------------------------------------------------------------
(* One tick: Run, and Reconcile for each datacenter it lists.              *)

Run ==
    /\ tick.at = "idle"
    /\ tick' = [Idle EXCEPT !.at = "walk", !.left = Listed, !.seen = declared]
    /\ UNCHANGED <<convergent, declared, rows, live, hurt, edits, mishaps>>

\* A declared body wins, then the first hook of the snapshot that names the
\* service; a hook that fails contributes nothing.
buildDesired(decl, d, failed, rank) ==
    [n \in Names |->
        LET by == {h \in Hooks \ failed : Contribution[h][d][n] /= None}
        IN  IF decl[n] /= None \/ by = {} THEN decl[n]
            ELSE Contribution[CHOOSE h \in by : \A g \in by : rank[h] <= rank[g]][d][n]]

\* The hooks are kept in a Go map: every snapshot may order them anew.
Ranks == {r \in [Hooks -> 1..Cardinality(Hooks)] :
             \A g, h \in Hooks : r[g] = r[h] => g = h}

\* ListBootstraps, by name.
Current(d) ==
    [n \in Names |->
        IF RowsOf(d, n) = {} THEN None
        ELSE LET i == CHOOSE i \in RowsOf(d, n) : TRUE
             IN  [id |-> i, body |-> rows[i].body, state |-> rows[i].state]]

specChanged(known, body) == known.body /= body

Reconcile(d) ==
    /\ tick.at = "walk" /\ d \in tick.left
    /\ \E failed \in SUBSET Hooks, rank \in Ranks :
          LET want == buildDesired(tick.seen[d], d, failed, rank)
              cur == Current(d)
          IN  /\ Mishap(failed /= {})
              /\ tick' = [tick EXCEPT
                    !.at = "retire", !.left = @ \ {d}, !.dc = d,
                    !.want = want, !.cur = cur,
                    !.todo = {n \in Names : cur[n] /= None
                                            /\ specChanged(cur[n], want[n])}]
    /\ UNCHANGED <<convergent, declared, rows, live, hurt, edits>>

\* The list fails or the datacenter's deadline has passed: next datacenter.
ReconcileFails(d) ==
    /\ tick.at = "walk" /\ d \in tick.left
    /\ Mishap(TRUE)
    /\ tick' = [tick EXCEPT !.left = @ \ {d}]
    /\ UNCHANGED <<convergent, declared, rows, live, hurt, edits>>

RunEnds ==
    /\ tick.at = "walk" /\ tick.left = {}
    /\ tick' = Idle
    /\ UNCHANGED <<convergent, declared, rows, live, hurt, edits, mishaps>>

InHand == tick.cur[tick.name].id

\* UpdateBootstrap on the row in hand: it is stored, or the write is lost.
Save(state, lost) ==
    rows' = IF lost THEN rows ELSE [rows EXCEPT ![InHand].state = state]

\* Leave the service in hand and go back to the pass.
NextName(at, cur) ==
    tick' = [tick EXCEPT !.at = at, !.name = None, !.ok = FALSE, !.cur = cur]

\* Pass 1: mark the row retiring.
Retire(n, lost) ==
    /\ tick.at = "retire" /\ n \in tick.todo
    /\ Mishap(lost)
    /\ LET i == tick.cur[n].id IN
          /\ rows' = IF lost THEN rows ELSE [rows EXCEPT ![i].state = "retiring"]
          /\ hurt' = IF lost THEN hurt \cup {i} ELSE hurt
    /\ tick' = [tick EXCEPT !.at = "deprovision", !.name = n, !.todo = @ \ {n},
                            !.cur[n].state = "retiring"]
    /\ UNCHANGED <<convergent, declared, live, edits>>

\* Mutant of Deprovision: the row is dropped even when the provider fails.
DeprovisionDropsRow(bad, lost) ==
    /\ tick.at = "deprovision"
    /\ lost => bad
    /\ Mishap(bad)
    /\ live' = IF bad THEN live ELSE [live EXCEPT ![InHand] = "none"]
    /\ tick' = [tick EXCEPT !.at = "drop"]
    /\ UNCHANGED <<convergent, declared, rows, hurt, edits>>

\* A provider that fails leaves the row retiring, which is written once more, for
\* the next tick.
Deprovision(bad, lost) ==
    /\ tick.at = "deprovision"
    /\ lost => bad
    /\ Mishap(bad)
    /\ IF bad
       THEN /\ Save("retiring", lost)
            /\ hurt' = hurt \cup {InHand}
            /\ NextName("retire", tick.cur)
            /\ UNCHANGED live
       ELSE /\ live' = [live EXCEPT ![InHand] = "none"]
            /\ tick' = [tick EXCEPT !.at = "drop"]
            /\ UNCHANGED <<rows, hurt>>
    /\ UNCHANGED <<convergent, declared, edits>>

\* Two ignored writes: state retired, then the deletion of the row.
Drop(lost) ==
    /\ tick.at = "drop"
    /\ Mishap(lost /= {})
    /\ rows' = IF "delete" \notin lost THEN [rows EXCEPT ![InHand] = None]
               ELSE IF "retired" \in lost THEN rows
               ELSE [rows EXCEPT ![InHand].state = "retired"]
    /\ hurt' = IF "delete" \in lost THEN hurt \cup {InHand} ELSE hurt \ {InHand}
    /\ NextName("retire", [tick.cur EXCEPT ![tick.name].state = "retired"])
    /\ UNCHANGED <<convergent, declared, live, edits>>

\* Installed at the wanted body, as far as this Reconcile knows.
Kept(n) == /\ tick.cur[n] /= None
           /\ tick.cur[n].state /= "retired"
           /\ ~ specChanged(tick.cur[n], tick.want[n])

\* Mutant of Retried: a failed row is left alone.
RetriedNot(n) == tick.cur[n].state = "pending"

Retried(n) == tick.cur[n].state \in {"pending", "failed"}

\* Pass 2 begins: kept rows in any other state need nothing.
InstallBegins ==
    /\ tick.at = "retire" /\ tick.todo = {}
    /\ tick' = [tick EXCEPT !.at = "install",
                  !.todo = {n \in Names : tick.want[n] /= None
                                          /\ (Kept(n) => Retried(n))}]
    /\ UNCHANGED <<convergent, declared, rows, live, hurt, edits, mishaps>>

InstallEnds ==
    /\ tick.at = "install" /\ tick.todo = {}
    /\ tick' = [Idle EXCEPT !.at = "walk", !.left = tick.left, !.seen = tick.seen]
    /\ UNCHANGED <<convergent, declared, rows, live, hurt, edits, mishaps>>

Retry(n) ==
    /\ tick.at = "install" /\ n \in tick.todo /\ Kept(n)
    /\ tick' = [tick EXCEPT !.at = "mark", !.name = n, !.todo = @ \ {n}]
    /\ UNCHANGED <<convergent, declared, rows, live, hurt, edits, mishaps>>

\* Mutant of Refused: the store forgets its (datacenter, name) check.
RefusedNever(n) == FALSE

\* The store's check on (datacenter, name).
Refused(n) == RowsOf(tick.dc, n) /= {}

\* InsertBootstrap with a fresh identifier; after a refusal the service waits
\* for the next tick.
Insert(n, bad) ==
    /\ tick.at = "install" /\ n \in tick.todo /\ ~ Kept(n)
    /\ Mishap(bad)
    /\ IF bad \/ Refused(n)
       THEN /\ tick' = [tick EXCEPT !.todo = @ \ {n}]
            /\ UNCHANGED <<rows, hurt>>
       ELSE Free /= {} /\ LET i == CHOOSE i \in Free : TRUE IN
            /\ rows' = [rows EXCEPT ![i] = [dc |-> tick.dc, name |-> n,
                                body |-> tick.want[n], state |-> "pending"]]
            /\ hurt' = hurt \ {i}
            /\ tick' = [tick EXCEPT !.at = "mark", !.name = n, !.todo = @ \ {n},
                  !.cur[n] = [id |-> i, body |-> tick.want[n], state |-> "pending"]]
    /\ UNCHANGED <<convergent, declared, live, edits>>

\* State provisioning must be stored before the provider is called.
Mark(lost) ==
    /\ tick.at = "mark"
    /\ Mishap(lost)
    /\ Save("provisioning", lost)
    /\ IF lost THEN NextName("install", tick.cur)
               ELSE tick' = [tick EXCEPT !.at = "provision"]
    /\ UNCHANGED <<convergent, declared, live, hurt, edits>>

\* Provision.  A provider that is not convergent refuses what is half there.
Provision(bad) ==
    /\ tick.at = "provision"
    /\ Mishap(bad)
    /\ LET ok == ~ bad /\ (convergent \/ live[InHand] = "none") IN
          /\ tick' = [tick EXCEPT !.at = "save", !.ok = ok]
          /\ live' \in IF ok THEN {[live EXCEPT ![InHand] = "up"]}
                      ELSE IF bad THEN {live, [live EXCEPT ![InHand] = "partial"]}
                      ELSE {live}
          /\ hurt' = IF ~ convergent /\ live'[InHand] /= "none" /\ ~ ok
                     THEN hurt \cup {InHand} ELSE hurt
    /\ UNCHANGED <<convergent, declared, rows, edits>>

\* Mutant of Outcome: the provider's error is dropped.
OutcomeAlways(ok) == "running"

Outcome(ok) == IF ok THEN "running" ELSE "failed"

\* The outcome is stored; the write's error is ignored.
SaveAnswer(lost) ==
    /\ tick.at = "save"
    /\ Mishap(lost)
    /\ Save(Outcome(tick.ok), lost)
    /\ hurt' = IF lost THEN hurt \cup {InHand} ELSE hurt
    /\ NextName("install", tick.cur)
    /\ UNCHANGED <<convergent, declared, live, edits>>

\* The process dies; the worker starts over with the next tick.
Crash ==
    /\ MayCrash
    /\ tick /= Idle
    /\ Mishap(TRUE)
    /\ tick' = Idle
    /\ hurt' = IF tick.at \in {"deprovision", "drop", "provision", "save"}
               THEN hurt \cup {InHand} ELSE hurt
    /\ UNCHANGED <<convergent, declared, rows, live, edits>>

-----------------------------------------------------------------------------
Step ==
    \/ Run \/ RunEnds
    \/ \E d \in Datacenters : Reconcile(d) \/ ReconcileFails(d)
    \/ \E bad \in BOOLEAN :
          \/ \E lost \in BOOLEAN : Deprovision(bad, lost)
          \/ Mark(bad) \/ Provision(bad) \/ SaveAnswer(bad)
          \/ \E n \in Names : Retire(n, bad) \/ Insert(n, bad)
    \/ \E lost \in SUBSET {"retired", "delete"} : Drop(lost)
    \/ InstallBegins \/ InstallEnds
    \/ \E n \in Names : Retry(n)

Next == Step \/ Crash \/ \E d \in Datacenters, n \in Names : Declare(d, n)

\* The scheduler's goroutine ticks for as long as the process lives.
Spec == Init /\ [][Next]_vars /\ WF_vars(Step)

-----------------------------------------------------------------------------
\* Every variable keeps its shape.
TypeOK ==
    /\ convergent \in BOOLEAN
    /\ declared \in [Datacenters -> Wishes]
    /\ rows \in [Ids -> Row \cup {None}]
    /\ live \in [Ids -> {"none", "partial", "up"}]
    /\ tick \in Tick
    /\ hurt \subseteq Ids
    /\ edits \in 0..MaxEdits /\ mishaps \in 0..MaxMishaps

\* Whatever fails, and wherever the process dies, nothing runs at the provider
\* without the row through which a later tick can retire it: the row is
\* inserted before Provision and deleted only after Deprovision succeeded.
ProjectsHaveRows == \A i \in Ids : live[i] /= "none" => rows[i] /= None

\* A changed body is torn down before its successor starts: a datacenter never
\* runs two versions of one bootstrap service, even when the old one could not
\* be removed, because the store still holds the old row's name.
OneProjectPerService ==
    \A i, j \in Ids :
        /\ live[i] /= "none" /\ live[j] /= "none"
        /\ rows[i] /= None /\ rows[j] /= None
        /\ rows[i].dc = rows[j].dc /\ rows[i].name = rows[j].name
        => i = j

\* A row that says running has its service up, unless a write about it was lost
\* or the process died while it was in hand.
RunningIsLive ==
    \A i \in Ids :
        rows[i] /= None /\ rows[i].state = "running" => live[i] = "up" \/ i \in hurt

\* The bodies that operators and hooks ask for when every hook answers.
Wanted(d, n) ==
    LET by == {h \in Hooks : Contribution[h][d][n] /= None}
    IN  IF declared[d][n] /= None \/ by = {} THEN {declared[d][n]}
        ELSE {Contribution[h][d][n] : h \in by}

\* They ask for one body, or for none.  Where two hooks give a name different
\* bodies each snapshot of the map may put the other one first, and the service
\* is torn down and started anew for as long as they differ.
Agreed(d, n) == Cardinality(Wanted(d, n)) = 1

Up(i) == rows[i].state = "running" /\ live[i] = "up"

\* The service runs as wanted, or is removed with its row.
Settled(d, n) ==
    IF Wanted(d, n) = {None} THEN RowsOf(d, n) = {}
    ELSE \E i \in RowsOf(d, n) : rows[i].body \in Wanted(d, n) /\ Up(i)

\* A row no tick looks at again: a write about it was lost, or the process died or
\* the provider failed while it was in hand, and that left a state which is
\* neither pending nor failed, over a body that is the wanted one; or its
\* provider refuses what a failed Provision left.
Stranded(d, n) ==
    \E i \in RowsOf(d, n) :
        /\ rows[i].body \in Wanted(d, n)
        /\ i \in hurt
        /\ \/ rows[i].state \in {"provisioning", "retiring", "retired"}
           \/ rows[i].state = "running" /\ live[i] /= "up"
           \/ rows[i].state \in {"pending", "failed"} /\ ~ convergent

\* Once edits and mishaps stop, every datacenter the reconciler lists gets what
\* is agreed to be wanted of it, unless a mishap stranded the row: removed
\* services go, with their projects, and so do those that could not be removed
\* before; missing ones come, and pending and failed ones are retried until they
\* run.
Converges ==
    <>[](\A d \in Listed, n \in Names :
            Agreed(d, n) => Settled(d, n) \/ Stranded(d, n))

\* What the code's comment says of a lost write: the next tick loads the stale row
\* and reaches the same conclusion anyway.  Here no process dies and the provider
\* converges, so that a lost write is all that can strand a row.
NextTickRecovers ==
    ~ MayCrash /\ convergent =>
        <>[](\A d \in Listed, n \in Names : Agreed(d, n) => Settled(d, n))

=============================================================================
