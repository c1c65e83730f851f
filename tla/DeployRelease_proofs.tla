------------------------ MODULE DeployRelease_proofs ------------------------
(***************************************************************************)
(* Releases are numbered without gaps and complete, no deployment is left  *)
(* unfinished unless its call was cut short, progress tells the truth, and *)
(* an undisturbed Rollback that succeeds restores every service's image,   *)
(* and runs those it recreated: for any services, images, environments,    *)
(* callers, requests and number of failures.                               *)
(*                                                                         *)
(* The argument: what a call holds at each stage is a fact about the call  *)
(* alone (Shape); what it has read from a table stays true because rows    *)
(* are only added, deployments keep their strategy, and a recreated        *)
(* container is struck off every other call's listing.  A deployment is    *)
(* unfinished only while somebody drives it (Driving), and a call that is  *)
(* alone is the only one that is not idle (Alone), so nobody undoes what   *)
(* it has brought about (Achieved), and nobody draws its version (Ahead).  *)
(***************************************************************************)
EXTENDS DeployRelease, TLAPS, FiniteSetTheorems, SequenceTheorems, WellFoundedInduction

-----------------------------------------------------------------------------
(* The inductive invariant.                                                *)

\* Where a call drives a rollout, and where it does so with services in hand.
Recreating == {"recreate", "remove", "create", "start container"}
Rollout == {"start", "mark", "list", "finish"} \cup Recreating
Marked == Rollout \ {"start"}

\* What a call holds at each stage, whatever the tables hold.
Shape(k) ==
    /\ k.at = "idle" => k = Idle
    /\ k.at \in {"version", "snapshot", "release", "deployment"} => k.dep = 0
    /\ k.at = "version" => k.verb = "RecordInitial"
    /\ k.at = "snapshot" => k.verb = "Deploy"
    /\ k.at = "release" => k.verb \in {"Deploy", "RecordInitial"}
    /\ k.at = "deployment" => k.verb \in {"Deploy", "RecordInitial", "Rollback"}
    /\ k.at \in {"version", "release"} => DOMAIN k.snap # {}
    /\ k.at \in Rollout => k.verb \in {"Deploy", "Rollback"} /\ k.dep # 0
    /\ k.at = "cancel" => k.verb = "Cancel" /\ k.dep # 0 /\ k.row.state = "cancelled"
    /\ k.at # "cancel" => k.row.state \in Unfinished
    /\ k.at \notin {"idle", "cancel"} /\ k.verb # "RecordInitial" => DOMAIN k.row.ups # {}

\* How far a rollout has come.
Course(k) ==
    /\ k.at \notin Marked => ~k.failed /\ k.batch = {} /\ k.left = {} /\ k.listed = {}
    /\ k.left \subseteq k.batch
    /\ k.at \in Rollout => DOMAIN k.row.progress = DOMAIN k.row.ups
    /\ k.at \in Marked => k.todo \cup k.batch \subseteq DOMAIN k.row.ups
    /\ k.at \in Marked /\ ~k.failed =>
          \A s \in DOMAIN k.row.ups \ (k.todo \cup k.batch) : k.row.progress[s] = "succeeded"
    /\ k.at = "mark" => ~k.failed /\ k.todo # {} /\ k.batch = {}
    /\ k.at = "list" => ~k.failed /\ k.batch # {} /\ k.left = k.batch
    /\ k.at \in Recreating => k.batch # {}
    /\ k.at \in Recreating \ {"recreate"} =>
          /\ ~k.failed /\ k.now \subseteq k.left /\ \A s, t \in k.now : s = t
          /\ \A s \in k.now : k.row.ups[s].env \in {NoEnv, k.env}
    /\ k.at = "finish" =>
          /\ k.batch = {}
          /\ k.failed => \E s \in DOMAIN k.row.ups : k.row.progress[s] = "failed"
          /\ ~k.failed => k.todo = {}

\* The version a call has drawn follows versions that are all there.
Drawn(k) ==
    k.at \in {"snapshot", "release"} =>
        /\ k.version \in 1 .. Len(release) + 1
        /\ \A v \in 1 .. k.version - 1 : v \in Versions

\* Once the initial release is there, a call inserts complete releases.
Filled(k) == Recorded /\ k.at \in {"version", "release"} => DOMAIN k.snap = Services

\* A call's copy of a row has the row's strategy.
Tied(k) ==
    k.dep # 0 => /\ k.dep \in DOMAIN deployment
                 /\ k.row.strategy = deployment[k.dep].strategy

\* A listing that has not failed names containers that are there.
Sighted(k) == ~k.failed => k.listed \subseteq DOMAIN container

\* A Rollback asks for what its release holds.
Restoring(k) ==
    k.verb = "Rollback" => /\ k.row.release \in DOMAIN release
                           /\ k.row.ups = release[k.row.release].snap

\* What an undisturbed rollout has behind it runs what it asked for, unless it
\* had the image before; so will the container it has just created.
Achieved(k) ==
    k.at \in Marked /\ k.alone /\ ~k.failed =>
        /\ \A s \in DOMAIN k.row.ups \ (k.todo \cup k.left) :
              /\ s \in DOMAIN container /\ container[s].image = k.row.ups[s].image
              /\ s \notin k.spared =>
                    container[s].up /\ k.row.ups[s].env \in {NoEnv, container[s].env}
        /\ k.at = "start container" => \A s \in k.now \cap k.listed :
              /\ container[s].image = k.row.ups[s].image
              /\ k.row.ups[s].env \in {NoEnv, container[s].env}

CallsInv ==
    \A c \in Callers : /\ Shape(call[c]) /\ Course(call[c])
                       /\ Drawn(call[c]) /\ Filled(call[c]) /\ Tied(call[c])
                       /\ Sighted(call[c]) /\ Restoring(call[c]) /\ Achieved(call[c])

\* The others of a call that is alone are idle.
Alone ==
    \A c, d \in Callers :
        call[c].at # "idle" /\ call[c].alone /\ d # c => call[d] = Idle

\* Versions are numbers no larger than the table is long, and none is missing.
VersionsCounted ==
    \A i \in DOMAIN release : /\ release[i].version \in 1 .. Len(release)
                              /\ \A v \in 1 .. release[i].version : v \in Versions

\* Only releases of calls that overlapped share a version: a call on its way to
\* its insert is ahead of all of those that did not and, alone, of all.
Unshared ==
    \A i, j \in DOMAIN release :
        i # j /\ release[i].version = release[j].version => release[i].raced /\ release[j].raced

Drawing == {"snapshot", "release"}

Leads(k) == \A i \in DOMAIN release : k.alone \/ ~release[i].raced => release[i].version < k.version

Ahead == \A c \in Callers : call[c].at \in Drawing => Leads(call[c])

\* Releases hold something; everything, once the initial release is recorded.
SnapshotsSome == \A i \in DOMAIN release : DOMAIN release[i].snap # {}
SnapshotsFull == Recorded => release # <<>> /\ SnapshotsComplete

\* An unfinished deployment is driven by a call, unless that was cut short or
\* could not begin.
Driving ==
    \A d \in DOMAIN deployment : deployment[d].state \in Unfinished =>
        \/ d \in cut
        \/ deployment[d].strategy = "unknown"
        \/ \E c \in Callers : call[c].dep = d /\ call[c].verb \in {"Deploy", "Rollback"}

IInv == /\ TypeOK /\ CallsInv /\ Alone
        /\ VersionsCounted /\ SnapshotsSome /\ SnapshotsFull
        /\ Unshared /\ Ahead
        /\ Driving /\ ProgressHonest

-----------------------------------------------------------------------------
(* The data.                                                               *)

\* A map from some of the services, spelt out.
LEMMA MapsToIs ==
    ASSUME NEW S, NEW f
    PROVE  f \in MapsTo(S) <=> DOMAIN f \subseteq Services /\ f \in [DOMAIN f -> S]
BY DEF MapsTo

\* A call has these fields, and a step changes the ones it names only.
Fields == {"verb", "at", "version", "snap", "dep", "row", "batch", "left", "todo", "listed",
           "now", "env", "spared", "failed", "alone"}

LEMMA CallDomain ==
    ASSUME NEW k \in Calls
    PROVE  DOMAIN k = Fields
BY DEF Calls, Fields

\* The call that is not there, and the row it holds.
LEMMA IdleTyped ==
    /\ NoRow \in Deployments /\ NoRow.state = "pending" /\ NoRow.release = 0
    /\ NoRow.ups = <<>> /\ NoRow.progress = <<>>
    /\ Idle \in Calls /\ Idle.verb = "none" /\ Idle.at = "idle" /\ Idle.dep = 0
    /\ Idle.row = NoRow /\ Idle.batch = {} /\ Idle.left = {} /\ Idle.todo = {}
    /\ Idle.listed = {} /\ Idle.failed = FALSE /\ Idle.alone = TRUE
    /\ Idle.now = {} /\ Idle.env = NoEnv /\ Idle.spared = {}
<1>1. <<>> \in SpecMaps /\ <<>> \in ProgressMaps
  <2>1. ASSUME NEW S PROVE DOMAIN <<>> = {} /\ <<>> \in [{} -> S]
    OBVIOUS
  <2>2. DOMAIN <<>> \subseteq Services /\ <<>> \in [DOMAIN <<>> -> Specs]
    BY <2>1
  <2>3. <<>> \in [DOMAIN <<>> -> Progress]
    BY <2>1
  <2> QED BY <2>2, <2>3, MapsToIs DEF SpecMaps, ProgressMaps
<1>2. /\ NoRow \in Deployments /\ NoRow.state = "pending" /\ NoRow.release = 0
      /\ NoRow.ups = <<>> /\ NoRow.progress = <<>>
  BY <1>1 DEF NoRow, Deployments, DeployStates, Unfinished, Strategies
<1>3. NoRow \in Deployments
  BY <1>2
<1>4. Idle \in Calls
  <2> HIDE DEF NoRow
  <2> QED BY <1>1, <1>3, DeployAssumption DEF Idle, Calls
<1>5. /\ Idle.verb = "none" /\ Idle.at = "idle" /\ Idle.dep = 0
      /\ Idle.row = NoRow /\ Idle.batch = {} /\ Idle.left = {} /\ Idle.todo = {}
      /\ Idle.listed = {} /\ Idle.failed = FALSE /\ Idle.alone = TRUE
      /\ Idle.now = {} /\ Idle.env = NoEnv /\ Idle.spared = {}
  <2> HIDE DEF NoRow
  <2> QED BY DEF Idle
<1> QED BY <1>2, <1>4, <1>5

\* A row in another state.
LEMMA InStateIs ==
    ASSUME NEW row \in Deployments, NEW s \in DeployStates
    PROVE  /\ InState(row, s) \in Deployments /\ InState(row, s).state = s
           /\ InState(row, s).release = row.release /\ InState(row, s).ups = row.ups
           /\ InState(row, s).strategy = row.strategy
           /\ InState(row, s).progress = row.progress
BY DEF InState, Deployments

\* A row with the progress of some services changed.
LEMMA WithProgressIs ==
    ASSUME NEW row \in Deployments, NEW S \in SUBSET Services, NEW p \in Progress
    PROVE  LET r == WithProgress(row, S, p)
           IN  /\ r \in Deployments /\ r.state = row.state
               /\ r.release = row.release /\ r.ups = row.ups /\ r.strategy = row.strategy
               /\ DOMAIN r.progress = DOMAIN row.progress
               /\ \A s \in DOMAIN row.progress :
                     r.progress[s] = IF s \in S THEN p ELSE row.progress[s]
<1> DEFINE f == [s \in DOMAIN row.progress |-> IF s \in S THEN p ELSE row.progress[s]]
<1>1. /\ DOMAIN row.progress \subseteq Services
      /\ row.progress \in [DOMAIN row.progress -> Progress]
  BY MapsToIs DEF Deployments, ProgressMaps
<1>2. f \in ProgressMaps /\ DOMAIN f = DOMAIN row.progress
  BY <1>1, MapsToIs DEF ProgressMaps
<1>3. /\ WithProgress(row, S, p) = [row EXCEPT !.progress = f]
      /\ \A s \in DOMAIN row.progress : f[s] = IF s \in S THEN p ELSE row.progress[s]
  BY DEF WithProgress
<1> HIDE DEF f
<1>4. PICK r : r = [row EXCEPT !.progress = f]
  OBVIOUS
<1>5. /\ r \in Deployments /\ r.state = row.state /\ r.progress = f
      /\ r.release = row.release /\ r.ups = row.ups /\ r.strategy = row.strategy
  BY <1>2, <1>4 DEF Deployments
<1> QED BY <1>2, <1>3, <1>4, <1>5

\* A finite set of numbers has a largest one.
LEMMA LargestExists ==
  ASSUME NEW S, S \subseteq Nat, IsFiniteSet(S), S # {}
  PROVE  \E k \in S : \A m \in S : m <= k
<1> DEFINE Above(k) == {m \in S : m > k}
           T == {Above(k) : k \in S}
<1>1. T \subseteq FiniteSubsetsOf(S) /\ T # {}
  <2>1. FiniteSubsetsOf(S) = SUBSET S
    BY FS_FiniteSubsetsOfFinite
  <2>2. \A k \in S : Above(k) \in SUBSET S
    OBVIOUS
  <2>3. T \subseteq SUBSET S
    <3> HIDE DEF Above
    <3> QED BY <2>2
  <2>4. T # {}
    <3> HIDE DEF Above
    <3>1. PICK k : k \in S
      OBVIOUS
    <3>2. Above(k) \in T
      BY <3>1
    <3> QED BY <3>2
  <2>5. QED
    BY <2>1, <2>3, <2>4
<1>2. IsWellFoundedOn(StrictSubsetOrdering(S), FiniteSubsetsOf(S))
  BY FS_StrictSubsetOrderingWellFounded
<1>3. PICK x \in T : \A y \in T : ~(<<y, x>> \in StrictSubsetOrdering(S))
  <2> HIDE DEF T
  <2> QED BY <1>1, <1>2, WFMin
<1>4. PICK k \in S : x = Above(k)
  OBVIOUS
<1>5. ASSUME NEW m \in S, m > k
      PROVE  FALSE
  <2>1. Above(m) \in T /\ Above(m) \subseteq S /\ Above(k) \subseteq S
    OBVIOUS
  <2>2. Above(m) \subseteq Above(k) /\ m \in Above(k) /\ m \notin Above(m)
    <3>1. \A n \in S : n > m => n > k
      BY <1>5
    <3>2. ~(m > m)
      BY <1>5
    <3>3. QED
      BY <1>5, <3>1, <3>2
  <2>3. <<Above(m), Above(k)>> \in StrictSubsetOrdering(S)
    BY <2>1, <2>2 DEF StrictSubsetOrdering
  <2>4. QED
    BY <1>3, <1>4, <2>1, <2>3
<1>6. \A m \in S : m <= k
  BY <1>5
<1>7. QED
  BY <1>6

-----------------------------------------------------------------------------

\* The version a release gets follows versions that are all there.
LEMMA NextVersionIs ==
    ASSUME TypeOK, VersionsCounted
    PROVE  /\ NextReleaseVersion \in 1 .. Len(release) + 1
           /\ \A v \in 1 .. NextReleaseVersion - 1 : v \in Versions
           /\ \A i \in DOMAIN release : release[i].version < NextReleaseVersion
<1>1. /\ Len(release) \in Nat /\ DOMAIN release = 1 .. Len(release)
      /\ release \in [1 .. Len(release) -> Releases]
  BY LenProperties DEF TypeOK
<1>2. CASE release = <<>>
  BY <1>1, <1>2, EmptySeq DEF NextReleaseVersion
<1>3. CASE release # <<>>
  <2>1. Versions \subseteq 1 .. Len(release) /\ Versions # {}
    <3>1. Len(release) # 0
      BY <1>3, EmptySeq DEF TypeOK
    <3>2. 1 \in DOMAIN release
      BY <1>1, <3>1
    <3> QED BY <3>2 DEF Versions, VersionsCounted
  <2>2. PICK v \in Versions : \A u \in Versions : u <= v
    <3>1. IsFiniteSet(1 .. Len(release))
      BY <1>1, FS_Interval
    <3>2. IsFiniteSet(Versions)
      BY <2>1, <3>1, FS_Subset
    <3>3. Versions \subseteq Nat
      BY <2>1, <1>1
    <3> QED BY <2>1, <3>2, <3>3, LargestExists
  <2>3. PICK w \in Versions : w = CHOOSE x \in Versions : \A u \in Versions : u <= x
    BY <2>2
  <2>4. NextReleaseVersion = 1 + w
    BY <1>3, <2>3 DEF NextReleaseVersion
  <2>5. w \in 1 .. Len(release)
    BY <2>1
  <2>6. PICK x \in DOMAIN release : release[x].version = w
    BY DEF Versions
  <2>7. \A u \in 1 .. w : u \in Versions
    BY <2>6 DEF VersionsCounted
  <2>8. \A i \in DOMAIN release : release[i].version <= w /\ release[i].version \in Nat
    BY <1>1, <2>2, <2>3 DEF Versions, Releases
  <2>9. \A i \in DOMAIN release : release[i].version < NextReleaseVersion
    BY <1>1, <2>4, <2>5, <2>8
  <2> QED BY <1>1, <2>4, <2>5, <2>7, <2>9
<1> QED BY <1>2, <1>3

-----------------------------------------------------------------------------
(* What steps do to calls.                                                 *)

\* What a call knows of the tables.
Knows(k) == /\ Drawn(k) /\ Filled(k) /\ Tied(k)
            /\ Sighted(k) /\ Restoring(k) /\ Achieved(k)

Good(k) == Shape(k) /\ Course(k) /\ Knows(k)

\* Tables to which rows are added, and deployments that keep their strategy.
TablesKept ==
    /\ release' \in Seq(Releases) /\ deployment' \in Seq(Deployments)
    /\ DOMAIN release \subseteq DOMAIN release' /\ Len(release) <= Len(release')
    /\ \A i \in DOMAIN release : release'[i] = release[i]
    /\ DOMAIN deployment \subseteq DOMAIN deployment'
    /\ \A d \in DOMAIN deployment : deployment'[d].strategy = deployment[d].strategy

\* Tables that stay as they are do so.
LEMMA UnchangedKept ==
    ASSUME TypeOK, UNCHANGED <<release, deployment>>
    PROVE  TablesKept
<1>1. Len(release) \in Nat
  BY LenProperties DEF TypeOK
<1> QED BY <1>1 DEF TypeOK, TablesKept

\* What a call knows stays true while the containers stay as they are.
LEMMA KnowsKept ==
    ASSUME TypeOK, TablesKept, UNCHANGED container, NEW k \in Calls, Knows(k)
    PROVE  Knows(k)'
<1> USE DEF Knows, TablesKept
<1>1. Len(release) \in Nat /\ Len(release') \in Nat /\ k.version \in Nat
  BY LenProperties DEF TypeOK, Calls
<1>2. Versions \subseteq Versions'
  BY DEF Versions
<1>3. Drawn(k)'
  BY <1>1, <1>2 DEF Drawn
<1>4. Filled(k)'
  BY DEF Filled
<1>5. Tied(k)'
  BY DEF Tied
<1>6. Sighted(k)' /\ Achieved(k)'
  BY DEF Sighted, Achieved
<1>7. Restoring(k)'
  BY DEF Restoring
<1> QED BY <1>3, <1>4, <1>5, <1>6, <1>7

\* A step of one call's own leaves the calls in order.
LEMMA CallStep ==
    ASSUME TypeOK, CallsInv, Alone, TablesKept, UNCHANGED container,
           NEW c \in Callers, NEW k \in Calls, call' = [call EXCEPT ![c] = k],
           call[c].at # "idle", k = Idle \/ k.alone = call[c].alone,
           Good(k)'
    PROVE  CallsInv' /\ Alone' /\ call' \in [Callers -> Calls]
<1>1. /\ call' \in [Callers -> Calls] /\ call'[c] = k
      /\ \A d \in Callers \ {c} : call'[d] = call[d]
  BY DEF TypeOK
<1>2. \A d \in Callers : Good(call[d])'
  <2> SUFFICES ASSUME NEW d \in Callers PROVE Good(call[d])'
    OBVIOUS
  <2>1. CASE d = c
    BY <2>1, <1>1
  <2>2. CASE d # c
    <3>1. PICK j \in Calls : j = call[d] /\ j = call'[d]
      BY <2>2, <1>1 DEF TypeOK
    <3>2. Good(j)
      BY <3>1 DEF CallsInv, Good, Knows
    <3>3. Knows(j)'
      BY <3>2, KnowsKept DEF Good
    <3> QED BY <3>1, <3>2, <3>3 DEF Good
  <2> QED BY <2>1, <2>2
<1>3. CallsInv'
  BY <1>2 DEF CallsInv, Good, Knows
<1>4. Alone'
  BY <1>1, IdleTyped DEF Alone
<1> QED BY <1>1, <1>3, <1>4

\* So does a call that returns.
LEMMA ReturnStep ==
    ASSUME TypeOK, CallsInv, Alone, TablesKept, UNCHANGED container,
           NEW c \in Callers, Return(c), call[c].at # "idle"
    PROVE  CallsInv' /\ Alone' /\ call' \in [Callers -> Calls]
<1>1. Shape(Idle) /\ Course(Idle)
  BY IdleTyped DEF Shape, Course, Rollout, Recreating, Marked, Unfinished
<1>2. Knows(Idle)'
  BY IdleTyped DEF Knows, Drawn, Filled, Tied, Sighted, Restoring, Achieved, Marked, Rollout, Recreating
<1>3. Good(Idle)'
  BY <1>1, <1>2 DEF Good
<1> QED BY <1>3, IdleTyped, CallStep DEF Return, Become

\* And a call that begins: the others are no longer alone.
LEMMA EnterStep ==
    ASSUME TypeOK, CallsInv, Alone, UNCHANGED <<release, deployment, container>>,
           NEW c \in Callers, NEW k \in Calls, Enter(c, k), call[c] = Idle,
           Shape(k), Course(k), Knows(k), k.at \notin Marked, k.at # "idle"
    PROVE  CallsInv' /\ Alone' /\ call' \in [Callers -> Calls]
<1>1. PICK own \in BOOLEAN : own <=> \A e \in Callers : call[e] = Idle
  OBVIOUS
<1>2. PICK m \in Calls : m = [k EXCEPT !.alone = own]
  BY DEF Calls
<1>3. /\ m.verb = k.verb /\ m.at = k.at /\ m.version = k.version /\ m.snap = k.snap
      /\ m.dep = k.dep /\ m.row = k.row /\ m.batch = k.batch /\ m.left = k.left
      /\ m.todo = k.todo /\ m.listed = k.listed /\ m.failed = k.failed /\ m.alone = own
      /\ m.now = k.now /\ m.env = k.env /\ m.spared = k.spared
  BY <1>2 DEF Calls
<1>4. Good(m)
  BY <1>3, ZenonT(60) DEF Good, Shape, Course, Knows, Drawn, Filled, Tied, Sighted, Restoring, Achieved
<1>5. \A d \in Callers : /\ d = c => call'[d] = m
                         /\ d # c /\ call[d] = Idle => call'[d] = Idle
                         /\ d # c /\ call[d] # Idle =>
                               call'[d] = [call[d] EXCEPT !.alone = FALSE]
  BY <1>1, <1>2 DEF Enter
<1>6. ASSUME NEW d \in Callers, d # c, call[d] # Idle
      PROVE  /\ call'[d] \in Calls /\ Good(call[d])'
             /\ call'[d].alone = FALSE
  <2>1. PICK j \in Calls : j = call[d] /\ Good(j)
    BY DEF TypeOK, CallsInv, Good, Knows
  <2>2. PICK n \in Calls : n = [j EXCEPT !.alone = FALSE]
    BY DEF Calls
  <2>3. /\ n.verb = j.verb /\ n.at = j.at /\ n.version = j.version /\ n.snap = j.snap
        /\ n.dep = j.dep /\ n.row = j.row /\ n.batch = j.batch /\ n.left = j.left
        /\ n.todo = j.todo /\ n.listed = j.listed /\ n.failed = j.failed /\ n.alone = FALSE
        /\ n.now = j.now /\ n.env = j.env /\ n.spared = j.spared
    BY <2>2 DEF Calls
  <2>4. n.at # "idle"
    BY <2>1, <2>3, <1>6 DEF Good, Shape
  <2>5. Good(n)
    <3>1. Shape(n)
      BY <2>1, <2>3, <2>4 DEF Good, Shape
    <3>2. Course(n)
      BY <2>1, <2>3 DEF Good, Course
    <3>3. Knows(n)
      BY <2>1, <2>3
      DEF Good, Knows, Drawn, Filled, Tied, Sighted, Restoring, Achieved
    <3> QED BY <3>1, <3>2, <3>3 DEF Good
  <2>6. Good(n)'
    BY <2>5, UnchangedKept, KnowsKept DEF Good
  <2> QED BY <2>1, <2>2, <2>3, <2>6, <1>5, <1>6
<1>7. Good(m)'
  BY <1>4, UnchangedKept, KnowsKept DEF Good
<1>8. \A d \in Callers : call'[d] \in Calls /\ Good(call[d])'
  <2>1. ASSUME NEW d \in Callers, d # c, call[d] = Idle
        PROVE  call'[d] \in Calls /\ Good(call[d])'
    <3>1. Good(Idle)
      BY <2>1 DEF CallsInv, Good, Knows
    <3>2. Good(Idle)'
      BY <3>1, IdleTyped, UnchangedKept, KnowsKept DEF Good
    <3> QED BY <3>2, <2>1, <1>5, IdleTyped
  <2> QED BY <2>1, <1>5, <1>6, <1>7
<1>9. call' \in [Callers -> Calls]
  BY <1>8 DEF Enter
<1>10. CallsInv'
  BY <1>8 DEF CallsInv, Good, Knows
<1>11. Alone'
  <2>1. SUFFICES ASSUME NEW x \in Callers, NEW y \in Callers, x # y,
                        call'[x].at # "idle", call'[x].alone
                 PROVE  call'[y] = Idle
    BY DEF Alone
  <2>2. x = c
    BY <2>1, <1>5, <1>6, IdleTyped
  <2>3. own
    BY <2>1, <2>2, <1>3, <1>5
  <2> QED BY <2>1, <2>2, <2>3, <1>1, <1>5
<1> QED BY <1>9, <1>10, <1>11

-----------------------------------------------------------------------------
(* What steps do to the deployments.                                       *)

\* ProgressHonest, of one row.
Honest(row) ==
    /\ row.state = "succeeded" => \A s \in DOMAIN row.ups : row.progress[s] = "succeeded"
    /\ row.state = "failed" => \E s \in DOMAIN row.ups : row.progress[s] = "failed"

\* A row saved in its place.
LEMMA SaveIs ==
    ASSUME TypeOK, NEW c \in Callers, NEW row \in Deployments, Save(c, row),
           Tied(call[c]), call[c].dep # 0, row.strategy = call[c].row.strategy
    PROVE  /\ deployment' \in Seq(Deployments) /\ DOMAIN deployment' = DOMAIN deployment
           /\ call[c].dep \in DOMAIN deployment /\ deployment'[call[c].dep] = row
           /\ \A d \in DOMAIN deployment : d # call[c].dep => deployment'[d] = deployment[d]
           /\ \A d \in DOMAIN deployment : deployment'[d].strategy = deployment[d].strategy
           /\ UNCHANGED release => TablesKept
<1>1. PICK i : i = call[c].dep /\ i \in DOMAIN deployment
               /\ row.strategy = deployment[i].strategy
  BY DEF Tied
<1>2. deployment' = [deployment EXCEPT ![i] = row]
  BY <1>1 DEF Save
<1>3. /\ deployment \in Seq(Deployments) /\ DOMAIN deployment = 1 .. Len(deployment)
      /\ Len(deployment) \in Nat /\ Len(release) \in Nat
  BY LenProperties DEF TypeOK
<1>4. /\ deployment' \in Seq(Deployments) /\ Len(deployment') = Len(deployment)
      /\ \A j \in 1 .. Len(deployment) :
            deployment'[j] = IF j = i THEN row ELSE deployment[j]
  BY <1>1, <1>2, <1>3, ExceptSeq
<1>5. DOMAIN deployment' = DOMAIN deployment
  BY <1>3, <1>4, LenProperties
<1> QED BY <1>1, <1>3, <1>4, <1>5 DEF TypeOK, TablesKept

\* A row added at the end.
LEMMA AppendIs ==
    ASSUME TypeOK, NEW row \in Deployments, deployment' = Append(deployment, row)
    PROVE  /\ deployment' \in Seq(Deployments)
           /\ Len(deployment) + 1 \in DOMAIN deployment' /\ Len(deployment) + 1 # 0
           /\ DOMAIN deployment' = DOMAIN deployment \cup {Len(deployment) + 1}
           /\ deployment'[Len(deployment) + 1] = row
           /\ \A d \in DOMAIN deployment : deployment'[d] = deployment[d]
           /\ UNCHANGED release => TablesKept
<1>1. /\ deployment \in Seq(Deployments) /\ DOMAIN deployment = 1 .. Len(deployment)
      /\ Len(deployment) \in Nat /\ Len(release) \in Nat
  BY LenProperties DEF TypeOK
<1>2. /\ deployment' \in Seq(Deployments) /\ Len(deployment') = Len(deployment) + 1
      /\ \A d \in 1 .. Len(deployment) : deployment'[d] = deployment[d]
      /\ deployment'[Len(deployment) + 1] = row
  BY <1>1, AppendProperties
<1>3. DOMAIN deployment' = 1 .. Len(deployment) + 1
  BY <1>2, LenProperties
<1> QED BY <1>1, <1>2, <1>3 DEF TypeOK, TablesKept

\* The releases' invariants stand as long as the table does.
LEMMA ReleasesKept ==
    ASSUME VersionsCounted, SnapshotsSome, SnapshotsFull, Unshared, UNCHANGED release
    PROVE  VersionsCounted' /\ SnapshotsSome' /\ SnapshotsFull' /\ Unshared'
BY DEF VersionsCounted, SnapshotsSome, SnapshotsFull, SnapshotsComplete, Unshared, Versions

\* And a call on its way to its insert stays ahead of it.
LEMMA AheadKept ==
    ASSUME Ahead, UNCHANGED release,
           \A d \in Callers : call'[d].at \in Drawing =>
               \/ /\ call[d].at \in Drawing /\ call'[d].version = call[d].version
                  /\ call'[d].alone => call[d].alone
               \/ Leads(call'[d])
    PROVE  Ahead'
BY DEF Ahead, Leads

\* A call that returns is on its way to nothing.
LEMMA ReturnAhead ==
    ASSUME TypeOK, Ahead, UNCHANGED release, NEW c \in Callers, Return(c)
    PROVE  Ahead'
<1>1. \A d \in Callers : call'[d] = IF d = c THEN Idle ELSE call[d]
  BY DEF TypeOK, Return, Become
<1> QED BY <1>1, IdleTyped, AheadKept DEF Drawing

\* The deployments' stand as long as their drivers stay.
LEMMA DeploymentsStay ==
    ASSUME TypeOK, Driving, ProgressHonest, UNCHANGED <<deployment, cut>>,
           \A d \in Callers : call[d].dep # 0 =>
               call'[d].dep = call[d].dep /\ call'[d].verb = call[d].verb
    PROVE  Driving' /\ ProgressHonest'
<1>1. \A d \in DOMAIN deployment : d # 0
  BY LenProperties DEF TypeOK
<1> QED BY <1>1 DEF Driving, ProgressHonest

-----------------------------------------------------------------------------
(* The steps, for the invariant.                                           *)

\* A step of a rollout that goes on, and may save its row as unfinished.
LEMMA RolloutStep ==
    ASSUME IInv, NEW c \in Callers, call[c].at \in Rollout,
           NEW k \in Calls, call' = [call EXCEPT ![c] = k],
           k.alone = call[c].alone, k.dep = call[c].dep, k.verb = call[c].verb,
           NEW row \in Deployments, row.state \in Unfinished,
           row.strategy = call[c].row.strategy, Save(c, row) \/ deployment' = deployment,
           TablesKept => Good(k)',
           UNCHANGED <<release, container, cut>>, mishaps' \in Nat
    PROVE  IInv'
<1> USE DEF IInv
<1>1. /\ Shape(call[c]) /\ Tied(call[c]) /\ call[c].at # "idle"
      /\ call[c].verb \in {"Deploy", "Rollback"} /\ call[c].dep # 0
  BY DEF CallsInv, Shape, Rollout, Recreating
<1>2. /\ deployment' \in Seq(Deployments) /\ DOMAIN deployment' = DOMAIN deployment
      /\ \A d \in DOMAIN deployment :
            /\ \/ deployment'[d] = deployment[d]
               \/ d = call[c].dep /\ deployment'[d] = row
            /\ deployment'[d].strategy = deployment[d].strategy
      /\ TablesKept
  <2>1. CASE Save(c, row)
    BY <2>1, <1>1, SaveIs
  <2>2. CASE deployment' = deployment
    BY <2>2, UnchangedKept DEF TypeOK
  <2> QED BY <2>1, <2>2
<1>3. CallsInv' /\ Alone' /\ call' \in [Callers -> Calls]
  BY <1>1, <1>2, CallStep
<1>4. TypeOK'
  BY <1>2, <1>3 DEF TypeOK
<1>5. VersionsCounted' /\ SnapshotsSome' /\ SnapshotsFull' /\ Unshared'
  BY ReleasesKept
<1>6. \A d \in Callers : call'[d].dep = call[d].dep /\ call'[d].verb = call[d].verb
  BY DEF TypeOK
<1>7. Driving'
  <2> SUFFICES ASSUME NEW d \in DOMAIN deployment, deployment'[d].state \in Unfinished
               PROVE  \/ d \in cut \/ deployment[d].strategy = "unknown"
                      \/ \E e \in Callers :
                            call[e].dep = d /\ call[e].verb \in {"Deploy", "Rollback"}
    BY <1>2, <1>6 DEF Driving
  <2>1. CASE d = call[c].dep
    BY <2>1, <1>1
  <2>2. CASE d # call[c].dep
    BY <2>2, <1>2 DEF Driving
  <2> QED BY <2>1, <2>2
<1>8. ProgressHonest'
  BY <1>2 DEF ProgressHonest, Unfinished
<1>9. Ahead'
  <2>1. k.at \notin Drawing
    BY <1>1, <1>2 DEF Good, Shape, Drawing
  <2>2. \A d \in Callers : call'[d] = IF d = c THEN k ELSE call[d]
    BY DEF TypeOK
  <2> QED BY <2>1, <2>2, AheadKept
<1> QED BY <1>3, <1>4, <1>5, <1>7, <1>8, <1>9

\* A call that saves a finished row and returns.
LEMMA FinalStep ==
    ASSUME IInv, NEW c \in Callers, call[c].at # "idle", call[c].dep # 0, Return(c),
           NEW row \in Deployments, row.state \notin Unfinished, Honest(row),
           row.strategy = call[c].row.strategy, Save(c, row),
           UNCHANGED <<release, container, cut, mishaps>>
    PROVE  IInv'
<1> USE DEF IInv
<1>1. Tied(call[c])
  BY DEF CallsInv
<1>2. /\ deployment' \in Seq(Deployments) /\ DOMAIN deployment' = DOMAIN deployment
      /\ call[c].dep \in DOMAIN deployment /\ deployment'[call[c].dep] = row
      /\ \A d \in DOMAIN deployment : d # call[c].dep => deployment'[d] = deployment[d]
      /\ TablesKept
  BY <1>1, SaveIs
<1>3. CallsInv' /\ Alone' /\ call' \in [Callers -> Calls]
  BY <1>2, ReturnStep
<1>4. TypeOK'
  BY <1>2, <1>3 DEF TypeOK
<1>5. VersionsCounted' /\ SnapshotsSome' /\ SnapshotsFull' /\ Unshared'
  BY ReleasesKept
<1>6. \A d \in Callers : d # c => call'[d] = call[d]
  BY DEF TypeOK, Return, Become
<1>7. Driving'
  BY <1>2, <1>6 DEF Driving
<1>8. ProgressHonest'
  BY <1>2 DEF ProgressHonest, Honest
<1>9. Ahead'
  BY ReturnAhead
<1> QED BY <1>3, <1>4, <1>5, <1>7, <1>8, <1>9

\* A step before there is a deployment row.
LEMMA EarlyStep ==
    ASSUME IInv, NEW c \in Callers, call[c].at # "idle", call[c].dep = 0,
           NEW k \in Calls, call' = [call EXCEPT ![c] = k],
           k = Idle \/ k.alone = call[c].alone, TablesKept, Good(k)',
           VersionsCounted', SnapshotsSome', SnapshotsFull', Unshared', Ahead',
           UNCHANGED <<deployment, container, cut>>, mishaps' \in Nat
    PROVE  IInv'
<1> USE DEF IInv
<1>1. CallsInv' /\ Alone' /\ call' \in [Callers -> Calls]
  BY CallStep
<1>2. TypeOK'
  BY <1>1 DEF TypeOK, TablesKept
<1>3. Driving' /\ ProgressHonest'
  <2>1. \A d \in Callers : call[d].dep # 0 => call'[d] = call[d]
    BY DEF TypeOK
  <2> QED BY <2>1, DeploymentsStay
<1> QED BY <1>1, <1>2, <1>3

\* A call that begins.
LEMMA BeginStep ==
    ASSUME IInv, NEW c \in Callers, NEW k \in Calls, Enter(c, k), call[c] = Idle,
           Shape(k), Course(k), Knows(k), k.at \notin Marked, k.at # "idle",
           k.at \in Drawing => Leads([k EXCEPT !.alone = TRUE]),
           UNCHANGED <<release, deployment, container, cut>>, mishaps' \in Nat
    PROVE  IInv'
<1> USE DEF IInv
<1>1. CallsInv' /\ Alone' /\ call' \in [Callers -> Calls]
  BY EnterStep
<1>2. TypeOK'
  BY <1>1 DEF TypeOK
<1>3. VersionsCounted' /\ SnapshotsSome' /\ SnapshotsFull' /\ Unshared'
  BY ReleasesKept
<1>4. Driving' /\ ProgressHonest'
  <2>1. ASSUME NEW d \in Callers, call[d].dep # 0
        PROVE  call'[d].dep = call[d].dep /\ call'[d].verb = call[d].verb
    <3>1. call[d] # Idle /\ d # c
      BY <2>1, IdleTyped
    <3>2. call'[d] = [call[d] EXCEPT !.alone = FALSE]
      BY <3>1 DEF Enter
    <3>3. PICK j \in Calls : j = call[d]
      BY DEF TypeOK
    <3> QED BY <3>2, <3>3 DEF Calls
  <2> QED BY <2>1, DeploymentsStay
<1>5. Ahead'
  <2>1. ASSUME k.at \in Drawing PROVE Leads(call'[c])
    <3>1. PICK own \in BOOLEAN : own <=> \A e \in Callers : call[e] = Idle
      OBVIOUS
    <3>2. call'[c] = [k EXCEPT !.alone = own]
      BY <3>1 DEF Enter
    <3>3. call'[c].version = k.version /\ [k EXCEPT !.alone = TRUE].version = k.version
          /\ [k EXCEPT !.alone = TRUE].alone
      BY <3>2 DEF Calls
    <3> QED BY <2>1, <3>3 DEF Leads
  <2>2. call'[c].at = k.at
    BY DEF Enter, Calls
  <2>3. ASSUME NEW d \in Callers, d # c, call'[d].at \in Drawing
        PROVE  /\ call[d].at \in Drawing /\ call'[d].version = call[d].version
               /\ call'[d].alone => call[d].alone
    <3>1. call'[d] = IF call[d] = Idle THEN Idle ELSE [call[d] EXCEPT !.alone = FALSE]
      BY <2>3 DEF Enter
    <3>2. CASE call[d] = Idle
      BY <2>3, <3>1, <3>2
    <3>3. CASE call[d] # Idle
      <4>1. PICK j \in Calls : j = call[d]
        BY DEF TypeOK
      <4> QED BY <2>3, <3>1, <3>3, <4>1 DEF Calls
    <3> QED BY <3>2, <3>3
  <2> QED BY <2>1, <2>2, <2>3, AheadKept
<1> QED BY <1>1, <1>2, <1>3, <1>4, <1>5

\* A call that returns without saving: its row is unfinished for a reason.
LEMMA QuitStep ==
    ASSUME IInv, NEW c \in Callers, call[c].at # "idle", Return(c),
           UNCHANGED <<release, deployment, container>>, mishaps' \in Nat,
           cut \subseteq cut', cut' \subseteq DOMAIN deployment,
           call[c].verb \in {"Deploy", "Rollback"} /\ call[c].dep # 0 =>
               call[c].dep \in cut' \/ call[c].row.strategy = "unknown"
    PROVE  IInv'
<1> USE DEF IInv
<1>1. TablesKept
  BY UnchangedKept
<1>2. CallsInv' /\ Alone' /\ call' \in [Callers -> Calls]
  BY <1>1, ReturnStep
<1>3. TypeOK'
  BY <1>2 DEF TypeOK
<1>4. VersionsCounted' /\ SnapshotsSome' /\ SnapshotsFull' /\ Unshared'
  BY ReleasesKept
<1>5. \A d \in DOMAIN deployment : d # 0
  BY LenProperties DEF TypeOK
<1>6. \A d \in Callers : d # c => call'[d] = call[d]
  BY DEF TypeOK, Return, Become
<1>7. Tied(call[c])
  BY DEF CallsInv
<1>8. Driving' /\ ProgressHonest'
  BY <1>5, <1>6, <1>7 DEF Driving, ProgressHonest, Tied
<1>9. Ahead'
  BY ReturnAhead
<1> QED BY <1>2, <1>3, <1>4, <1>8, <1>9

\* A call's outcome leaves the count of mishaps a number.
LEMMA OutcomeIs ==
    ASSUME TypeOK, NEW ok \in BOOLEAN, Outcome(ok)
    PROVE  mishaps' \in Nat
BY DEF Outcome, TypeOK

\* A rollout's knowledge, of its own and of the tables, carried to its next stage.
LEMMA KnowsCarried ==
    ASSUME TypeOK, TablesKept, UNCHANGED container, NEW j \in Calls, NEW k \in Calls, Knows(j),
           k.at \in Rollout, k.dep = j.dep, k.verb = j.verb,
           k.row.strategy = j.row.strategy, k.row.release = j.row.release,
           k.row.ups = j.row.ups,
           Sighted(k), Achieved(k)
    PROVE  Knows(k)'
<1>1. Knows(k)
  BY DEF Knows, Drawn, Filled, Tied, Restoring, Rollout, Recreating
<1> QED BY <1>1, KnowsKept

\* Requests are asked for at the next version, of an empty row.
LEMMA BeginDeployInv ==
    ASSUME IInv, NEW c \in Callers, NEW ups \in Requests,
           NEW strategy \in Strategies \ {"initial"}, BeginDeploy(c, ups, strategy)
    PROVE  IInv'
<1>1. TypeOK /\ VersionsCounted
  BY DEF IInv
<1>2. PICK v \in Nat : /\ v = NextReleaseVersion /\ v \in 1 .. Len(release) + 1
                       /\ \A u \in 1 .. v - 1 : u \in Versions
                       /\ \A i \in DOMAIN release : release[i].version < v
  <2>1. Len(release) \in Nat
    BY <1>1, LenProperties DEF TypeOK
  <2> QED BY <1>1, <2>1, NextVersionIs
<1>r. PICK row \in Deployments : row = [NoRow EXCEPT !.strategy = strategy, !.ups = ups]
  <2>1. ups \in SpecMaps
    BY DeployAssumption
  <2> QED BY <2>1, IdleTyped DEF Deployments
<1>3. row.state = "pending" /\ row.ups = ups
  BY <1>r, IdleTyped DEF Deployments
<1>k. PICK k \in Calls :
        k = [Idle EXCEPT !.verb = "Deploy", !.at = "snapshot", !.version = v, !.row = row]
  BY IdleTyped DEF Calls, Verbs
<1>4. /\ k.verb = "Deploy" /\ k.at = "snapshot" /\ k.version = v /\ k.row = row /\ k.dep = 0
      /\ k.failed = FALSE /\ k.batch = {} /\ k.left = {} /\ k.listed = {}
  BY <1>k, IdleTyped DEF Calls
<1>5. DOMAIN ups # {}
  BY DeployAssumption
<1>6. Shape(k) /\ Course(k)
  BY <1>3, <1>4, <1>5 DEF Shape, Course, Rollout, Recreating, Marked, Unfinished
<1>7. Knows(k)
  BY <1>2, <1>4
  DEF Knows, Drawn, Filled, Tied, Sighted, Restoring, Achieved, Rollout, Recreating, Marked
<1>8. Enter(c, k) /\ call[c] = Idle
  BY <1>2, <1>r, <1>k DEF BeginDeploy
<1>9. Leads([k EXCEPT !.alone = TRUE])
  <2>1. [k EXCEPT !.alone = TRUE].version = v
    BY <1>4 DEF Calls
  <2>2. ASSUME NEW i \in DOMAIN release PROVE release[i].version \in Nat
    <3>1. release[i] \in Releases
      BY <1>1, LenProperties DEF TypeOK
    <3> QED BY <3>1 DEF Releases
  <2> QED BY <1>2, <2>1, <2>2 DEF Leads
<1> QED BY <1>1, <1>4, <1>6, <1>7, <1>8, <1>9, BeginStep
    DEF BeginDeploy, TypeOK, Marked, Rollout, Recreating, Drawing

\* RecordInitial asks for what Provision started.
LEMMA BeginRecordInitialInv ==
    ASSUME IInv, NEW c \in Callers, BeginRecordInitial(c)
    PROVE  IInv'
<1>1. TypeOK
  BY DEF IInv
<1>2. Initial \in SpecMaps /\ DOMAIN Initial = Services /\ Services # {}
  BY DeployAssumption, MapsToIs DEF SpecMaps
<1>k. PICK k \in Calls :
        k = [Idle EXCEPT !.verb = "RecordInitial", !.at = "version", !.snap = Initial]
  BY <1>2, IdleTyped DEF Calls, Verbs
<1>3. /\ k.verb = "RecordInitial" /\ k.at = "version" /\ k.snap = Initial /\ k.dep = 0
      /\ k.row = NoRow
      /\ k.failed = FALSE /\ k.batch = {} /\ k.left = {} /\ k.listed = {}
  BY <1>k, IdleTyped DEF Calls
<1>4. Shape(k) /\ Course(k)
  BY <1>2, <1>3, IdleTyped DEF Shape, Course, Rollout, Recreating, Marked, Unfinished
<1>5. Knows(k)
  BY <1>2, <1>3
  DEF Knows, Drawn, Filled, Tied, Sighted, Restoring, Achieved, Rollout, Recreating, Marked
<1>6. mishaps' \in Nat
  BY <1>1, OutcomeIs DEF BeginRecordInitial
<1>7. /\ Enter(c, k) /\ call[c] = Idle
      /\ UNCHANGED <<release, deployment, container, cut>>
  BY <1>k DEF BeginRecordInitial
<1> QED BY <1>3, <1>4, <1>5, <1>6, <1>7, BeginStep DEF Marked, Rollout, Recreating, Drawing

\* A Rollback asks for what a release holds.
LEMMA BeginRollbackInv ==
    ASSUME IInv, NEW c \in Callers, NEW rel \in DOMAIN release, BeginRollback(c, rel)
    PROVE  IInv'
<1>1. TypeOK /\ SnapshotsSome
  BY DEF IInv
<1>2. rel \in Nat /\ release[rel] \in Releases
  BY <1>1, LenProperties DEF TypeOK
<1>3. PICK snap \in SpecMaps : snap = release[rel].snap /\ DOMAIN snap # {}
  BY <1>1, <1>2 DEF Releases, SnapshotsSome
<1>r. PICK row \in Deployments :
        row = [NoRow EXCEPT !.strategy = "lockstep", !.release = rel, !.ups = snap]
  BY <1>2, IdleTyped DEF Deployments, Strategies
<1>4. row.state = "pending" /\ row.ups = snap /\ row.release = rel
  BY <1>r, IdleTyped DEF Deployments
<1>k. PICK k \in Calls :
        k = [Idle EXCEPT !.verb = "Rollback", !.at = "deployment", !.row = row]
  BY IdleTyped DEF Calls, Verbs
<1>5. /\ k.verb = "Rollback" /\ k.at = "deployment" /\ k.row = row /\ k.dep = 0
      /\ k.failed = FALSE /\ k.batch = {} /\ k.left = {} /\ k.listed = {}
  BY <1>k, IdleTyped DEF Calls
<1>6. Shape(k) /\ Course(k)
  BY <1>3, <1>4, <1>5 DEF Shape, Course, Rollout, Recreating, Marked, Unfinished
<1>7. Knows(k)
  BY <1>3, <1>4, <1>5
  DEF Knows, Drawn, Filled, Tied, Sighted, Restoring, Achieved, Rollout, Recreating, Marked
<1>8. Enter(c, k) /\ call[c] = Idle
  BY <1>3, <1>r, <1>k DEF BeginRollback
<1> QED BY <1>1, <1>5, <1>6, <1>7, <1>8, BeginStep
    DEF BeginRollback, TypeOK, Marked, Rollout, Recreating, Drawing

\* A Cancel holds a cancelled copy of the row.
LEMMA BeginCancelInv ==
    ASSUME IInv, NEW c \in Callers, NEW d \in DOMAIN deployment, BeginCancel(c, d)
    PROVE  IInv'
<1>1. TypeOK
  BY DEF IInv
<1>2. d \in Nat /\ d # 0 /\ deployment[d] \in Deployments
  BY <1>1, LenProperties DEF TypeOK
<1>3. PICK row \in Deployments :
        /\ row = InState(deployment[d], "cancelled")
        /\ row.state = "cancelled" /\ row.strategy = deployment[d].strategy
  BY <1>2, InStateIs DEF DeployStates
<1>k. PICK k \in Calls :
        k = [Idle EXCEPT !.verb = "Cancel", !.at = "cancel", !.dep = d, !.row = row]
  BY <1>2, IdleTyped DEF Calls, Verbs
<1>4. /\ k.verb = "Cancel" /\ k.at = "cancel" /\ k.row = row /\ k.dep = d
      /\ k.failed = FALSE /\ k.batch = {} /\ k.left = {} /\ k.listed = {}
  BY <1>k, IdleTyped DEF Calls
<1>5. Shape(k) /\ Course(k)
  BY <1>2, <1>3, <1>4 DEF Shape, Course, Rollout, Recreating, Marked, Unfinished
<1>6. Knows(k)
  BY <1>3, <1>4
  DEF Knows, Drawn, Filled, Tied, Sighted, Restoring, Achieved, Rollout, Recreating, Marked
<1>7. Enter(c, k) /\ call[c] = Idle
  BY <1>3, <1>k DEF BeginCancel
<1> QED BY <1>1, <1>4, <1>5, <1>6, <1>7, BeginStep
    DEF BeginCancel, TypeOK, Marked, Rollout, Recreating, Drawing

\* A snapshot holds the request's services and those of the release before it.
LEMMA InheritIs ==
    ASSUME NEW ups \in SpecMaps, NEW prior \in SpecMaps
    PROVE  /\ Inherit(ups, prior) \in SpecMaps
           /\ DOMAIN Inherit(ups, prior) = DOMAIN ups \cup DOMAIN prior
<1>1. /\ DOMAIN ups \subseteq Services /\ ups \in [DOMAIN ups -> Specs]
      /\ DOMAIN prior \subseteq Services /\ prior \in [DOMAIN prior -> Specs]
  BY MapsToIs DEF SpecMaps
<1>2. /\ DOMAIN Inherit(ups, prior) = DOMAIN ups \cup DOMAIN prior
      /\ Inherit(ups, prior) \in [DOMAIN ups \cup DOMAIN prior -> Specs]
  BY <1>1 DEF Inherit
<1> QED BY <1>1, <1>2, MapsToIs DEF SpecMaps

\* Complete when the newest release is.
LEMMA BuildSnapshotInv ==
    ASSUME IInv, NEW c \in Callers, BuildSnapshot(c)
    PROVE  IInv'
<1>1. TypeOK /\ SnapshotsFull /\ VersionsCounted /\ SnapshotsSome
  BY DEF IInv
<1>2. PICK j \in Calls : j = call[c] /\ Shape(j) /\ Course(j) /\ Knows(j)
  BY <1>1 DEF TypeOK, IInv, CallsInv, Knows
<1>3. PICK prior : /\ prior \in IF release = <<>> THEN {<<>>} ELSE {release[i].snap : i \in Newest}
                   /\ Become(c, [j EXCEPT !.at = "release", !.snap = Inherit(j.row.ups, prior)])
  BY <1>2 DEF BuildSnapshot
<1>4. prior \in SpecMaps /\ (Recorded => DOMAIN prior = Services)
  <2>1. CASE release = <<>>
    <3>1. prior = NoRow.ups /\ ~ Recorded
      BY <2>1, <1>1, <1>3, IdleTyped DEF SnapshotsFull
    <3> QED BY <3>1, IdleTyped DEF Deployments
  <2>2. CASE release # <<>>
    <3>1. PICK i \in DOMAIN release : prior = release[i].snap
      BY <2>2, <1>3 DEF Newest
    <3>2. release[i] \in Releases
      BY <1>1, LenProperties DEF TypeOK
    <3> QED BY <1>1, <3>1, <3>2 DEF Releases, SnapshotsFull, SnapshotsComplete
  <2> QED BY <2>1, <2>2
<1>5. j.at = "snapshot" /\ j.verb = "Deploy" /\ j.dep = 0 /\ DOMAIN j.row.ups # {}
  BY <1>2 DEF BuildSnapshot, Shape
<1>6. j.row.ups \in SpecMaps
  BY DEF Calls, Deployments
<1>7. PICK snap \in SpecMaps : /\ snap = Inherit(j.row.ups, prior)
                               /\ DOMAIN snap = DOMAIN j.row.ups \cup DOMAIN prior
  BY <1>4, <1>6, InheritIs
<1>8. DOMAIN snap # {} /\ (Recorded => DOMAIN snap = Services)
  BY <1>4, <1>5, <1>6, <1>7, MapsToIs DEF SpecMaps
<1>k. PICK k \in Calls : k = [j EXCEPT !.at = "release", !.snap = snap]
  BY DEF Calls
<1>9. /\ k.verb = j.verb /\ k.at = "release" /\ k.snap = snap /\ k.dep = j.dep
      /\ k.version = j.version /\ k.row = j.row /\ k.alone = j.alone
      /\ k.failed = j.failed /\ k.batch = j.batch /\ k.left = j.left /\ k.listed = j.listed
  BY <1>k, ZenonT(60) DEF Calls
<1>10. Shape(k) /\ Course(k)
  BY <1>2, <1>5, <1>8, <1>9 DEF Shape, Course, Rollout, Recreating, Marked
<1>11. Knows(k)
  BY <1>2, <1>5, <1>8, <1>9
  DEF Knows, Drawn, Filled, Tied, Sighted, Restoring, Achieved, Rollout, Recreating, Marked
<1>12. TablesKept
  BY <1>1, UnchangedKept DEF BuildSnapshot
<1>13. Good(k)'
  BY <1>1, <1>10, <1>11, <1>12, KnowsKept DEF Good, BuildSnapshot
<1>14. call' = [call EXCEPT ![c] = k]
  BY <1>2, <1>3, <1>7, <1>k DEF Become
<1>15. Ahead'
  <2>1. Ahead /\ UNCHANGED release /\ j.at \in Drawing
    BY <1>5 DEF IInv, BuildSnapshot, Drawing
  <2>2. \A d \in Callers : call'[d] = IF d = c THEN k ELSE call[d]
    BY <1>1, <1>14 DEF TypeOK
  <2> QED BY <1>2, <1>9, <2>1, <2>2, AheadKept
<1>16. VersionsCounted' /\ SnapshotsSome' /\ SnapshotsFull' /\ Unshared'
  BY ReleasesKept DEF IInv, BuildSnapshot
<1> QED
  BY <1>1, <1>2, <1>5, <1>9, <1>12, <1>13, <1>14, <1>15, <1>16, EarlyStep
  DEF BuildSnapshot, TypeOK

\* The initial release's version is drawn apart from its content.
LEMMA RecordVersionInv ==
    ASSUME IInv, NEW c \in Callers, RecordVersion(c)
    PROVE  IInv'
<1>1. TypeOK /\ SnapshotsFull /\ VersionsCounted /\ SnapshotsSome
  BY DEF IInv
<1>2. PICK j \in Calls : j = call[c] /\ Shape(j) /\ Course(j) /\ Knows(j)
  BY <1>1 DEF TypeOK, IInv, CallsInv, Knows
<1>3. j.at = "version" /\ j.verb = "RecordInitial" /\ j.dep = 0 /\ DOMAIN j.snap # {}
  BY <1>2 DEF RecordVersion, Shape
<1>4. PICK v \in Nat : /\ v = NextReleaseVersion /\ v \in 1 .. Len(release) + 1
                       /\ \A u \in 1 .. v - 1 : u \in Versions
                       /\ \A i \in DOMAIN release : release[i].version < v
  <2>1. Len(release) \in Nat
    BY <1>1, LenProperties DEF TypeOK
  <2> QED BY <1>1, <2>1, NextVersionIs
<1>k. PICK k \in Calls : k = [j EXCEPT !.at = "release", !.version = v]
  BY DEF Calls
<1>5. /\ k.verb = j.verb /\ k.at = "release" /\ k.snap = j.snap /\ k.dep = j.dep
      /\ k.version = v /\ k.row = j.row /\ k.alone = j.alone
      /\ k.failed = j.failed /\ k.batch = j.batch /\ k.left = j.left /\ k.listed = j.listed
  BY <1>k, ZenonT(60) DEF Calls
<1>6. Shape(k) /\ Course(k)
  BY <1>2, <1>3, <1>5 DEF Shape, Course, Rollout, Recreating, Marked
<1>7. Knows(k)
  BY <1>2, <1>3, <1>4, <1>5
  DEF Knows, Drawn, Filled, Tied, Sighted, Restoring, Achieved, Rollout, Recreating, Marked
<1>8. TablesKept
  BY <1>1, UnchangedKept DEF RecordVersion
<1>9. Good(k)'
  BY <1>1, <1>6, <1>7, <1>8, KnowsKept DEF Good, RecordVersion
<1>10. call' = [call EXCEPT ![c] = k]
  BY <1>2, <1>4, <1>k DEF RecordVersion, Become
<1>11. Ahead'
  <2>1. Ahead /\ UNCHANGED release
    BY DEF IInv, RecordVersion
  <2>2. \A d \in Callers : call'[d] = IF d = c THEN k ELSE call[d]
    BY <1>1, <1>10 DEF TypeOK
  <2>3. Leads(k)
    <3>1. ASSUME NEW i \in DOMAIN release PROVE release[i].version \in Nat
      <4>1. release[i] \in Releases
        BY <1>1, LenProperties DEF TypeOK
      <4> QED BY <4>1 DEF Releases
    <3> QED BY <1>4, <1>5, <3>1 DEF Leads
  <2>4. ASSUME NEW d \in Callers, call'[d].at \in Drawing
        PROVE  \/ /\ call[d].at \in Drawing /\ call'[d].version = call[d].version
                  /\ call'[d].alone => call[d].alone
               \/ Leads(call'[d])
    <3>1. CASE d = c
      <4>1. call'[d] = k
        BY <3>1, <2>2
      <4> QED BY <4>1, <2>3
    <3>2. CASE d # c
      <4>1. call'[d] = call[d]
        BY <3>2, <2>2
      <4> QED BY <4>1, <2>4
    <3> QED BY <3>1, <3>2
  <2> QED BY <2>1, <2>4, AheadKept
<1>12. VersionsCounted' /\ SnapshotsSome' /\ SnapshotsFull' /\ Unshared'
  BY ReleasesKept DEF IInv, RecordVersion
<1> QED
  BY <1>1, <1>2, <1>3, <1>5, <1>8, <1>9, <1>10, <1>11, <1>12, EarlyStep
  DEF RecordVersion, TypeOK

\* The version drawn may be taken by now, but none below it is missing.
LEMMA InsertReleaseInv ==
    ASSUME IInv, NEW c \in Callers, InsertRelease(c)
    PROVE  IInv'
<1>1. TypeOK /\ SnapshotsFull /\ VersionsCounted /\ SnapshotsSome
  BY DEF IInv
<1>2. PICK j \in Calls : j = call[c] /\ Shape(j) /\ Course(j) /\ Knows(j)
  BY <1>1 DEF TypeOK, IInv, CallsInv, Knows
<1>3. /\ j.at = "release" /\ j.verb \in {"Deploy", "RecordInitial"} /\ j.dep = 0
      /\ DOMAIN j.snap # {} /\ (Recorded => DOMAIN j.snap = Services)
  BY <1>2 DEF InsertRelease, Shape, Knows, Filled
<1>l. PICK rel \in Releases : rel = [version |-> j.version, snap |-> j.snap, raced |-> ~j.alone]
  <2>1. j.version \in Nat /\ j.snap \in SpecMaps
    BY DEF Calls
  <2>2. PICK raced \in BOOLEAN : raced = ~j.alone
    OBVIOUS
  <2> QED BY <2>1, <2>2 DEF Releases
<1>4. rel.version = j.version /\ rel.snap = j.snap /\ (rel.raced <=> ~j.alone)
  BY <1>l
<1>5. /\ Len(release) \in Nat /\ DOMAIN release = 1 .. Len(release)
      /\ release' \in Seq(Releases) /\ Len(release') = Len(release) + 1
      /\ DOMAIN release' = 1 .. Len(release) + 1
      /\ \A i \in 1 .. Len(release) : release'[i] = release[i]
      /\ release'[Len(release) + 1] = rel
  <2>1. release' = Append(release, rel) /\ release \in Seq(Releases)
    BY <1>1, <1>2, <1>l DEF InsertRelease, TypeOK
  <2>2. /\ release' \in Seq(Releases) /\ Len(release') = Len(release) + 1
        /\ \A i \in 1 .. Len(release) : release'[i] = release[i]
        /\ release'[Len(release) + 1] = rel
    BY <2>1, AppendProperties
  <2> QED BY <2>1, <2>2, LenProperties
<1>6. TablesKept
  BY <1>1, <1>5 DEF TablesKept, InsertRelease, TypeOK
<1>7. Versions' = Versions \cup {j.version}
  BY <1>4, <1>5 DEF Versions
<1>8. j.version \in 1 .. Len(release) + 1 /\ \A v \in 1 .. j.version - 1 : v \in Versions
  BY <1>2, <1>3 DEF Knows, Drawn
<1>9. VersionsCounted'
  <2>1. ASSUME NEW i \in DOMAIN release'
        PROVE  /\ release'[i].version \in 1 .. Len(release')
               /\ \A v \in 1 .. release'[i].version : v \in Versions'
    <3>1. CASE i = Len(release) + 1
      BY <3>1, <1>4, <1>5, <1>7, <1>8
    <3>2. CASE i # Len(release) + 1
      BY <3>2, <1>1, <1>5, <1>7 DEF VersionsCounted
    <3> QED BY <3>1, <3>2
  <2> QED BY <2>1 DEF VersionsCounted
<1>10. SnapshotsSome' /\ SnapshotsFull'
  <2>1. release' # <<>>
    BY <1>5, EmptySeq
  <2> QED BY <2>1, <1>1, <1>3, <1>4, <1>5 DEF SnapshotsSome, SnapshotsFull, SnapshotsComplete
<1>o. PICK old \in Deployments : old = j.row
  BY DEF Calls
<1>n. PICK n \in Nat : n = Len(release) + 1
  BY <1>5
<1>r. PICK row \in Deployments : row = [old EXCEPT !.release = n]
  BY DEF Deployments
<1>11. row.state = j.row.state /\ row.ups = j.row.ups
  BY <1>o, <1>r DEF Deployments
<1>12. <<>> \in SpecMaps
  BY IdleTyped DEF Deployments
<1>k. PICK k \in Calls :
        k = [j EXCEPT !.at = "deployment", !.version = 0, !.snap = <<>>, !.row = row]
  BY <1>12 DEF Calls
<1>13. /\ k.verb = j.verb /\ k.at = "deployment" /\ k.dep = j.dep
       /\ k.row = row /\ k.alone = j.alone
       /\ k.failed = j.failed /\ k.batch = j.batch /\ k.left = j.left /\ k.listed = j.listed
  BY <1>k, CallDomain DEF Fields
<1>14. Shape(k) /\ Course(k)
  BY <1>2, <1>3, <1>11, <1>13 DEF Shape, Course, Rollout, Recreating, Marked
<1>15. Knows(k)'
  BY <1>2, <1>3, <1>13, <1>14
  DEF Course, Knows, Drawn, Filled, Tied, Sighted, Restoring, Achieved, Rollout, Recreating,
      Marked
<1>16. Good(k)'
  BY <1>14, <1>15 DEF Good
<1>17. call' = [call EXCEPT ![c] = k]
  <2>1. Become(c, [j EXCEPT !.at = "deployment", !.version = 0, !.snap = <<>>,
                            !.row.release = Len(release) + 1])
    BY <1>2 DEF InsertRelease
  <2>2. [j EXCEPT !.at = "deployment", !.version = 0, !.snap = <<>>,
                  !.row.release = Len(release) + 1] = k
    <3>1. [j EXCEPT !.at = "deployment", !.version = 0, !.snap = <<>>, !.row = row] =
            [j EXCEPT !.at = "deployment", !.version = 0, !.snap = <<>>,
                      !.row.release = Len(release) + 1]
      BY <1>o, <1>n, <1>r
    <3> QED BY <3>1, <1>k
  <2> QED BY <2>1, <2>2 DEF Become
<1>18. j.alone => \A d \in Callers : d # c => call[d] = Idle
  BY <1>2, <1>3 DEF IInv, Alone
<1>19. /\ \A i \in DOMAIN release : j.alone \/ ~release[i].raced => release[i].version < j.version
       /\ j.version \in Nat /\ \A i \in DOMAIN release : release[i].version \in Nat
  <2>1. Leads(j)
    BY <1>2, <1>3 DEF IInv, Ahead, Drawing
  <2>2. j.version \in Nat
    BY DEF Calls
  <2>3. \A i \in DOMAIN release : release[i] \in Releases
    BY <1>1, <1>5 DEF TypeOK
  <2> QED BY <2>1, <2>2, <2>3 DEF Leads, Releases
<1>20. Unshared'
  <2>1. ASSUME NEW x \in DOMAIN release', NEW y \in DOMAIN release', x < y,
               release'[x].version = release'[y].version
        PROVE  release'[x].raced /\ release'[y].raced
    <3>1. x \in DOMAIN release /\ x # Len(release) + 1 /\ release'[x] = release[x]
      BY <1>5, <2>1
    <3>2. CASE y = Len(release) + 1
      BY <1>4, <1>5, <1>19, <2>1, <3>1, <3>2
    <3>3. CASE y # Len(release) + 1
      <4>1. y \in DOMAIN release /\ release'[y] = release[y] /\ x # y
        BY <1>5, <2>1, <3>3
      <4> QED BY <2>1, <3>1, <4>1 DEF IInv, Unshared
    <3> QED BY <3>2, <3>3
  <2>2. \A x, y \in DOMAIN release' : x # y => x < y \/ y < x
    BY <1>5
  <2> QED BY <2>1, <2>2 DEF Unshared
<1>21. Ahead'
  <2> SUFFICES ASSUME NEW d \in Callers, call'[d].at \in Drawing, NEW i \in DOMAIN release',
                      call'[d].alone \/ ~release'[i].raced
               PROVE  release'[i].version < call'[d].version
    BY DEF Ahead, Leads
  <2>1. \A e \in Callers : call'[e] = IF e = c THEN k ELSE call[e]
    BY <1>1, <1>17 DEF TypeOK
  <2>2. d # c /\ call'[d] = call[d] /\ call[d].at \in Drawing
    BY <1>13, <2>1 DEF Drawing
  <2>3. call[d] # Idle
    BY <2>2, IdleTyped DEF Drawing
  <2>4. ~j.alone /\ ~call[d].alone
    BY <1>2, <1>3, <1>18, <2>2, <2>3, IdleTyped DEF IInv, Alone, Drawing
  <2>5. i # Len(release) + 1
    BY <1>4, <1>5, <2>2, <2>4
  <2>6. i \in DOMAIN release /\ release'[i] = release[i]
    BY <1>5, <2>5
  <2> QED BY <2>2, <2>4, <2>6 DEF IInv, Ahead, Leads
<1> QED
  BY <1>1, <1>2, <1>3, <1>6, <1>9, <1>10, <1>13, <1>16, <1>17, <1>20, <1>21, EarlyStep
  DEF InsertRelease, TypeOK

\* RecordInitial's row is finished from the start.
LEMMA InitialRowIs ==
    ASSUME NEW rel \in Nat
    PROVE  /\ InitialRow(rel) \in Deployments /\ InitialRow(rel).state = "succeeded"
           /\ Honest(InitialRow(rel))
<1>1. Initial \in SpecMaps /\ DOMAIN Initial = Services
  BY DeployAssumption, MapsToIs DEF SpecMaps
<1>2. PICK f : f = [s \in Services |-> "succeeded"]
  OBVIOUS
<1>3. f \in ProgressMaps
  BY <1>2, MapsToIs DEF ProgressMaps, Progress
<1>4. InitialRow(rel) \in Deployments
  BY <1>1, <1>2, <1>3 DEF InitialRow, Deployments, DeployStates, Strategies
<1>5. InitialRow(rel).state = "succeeded"
  BY DEF InitialRow
<1>6. InitialRow(rel).ups = Initial /\ InitialRow(rel).progress = f
  BY <1>2 DEF InitialRow
<1> QED BY <1>1, <1>2, <1>4, <1>5, <1>6 DEF Honest

\* A deployment is driven from the step that inserts it.
LEMMA InsertDeploymentInv ==
    ASSUME IInv, NEW c \in Callers, InsertDeployment(c)
    PROVE  IInv'
<1>1. TypeOK /\ CallsInv /\ Alone /\ Driving /\ ProgressHonest
      /\ SnapshotsFull /\ VersionsCounted /\ SnapshotsSome /\ Unshared /\ Ahead
  BY DEF IInv
<1>2. PICK j \in Calls : j = call[c] /\ Shape(j) /\ Course(j) /\ Knows(j)
  BY <1>1 DEF TypeOK, CallsInv, Knows
<1>3. /\ j.at = "deployment" /\ j.dep = 0
      /\ j.verb \in {"Deploy", "RecordInitial", "Rollback"}
      /\ j.row.state \in Unfinished /\ (j.verb # "RecordInitial" => DOMAIN j.row.ups # {})
      /\ UNCHANGED <<release, container, cut, mishaps>>
  BY <1>2 DEF InsertDeployment, Shape
<1>4. VersionsCounted' /\ SnapshotsSome' /\ SnapshotsFull' /\ Unshared'
  BY <1>1, <1>3, ReleasesKept
<1>5. PICK old \in Deployments : old = j.row
  BY DEF Calls
<1>6. DOMAIN deployment = 1 .. Len(deployment) /\ Len(deployment) \in Nat
  BY <1>1, LenProperties DEF TypeOK
<1>7. CASE j.verb = "RecordInitial"
  <2>1. PICK row \in Deployments : /\ row = InitialRow(old.release)
                                   /\ row.state = "succeeded" /\ Honest(row)
    BY InitialRowIs DEF Deployments
  <2>2. deployment' = Append(deployment, row) /\ Return(c)
    BY <1>2, <1>5, <1>7, <2>1 DEF InsertDeployment
  <2>3. /\ deployment' \in Seq(Deployments)
        /\ DOMAIN deployment' = DOMAIN deployment \cup {Len(deployment) + 1}
        /\ deployment'[Len(deployment) + 1] = row
        /\ \A d \in DOMAIN deployment : deployment'[d] = deployment[d]
        /\ TablesKept
    BY <1>1, <1>3, <2>2, AppendIs
  <2>4. CallsInv' /\ Alone' /\ call' \in [Callers -> Calls]
    BY <1>1, <1>2, <1>3, <2>2, <2>3, ReturnStep
  <2>5. TypeOK'
    BY <1>1, <1>3, <2>3, <2>4 DEF TypeOK
  <2>6. \A d \in Callers : call[d].dep # 0 => call'[d] = call[d]
    BY <1>1, <1>2, <1>3, <2>2 DEF TypeOK, Return, Become
  <2>7. Driving'
    BY <1>1, <1>3, <1>6, <2>1, <2>3, <2>6 DEF Driving, Unfinished
  <2>8. ProgressHonest'
    BY <1>1, <2>1, <2>3 DEF ProgressHonest, Honest
  <2>9. Ahead'
    BY <1>1, <1>3, <2>2, ReturnAhead
  <2> QED BY <1>4, <2>4, <2>5, <2>7, <2>8, <2>9 DEF IInv
<1>8. CASE j.verb # "RecordInitial"
  <2>1. PICK f \in ProgressMaps : f = [s \in DOMAIN old.ups |-> "pending"]
    <3>1. DOMAIN old.ups \subseteq Services
      BY MapsToIs DEF Deployments, SpecMaps
    <3> QED BY <3>1, MapsToIs DEF ProgressMaps, Progress
  <2>r. PICK row \in Deployments : row = [old EXCEPT !.progress = f]
    BY DEF Deployments
  <2>2. /\ row.state = old.state /\ row.strategy = old.strategy /\ row.release = old.release
        /\ row.ups = old.ups /\ row.progress = f /\ DOMAIN f = DOMAIN old.ups
    BY <2>1, <2>r DEF Deployments
  <2>n. PICK n \in Nat : n = Len(deployment) + 1 /\ n # 0
    BY <1>6
  <2>k. PICK k \in Calls : k = [j EXCEPT !.at = "start", !.dep = n, !.row = row]
    BY DEF Calls
  <2>3. /\ k.verb = j.verb /\ k.at = "start" /\ k.dep = n /\ k.row = row
        /\ k.alone = j.alone /\ k.todo = j.todo
        /\ k.failed = j.failed /\ k.batch = j.batch /\ k.left = j.left /\ k.listed = j.listed
    BY <2>k, ZenonT(60) DEF Calls
  <2>4. deployment' = Append(deployment, row) /\ call' = [call EXCEPT ![c] = k]
    BY <1>2, <1>5, <1>8, <2>1, <2>r, <2>n, <2>k DEF InsertDeployment, Become
  <2>5. /\ deployment' \in Seq(Deployments) /\ n \in DOMAIN deployment'
        /\ DOMAIN deployment' = DOMAIN deployment \cup {n}
        /\ deployment'[n] = row
        /\ \A d \in DOMAIN deployment : deployment'[d] = deployment[d]
        /\ TablesKept
    BY <1>1, <1>3, <2>4, <2>n, AppendIs
  <2>6. Shape(k)
    BY <1>2, <1>3, <1>5, <1>8, <2>2, <2>3, <2>n DEF Shape, Rollout, Recreating
  <2>7. Course(k)
    BY <1>2, <1>3, <1>5, <2>2, <2>3 DEF Course, Rollout, Recreating, Marked
  <2>8. Knows(k)'
    <3>1. Restoring(j)
      BY <1>2 DEF Knows
    <3>2. Restoring(k)'
      BY <3>1, <1>3, <1>5, <2>2, <2>3 DEF Restoring
    <3>3. Tied(k)'
      BY <2>3, <2>5 DEF Tied
    <3>4. Sighted(k)' /\ Achieved(k)' /\ Drawn(k)' /\ Filled(k)'
      BY <2>3, <2>7 DEF Course, Sighted, Achieved, Drawn, Filled, Rollout, Recreating, Marked
    <3> QED BY <3>2, <3>3, <3>4 DEF Knows
  <2>9. CallsInv' /\ Alone' /\ call' \in [Callers -> Calls]
    BY <1>1, <1>2, <1>3, <2>3, <2>4, <2>5, <2>6, <2>7, <2>8, CallStep DEF Good
  <2>10. TypeOK'
    BY <1>1, <1>3, <2>5, <2>9 DEF TypeOK
  <2>11. /\ \A d \in Callers : call[d].dep # 0 => call'[d] = call[d]
         /\ call'[c] = k
    BY <1>1, <1>2, <1>3, <2>4 DEF TypeOK
  <2>12. Driving'
    <3> SUFFICES ASSUME NEW d \in DOMAIN deployment', deployment'[d].state \in Unfinished
                 PROVE  \/ d \in cut \/ deployment'[d].strategy = "unknown"
                        \/ \E e \in Callers :
                              call'[e].dep = d /\ call'[e].verb \in {"Deploy", "Rollback"}
      BY <1>3 DEF Driving
    <3>1. CASE d = n
      BY <3>1, <1>3, <1>8, <2>3, <2>11
    <3>2. CASE d # n
      BY <3>2, <1>1, <1>6, <2>5, <2>11 DEF Driving
    <3> QED BY <3>1, <3>2
  <2>13. ProgressHonest'
    BY <1>1, <1>3, <1>5, <2>2, <2>5 DEF ProgressHonest, Unfinished
  <2>14. Ahead'
    <3>1. \A d \in Callers : call'[d] = IF d = c THEN k ELSE call[d]
      BY <1>1, <2>4 DEF TypeOK
    <3> QED BY <1>1, <1>3, <2>3, <3>1, AheadKept DEF Drawing
  <2> QED BY <1>4, <2>9, <2>10, <2>12, <2>13, <2>14 DEF IInv
<1> QED BY <1>7, <1>8

\* An unknown strategy leaves the row pending; the others take all services up.
LEMMA StartInv ==
    ASSUME IInv, NEW c \in Callers, Start(c)
    PROVE  IInv'
<1>1. TypeOK /\ CallsInv
  BY DEF IInv
<1>2. PICK j \in Calls : j = call[c] /\ Shape(j) /\ Course(j) /\ Knows(j)
  BY <1>1 DEF TypeOK, CallsInv, Knows
<1>3. j.at = "start" /\ UNCHANGED <<release, container, cut, mishaps>>
  BY <1>2 DEF Start
<1>4. CASE j.row.strategy = "unknown"
  <2>1. Return(c) /\ deployment' = deployment
    BY <1>2, <1>4 DEF Start
  <2> QED BY <1>1, <1>2, <1>3, <1>4, <2>1, QuitStep DEF TypeOK
<1>5. CASE j.row.strategy # "unknown"
  <2>1. PICK old \in Deployments : old = j.row
    BY DEF Calls
  <2>2. PICK row \in Deployments : /\ row = InState(old, "running")
                                   /\ row.state = "running"
                                   /\ row.strategy = old.strategy /\ row.release = old.release
                                   /\ row.ups = old.ups /\ row.progress = old.progress
    BY InStateIs DEF DeployStates, Unfinished
  <2>3. PICK D \in SUBSET Services : D = DOMAIN row.ups
    BY MapsToIs DEF Deployments, SpecMaps
  <2>k. PICK k \in Calls : k = [j EXCEPT !.at = "mark", !.row = row, !.todo = D]
    BY DEF Calls
  <2>4. /\ k.verb = j.verb /\ k.at = "mark" /\ k.dep = j.dep /\ k.row = row /\ k.todo = D
        /\ k.alone = j.alone /\ k.failed = j.failed /\ k.batch = j.batch
        /\ k.left = j.left /\ k.listed = j.listed /\ k.spared = j.spared
    BY <2>k, CallDomain DEF Fields
  <2>5. Save(c, row) /\ call' = [call EXCEPT ![c] = k]
    BY <1>2, <1>5, <2>1, <2>2, <2>3, <2>k DEF Start, Become
  <2>6. Shape(k)
    BY <1>2, <1>3, <2>1, <2>2, <2>4 DEF Shape, Rollout, Unfinished
  <2>7. Course(k)
    BY <1>2, <1>3, <2>1, <2>2, <2>3, <2>4 DEF Shape, Course, Rollout, Recreating, Marked
  <2>8. Sighted(k) /\ Achieved(k)
    BY <1>2, <1>3, <2>3, <2>4 DEF Course, Sighted, Achieved, Rollout, Recreating, Marked
  <2>9. TablesKept => Good(k)'
    BY <1>1, <1>2, <1>3, <2>1, <2>2, <2>4, <2>6, <2>7, <2>8, KnowsCarried DEF Good, Rollout, Recreating
  <2> QED
    BY <1>1, <1>2, <1>3, <2>1, <2>2, <2>4, <2>5, <2>9, RolloutStep
    DEF Rollout, TypeOK, Unfinished
<1> QED BY <1>4, <1>5

\* The services of the next provider call are shown as running.
LEMMA MarkBatchInv ==
    ASSUME IInv, NEW c \in Callers, MarkBatch(c)
    PROVE  IInv'
<1>1. TypeOK /\ CallsInv
  BY DEF IInv
<1>2. PICK j \in Calls : j = call[c] /\ Shape(j) /\ Course(j) /\ Knows(j)
  BY <1>1 DEF TypeOK, CallsInv, Knows
<1>3. /\ j.at = "mark" /\ ~j.failed /\ j.todo # {} /\ j.batch = {} /\ j.left = {}
      /\ j.row.state \in Unfinished /\ j.dep # 0 /\ j.verb \in {"Deploy", "Rollback"}
      /\ DOMAIN j.row.ups # {}
  BY <1>2 DEF MarkBatch, Shape, Course, Rollout, Recreating
<1>4. PICK old \in Deployments : old = j.row
  BY DEF Calls
<1>5. PICK S \in SUBSET Services, ok \in BOOLEAN :
        /\ S # {} /\ S \subseteq j.todo /\ Outcome(ok)
        /\ IF ok THEN Save(c, WithProgress(old, S, "running")) ELSE deployment' = deployment
        /\ call' = [call EXCEPT ![c] =
                      [j EXCEPT !.at = "list", !.row = WithProgress(old, S, "running"),
                                !.batch = S, !.left = S, !.todo = j.todo \ S]]
  <2>1. j.todo \in SUBSET Services
    BY DEF Calls
  <2>2. \A S \in Batches(c) : S \in SUBSET Services /\ S # {} /\ S \subseteq j.todo
    BY <1>2, <1>3, <2>1 DEF Batches
  <2>3. PICK S \in Batches(c), ok \in BOOLEAN :
          /\ Outcome(ok)
          /\ IF ok THEN Save(c, WithProgress(old, S, "running")) ELSE deployment' = deployment
          /\ Become(c, [j EXCEPT !.at = "list", !.row = WithProgress(old, S, "running"),
                                 !.batch = S, !.left = S, !.todo = j.todo \ S])
    BY <1>2, <1>4 DEF MarkBatch
  <2> QED BY <2>2, <2>3 DEF Become
<1>6. PICK row \in Deployments :
        /\ row = WithProgress(old, S, "running") /\ row.state = old.state
        /\ row.release = old.release /\ row.ups = old.ups /\ row.strategy = old.strategy
        /\ DOMAIN row.progress = DOMAIN old.progress
        /\ \A s \in DOMAIN old.progress :
              row.progress[s] = IF s \in S THEN "running" ELSE old.progress[s]
  BY WithProgressIs DEF Progress
<1>7. PICK T \in SUBSET Services : T = j.todo \ S
  BY DEF Calls
<1>k. PICK k \in Calls : k = [j EXCEPT !.at = "list", !.row = row, !.batch = S, !.left = S,
                                      !.todo = T]
  BY DEF Calls
<1>8. /\ k.verb = j.verb /\ k.at = "list" /\ k.dep = j.dep /\ k.row = row /\ k.batch = S
      /\ k.left = S /\ k.todo = T /\ k.alone = j.alone /\ k.failed = j.failed
      /\ k.listed = j.listed /\ k.spared = j.spared
  BY <1>k, CallDomain DEF Fields
<1>9. Shape(k)
  BY <1>3, <1>4, <1>6, <1>8 DEF Shape, Rollout, Recreating
<1>10. T \cup S = j.todo
  BY <1>5, <1>7
<1>11. Course(k)
  BY <1>2, <1>3, <1>4, <1>5, <1>6, <1>8, <1>10 DEF Course, Rollout, Recreating, Marked
<1>12. Sighted(k) /\ Achieved(k)
  BY <1>2, <1>3, <1>4, <1>6, <1>8, <1>10 DEF Knows, Sighted, Achieved, Rollout, Recreating, Marked
<1>13. UNCHANGED <<release, container, cut>>
  BY DEF MarkBatch
<1>14. TablesKept => Good(k)'
  BY <1>1, <1>2, <1>4, <1>6, <1>8, <1>9, <1>11, <1>12, <1>13, KnowsCarried DEF Good, Rollout, Recreating
<1>15. call' = [call EXCEPT ![c] = k] /\ (Save(c, row) \/ deployment' = deployment)
  BY <1>5, <1>6, <1>7, <1>k
<1> QED
  BY <1>1, <1>2, <1>3, <1>4, <1>5, <1>6, <1>8, <1>13, <1>14, <1>15, OutcomeIs, RolloutStep
  DEF Rollout, Recreating

\* The containers are listed, or that fails.
LEMMA ListContainersInv ==
    ASSUME IInv, NEW c \in Callers, ListContainers(c)
    PROVE  IInv'
<1>1. TypeOK /\ CallsInv
  BY DEF IInv
<1>2. PICK j \in Calls : j = call[c] /\ Shape(j) /\ Course(j) /\ Knows(j)
  BY <1>1 DEF TypeOK, CallsInv, Knows
<1>3. /\ j.at = "list" /\ ~j.failed /\ j.row.state \in Unfinished
      /\ UNCHANGED <<release, deployment, container, cut>>
  BY <1>2 DEF ListContainers, Shape, Course
<1>4. PICK L \in SUBSET Services, ok \in BOOLEAN :
        /\ Outcome(ok) /\ L \subseteq DOMAIN container
        /\ call' = [call EXCEPT ![c] = [j EXCEPT !.at = "recreate", !.failed = ~ok,
                                                 !.listed = L]]
  <2>1. DOMAIN container \subseteq Services
    BY <1>1, MapsToIs DEF TypeOK, ContainerMaps
  <2>2. PICK ok \in BOOLEAN :
          /\ Outcome(ok)
          /\ Become(c, [j EXCEPT !.at = "recreate", !.failed = ~ok,
                                 !.listed = IF ok THEN DOMAIN container ELSE {}])
    BY <1>2 DEF ListContainers
  <2>3. PICK L \in SUBSET Services : L = IF ok THEN DOMAIN container ELSE {}
    BY <2>1
  <2> QED BY <2>2, <2>3 DEF Become
<1>k. PICK k \in Calls : k = [j EXCEPT !.at = "recreate", !.failed = ~ok, !.listed = L]
  BY DEF Calls
<1>5. /\ k.verb = j.verb /\ k.at = "recreate" /\ k.dep = j.dep /\ k.row = j.row
      /\ k.batch = j.batch /\ k.left = j.left /\ k.todo = j.todo /\ k.alone = j.alone
      /\ k.failed = ~ok /\ k.listed = L /\ k.spared = j.spared
  BY <1>k, CallDomain DEF Fields
<1>6. Shape(k)
  BY <1>2, <1>3, <1>5 DEF Shape, Rollout, Recreating
<1>7. Course(k)
  BY <1>2, <1>3, <1>5 DEF Course, Rollout, Recreating, Marked
<1>8. Sighted(k) /\ Achieved(k)
  BY <1>2, <1>3, <1>4, <1>5 DEF Knows, Sighted, Achieved, Rollout, Recreating, Marked
<1>9. TablesKept => Good(k)'
  BY <1>1, <1>2, <1>3, <1>5, <1>6, <1>7, <1>8, KnowsCarried DEF Good, Rollout, Recreating
<1>10. PICK row \in Deployments : row = j.row
  BY DEF Calls
<1>11. call' = [call EXCEPT ![c] = k]
  BY <1>4, <1>k
<1> QED
  BY <1>1, <1>2, <1>3, <1>4, <1>5, <1>9, <1>10, <1>11, OutcomeIs, RolloutStep DEF Rollout, Recreating

\* The outcome of a provider call is written down.
LEMMA SettleBatchInv ==
    ASSUME IInv, NEW c \in Callers, SettleBatch(c)
    PROVE  IInv'
<1>1. TypeOK /\ CallsInv
  BY DEF IInv
<1>2. PICK j \in Calls : j = call[c] /\ Shape(j) /\ Course(j) /\ Knows(j)
  BY <1>1 DEF TypeOK, CallsInv, Knows
<1>3. /\ j.at = "recreate" /\ j.row.state \in Unfinished /\ (j.failed \/ j.left = {})
      /\ j.batch # {} /\ j.batch \subseteq DOMAIN j.row.ups
      /\ DOMAIN j.row.progress = DOMAIN j.row.ups
      /\ UNCHANGED <<release, container, cut>>
  BY <1>2 DEF SettleBatch, Shape, Course, Rollout, Recreating, Marked
<1>4. PICK old \in Deployments : old = j.row
  BY DEF Calls
<1>p. PICK p \in Progress : p = IF j.failed THEN "failed" ELSE "succeeded"
  BY DEF Progress
<1>b. PICK B \in SUBSET Services : B = j.batch
  BY DEF Calls
<1>5. PICK row \in Deployments :
        /\ row = WithProgress(old, B, p) /\ row.state = old.state
        /\ row.release = old.release /\ row.ups = old.ups /\ row.strategy = old.strategy
        /\ DOMAIN row.progress = DOMAIN old.progress
        /\ \A s \in DOMAIN old.progress :
              row.progress[s] = IF s \in B THEN p ELSE old.progress[s]
  BY WithProgressIs
<1>a. PICK at \in {"finish", "mark"} :
        at = IF j.failed \/ j.todo = {} THEN "finish" ELSE "mark"
  OBVIOUS
<1>k. PICK k \in Calls : k = [j EXCEPT !.at = at, !.row = row, !.batch = {}, !.left = {},
                                      !.listed = {}]
  BY DEF Calls
<1>6. /\ k.verb = j.verb /\ k.at = at /\ k.dep = j.dep /\ k.row = row /\ k.batch = {}
      /\ k.left = {} /\ k.todo = j.todo /\ k.alone = j.alone /\ k.failed = j.failed
      /\ k.listed = {} /\ k.spared = j.spared
  BY <1>k, ZenonT(60) DEF Calls
<1>7. Shape(k)
  BY <1>2, <1>3, <1>4, <1>5, <1>6 DEF Shape, Rollout, Recreating
<1>8. Course(k)
  <2>1. ASSUME ~k.failed, NEW s \in DOMAIN k.row.ups \ k.todo
        PROVE  k.row.progress[s] = "succeeded"
    BY <2>1, <1>2, <1>3, <1>4, <1>p, <1>b, <1>5, <1>6 DEF Course, Marked, Rollout, Recreating
  <2>2. k.failed => \E s \in DOMAIN k.row.ups : k.row.progress[s] = "failed"
    BY <1>3, <1>4, <1>p, <1>b, <1>5, <1>6
  <2>3. DOMAIN k.row.progress = DOMAIN k.row.ups /\ k.todo \subseteq DOMAIN k.row.ups
    BY <1>2, <1>3, <1>4, <1>5, <1>6 DEF Course, Marked, Rollout, Recreating
  <2> QED BY <1>a, <1>6, <2>1, <2>2, <2>3 DEF Course, Marked, Rollout, Recreating
<1>9. Sighted(k) /\ Achieved(k)
  <2>1. Sighted(k)
    BY <1>6 DEF Sighted
  <2>2. Achieved(j) /\ j.at \in Marked /\ (~j.failed => j.left = {})
    BY <1>2, <1>3 DEF Knows, Rollout, Recreating, Marked
  <2>3. k.row.ups = j.row.ups
    BY <1>4, <1>5, <1>6
  <2> QED BY <1>a, <1>6, <2>1, <2>2, <2>3 DEF Achieved
<1>10. TablesKept => Good(k)'
  BY <1>1, <1>2, <1>3, <1>4, <1>5, <1>6, <1>7, <1>8, <1>9, KnowsCarried, ZenonT(60) DEF Good, Rollout, Recreating
<1>11. /\ \E ok \in BOOLEAN :
             Outcome(ok) /\ IF ok THEN Save(c, row) ELSE deployment' = deployment
       /\ call' = [call EXCEPT ![c] = k]
  BY <1>2, <1>4, <1>p, <1>b, <1>5, <1>a, <1>k DEF SettleBatch, Become
<1>12. mishaps' \in Nat /\ (Save(c, row) \/ deployment' = deployment)
  BY <1>1, <1>11, OutcomeIs
<1> QED
  BY <1>1, <1>2, <1>3, <1>4, <1>5, <1>6, <1>10, <1>11, <1>12, RolloutStep DEF Rollout, Recreating

\* The last word on a rollout is a true one.
LEMMA FinishInv ==
    ASSUME IInv, NEW c \in Callers, Finish(c)
    PROVE  IInv'
<1>1. TypeOK /\ CallsInv
  BY DEF IInv
<1>2. PICK j \in Calls : j = call[c] /\ Shape(j) /\ Course(j)
  BY <1>1 DEF TypeOK, CallsInv
<1>3. j.at = "finish" /\ j.dep # 0
  BY <1>2 DEF Finish, Shape, Rollout, Recreating
<1>4. PICK old \in Deployments : old = j.row
  BY DEF Calls
<1>5. PICK row \in Deployments :
        /\ row = InState(old, IF j.failed THEN "failed" ELSE "succeeded")
        /\ row.state = IF j.failed THEN "failed" ELSE "succeeded"
        /\ row.ups = old.ups /\ row.strategy = old.strategy /\ row.progress = old.progress
  BY InStateIs DEF DeployStates
<1>6. row.state \notin Unfinished /\ Honest(row)
  BY <1>2, <1>3, <1>4, <1>5 DEF Honest, Course, Unfinished, Marked, Rollout, Recreating
<1>7. Save(c, row) /\ Return(c) /\ UNCHANGED <<release, container, cut, mishaps>>
  BY <1>2, <1>4, <1>5 DEF Finish
<1> QED BY <1>2, <1>3, <1>4, <1>5, <1>6, <1>7, FinalStep

\* Cancelled is a final state, over whatever the row has become.
LEMMA CancelWriteInv ==
    ASSUME IInv, NEW c \in Callers, CancelWrite(c)
    PROVE  IInv'
<1>1. TypeOK /\ CallsInv
  BY DEF IInv
<1>2. PICK j \in Calls : j = call[c] /\ Shape(j)
  BY <1>1 DEF TypeOK, CallsInv
<1>3. j.at = "cancel" /\ j.dep # 0 /\ j.row.state = "cancelled"
  BY <1>2 DEF CancelWrite, Shape
<1>4. PICK row \in Deployments : row = j.row
  BY DEF Calls
<1>5. row.state \notin Unfinished /\ Honest(row)
  BY <1>3, <1>4 DEF Honest, Unfinished
<1>6. Save(c, row) /\ Return(c) /\ UNCHANGED <<release, container, cut, mishaps>>
  BY <1>2, <1>4 DEF CancelWrite
<1> QED BY <1>2, <1>3, <1>4, <1>5, <1>6, FinalStep

\* What a reboot or an interruption cuts short are deployments.
LEMMA DrivenIs ==
    ASSUME TypeOK, CallsInv, NEW S \in SUBSET Callers
    PROVE  /\ Driven(S) \subseteq DOMAIN deployment
           /\ \A c \in S : call[c].verb \in {"Deploy", "Rollback"} /\ call[c].dep # 0 =>
                              call[c].dep \in Driven(S)
<1>1. \A c \in Callers : call[c].dep # 0 => call[c].dep \in DOMAIN deployment
  BY DEF CallsInv, Tied
<1> QED BY <1>1 DEF Driven

\* A call that is cut short leaves its deployment to the record of those.
LEMMA InterruptInv ==
    ASSUME IInv, NEW c \in Callers, Interrupt(c)
    PROVE  IInv'
<1>1. TypeOK /\ CallsInv
  BY DEF IInv
<1>2. call[c].at # "idle" /\ Return(c) /\ UNCHANGED <<release, deployment, container>>
  BY <1>1 DEF Interrupt, CallsInv, Shape
<1>3. PICK D : D = Driven({c})
  OBVIOUS
<1>4. cut' = cut \cup D /\ mishaps' \in Nat
  BY <1>1, <1>3 DEF Interrupt, TypeOK
<1>5. /\ D \subseteq DOMAIN deployment
      /\ call[c].verb \in {"Deploy", "Rollback"} /\ call[c].dep # 0 => call[c].dep \in D
  BY <1>1, <1>3, DrivenIs
<1>6. cut \subseteq cut' /\ cut' \subseteq DOMAIN deployment
  BY <1>1, <1>4, <1>5 DEF TypeOK
<1> QED BY <1>2, <1>4, <1>5, <1>6, QuitStep

\* So does a reboot, for every call.
LEMMA RebootInv ==
    ASSUME IInv, Reboot
    PROVE  IInv'
<1> USE DEF IInv
<1>1. UNCHANGED <<release, deployment, container>> /\ mishaps' \in Nat
  BY DEF Reboot, TypeOK
<1>2. \A c \in Callers : call'[c] = Idle
  BY DEF Reboot
<1>3. PICK D : D = Driven(Callers)
  OBVIOUS
<1>4. cut' = cut \cup D
  BY <1>3 DEF Reboot
<1>5. /\ D \subseteq DOMAIN deployment
      /\ \A c \in Callers : call[c].verb \in {"Deploy", "Rollback"} /\ call[c].dep # 0 =>
                              call[c].dep \in D
  BY <1>3, DrivenIs
<1>6. TypeOK'
  <2>1. call' \in [Callers -> Calls]
    BY IdleTyped DEF Reboot
  <2> QED BY <2>1, <1>1, <1>4, <1>5 DEF TypeOK
<1>7. CallsInv' /\ Alone'
  <2>1. Shape(Idle) /\ Course(Idle)
    BY IdleTyped DEF Shape, Course, Rollout, Recreating, Marked, Unfinished
  <2>2. Knows(Idle)'
    BY IdleTyped DEF Knows, Drawn, Filled, Tied, Sighted, Restoring, Achieved, Marked, Rollout, Recreating
  <2>3. CallsInv'
    <3> SUFFICES ASSUME NEW c \in Callers PROVE Good(call[c])'
      BY DEF CallsInv, Good, Knows
    <3> QED BY <2>1, <2>2, <1>2 DEF Good
  <2> QED BY <2>3, <1>2, IdleTyped DEF Alone
<1>8. VersionsCounted' /\ SnapshotsSome' /\ SnapshotsFull' /\ Unshared'
  BY <1>1, ReleasesKept
<1>9. \A d \in DOMAIN deployment : d # 0
  BY LenProperties DEF TypeOK
<1>10. Driving' /\ ProgressHonest'
  BY <1>1, <1>4, <1>5, <1>9 DEF Driving, ProgressHonest
<1>11. Ahead'
  BY <1>1, <1>2, IdleTyped, AheadKept DEF Drawing
<1> QED BY <1>6, <1>7, <1>8, <1>10, <1>11

\* A step of recreating that leaves the containers alone.
LEMMA RecreateStay ==
    ASSUME IInv, NEW c \in Callers, NEW k \in Calls, call' = [call EXCEPT ![c] = k],
           call[c].at \in Recreating, k.at \in Recreating, k.dep = call[c].dep,
           k.verb = call[c].verb, k.row = call[c].row, k.alone = call[c].alone,
           Shape(k), Course(k), Sighted(k), Achieved(k),
           UNCHANGED <<release, deployment, container, cut>>, mishaps' \in Nat
    PROVE  IInv'
<1>1. TypeOK /\ CallsInv /\ Recreating \subseteq Rollout
  BY DEF IInv, Rollout, Recreating
<1>2. PICK j \in Calls : j = call[c] /\ Shape(j) /\ Knows(j)
  BY <1>1 DEF TypeOK, CallsInv, Knows
<1>3. TablesKept => Good(k)'
  BY <1>1, <1>2, KnowsCarried DEF Good
<1>4. PICK row \in Deployments : row = j.row /\ row.state \in Unfinished
  BY <1>2 DEF Calls, Shape, Recreating
<1> QED BY <1>1, <1>2, <1>3, <1>4, RolloutStep

\* One that changes containers: no other listing names those in G any more, and
\* the others stay.
LEMMA RecreateReplaces ==
    ASSUME IInv, NEW c \in Callers, NEW k \in Calls, NEW G \in SUBSET Services,
           call' = [d \in Callers |-> call'[d]], call'[c] = k,
           \A d \in Callers \ {c} : \/ G = {} /\ call'[d] = call[d]
                                    \/ call'[d] = [call[d] EXCEPT !.listed = @ \ G],
           call[c].at \in Recreating, k.at \in Recreating, k.dep = call[c].dep,
           k.verb = call[c].verb, k.row = call[c].row, k.alone = call[c].alone,
           Shape(k), Course(k), Sighted(k)', Achieved(k)',
           container' \in ContainerMaps, DOMAIN container \ G \subseteq DOMAIN container',
           UNCHANGED <<release, deployment, cut>>, mishaps' \in Nat
    PROVE  IInv'
<1> USE DEF IInv
<1>1. Good(call[c])'
  <2>1. PICK j \in Calls : j = call[c] /\ Knows(j)
    BY DEF TypeOK, CallsInv, Knows
  <2>2. Drawn(k)' /\ Filled(k)'
    BY DEF Drawn, Filled, Recreating
  <2>3. Tied(k)'
    BY <2>1 DEF Knows, Tied
  <2>4. Restoring(k)'
    BY <2>1 DEF Knows, Restoring
  <2>5. Good(k)'
    BY <2>2, <2>3, <2>4 DEF Good, Knows
  <2> QED BY <2>5
<1>2. ASSUME NEW d \in Callers, d # c
      PROVE  /\ call'[d] \in Calls /\ Good(call[d])'
             /\ call'[d].dep = call[d].dep /\ call'[d].verb = call[d].verb
             /\ call'[d].at = call[d].at /\ call'[d].alone = call[d].alone
             /\ call'[d].version = call[d].version
             /\ call[d] = Idle => call'[d] = Idle
  <2>1. PICK j \in Calls : j = call[d] /\ Good(j)
    BY DEF TypeOK, CallsInv, Good, Knows
  <2>2. PICK L \in SUBSET Services : L = j.listed \ G
    BY DEF Calls
  <2>k. PICK m \in Calls : m = [j EXCEPT !.listed = L]
    BY DEF Calls
  <2>m. /\ m.verb = j.verb /\ m.at = j.at /\ m.version = j.version /\ m.snap = j.snap
        /\ m.dep = j.dep /\ m.row = j.row /\ m.batch = j.batch /\ m.left = j.left
        /\ m.todo = j.todo /\ m.listed = L /\ m.failed = j.failed /\ m.alone = j.alone
        /\ m.now = j.now /\ m.env = j.env /\ m.spared = j.spared
    BY <2>k, CallDomain DEF Fields
  <2>4. \/ call'[d] = j /\ L = j.listed
        \/ call'[d] = m
    <3>1. CASE G = {} /\ call'[d] = call[d]
      <4>1. j.listed \in SUBSET Services
        BY DEF Calls
      <4> QED BY <3>1, <4>1, <2>1, <2>2
    <3>2. CASE call'[d] = [call[d] EXCEPT !.listed = @ \ G]
      BY <3>2, <2>1, <2>2, <2>k
    <3> QED BY <3>1, <3>2, <1>2
  <2>n. PICK n \in Calls : n = call'[d]
    BY <2>4
  <2>3. /\ n.verb = j.verb /\ n.at = j.at /\ n.version = j.version /\ n.snap = j.snap
        /\ n.dep = j.dep /\ n.row = j.row /\ n.batch = j.batch /\ n.left = j.left
        /\ n.todo = j.todo /\ n.listed = L /\ n.failed = j.failed /\ n.alone = j.alone
        /\ n.now = j.now /\ n.env = j.env /\ n.spared = j.spared
    BY <2>4, <2>m, <2>n
  <2>5. j = Idle => n = Idle
    <3>1. j = Idle => L = j.listed
      BY <2>2, IdleTyped
    <3>2. j = Idle => m = Idle
      BY <3>1, <2>k DEF Calls
    <3> QED BY <3>2, <2>4, <2>n
  <2>6. Shape(n)
    BY <2>1, <2>3, <2>5, IdleTyped DEF Good, Shape
  <2>7. Course(n)
    <3>1. Course(j) /\ (j.listed = {} => L = {})
      BY <2>1, <2>2 DEF Good
    <3> QED BY <2>3, <3>1 DEF Course
  <2>8. Drawn(n)' /\ Filled(n)' /\ Tied(n)' /\ Restoring(n)'
    <3>1. Drawn(n)'
      BY <2>1, <2>3 DEF Good, Knows, Drawn, Versions
    <3>2. Filled(n)'
      BY <2>1, <2>3 DEF Good, Knows, Filled
    <3>3. Tied(n)'
      BY <2>1, <2>3 DEF Good, Knows, Tied
    <3>4. Restoring(n)'
      BY <2>1, <2>3 DEF Good, Knows, Restoring
    <3> QED BY <3>1, <3>2, <3>3, <3>4
  <2>9. Sighted(n)'
    BY <2>1, <2>2, <2>3 DEF Good, Knows, Sighted
  <2>10. Achieved(n)'
    <3>1. n.at \in Marked => ~n.alone
      BY <1>2, <2>1, <2>3, IdleTyped DEF Alone, Marked, Rollout, Recreating
    <3> QED BY <3>1 DEF Achieved
  <2>11. Good(n)'
    BY <2>6, <2>7, <2>8, <2>9, <2>10 DEF Good, Knows
  <2> QED BY <2>1, <2>3, <2>n, <2>5, <2>11
<1>3. call' \in [Callers -> Calls]
  <2>1. \A d \in Callers : call'[d] \in Calls
    BY <1>2
  <2> QED BY <2>1
<1>4. CallsInv'
  BY <1>1, <1>2 DEF CallsInv, Good, Knows
<1>5. Alone'
  <2>1. SUFFICES ASSUME NEW x \in Callers, NEW y \in Callers, x # y,
                        call'[x].at # "idle", call'[x].alone
                 PROVE  call'[y] = Idle
    BY DEF Alone
  <2>2. call[x].at # "idle" /\ call[x].alone
    BY <2>1, <1>2 DEF Recreating
  <2>3. call[y] = Idle
    BY <2>1, <2>2 DEF Alone
  <2>4. y # c
    BY <2>3, IdleTyped DEF Recreating
  <2> QED BY <2>3, <2>4, <1>2
<1>6. TypeOK'
  BY <1>3 DEF TypeOK
<1>7. VersionsCounted' /\ SnapshotsSome' /\ SnapshotsFull' /\ Unshared'
  BY ReleasesKept
<1>8. Driving' /\ ProgressHonest'
  <2>1. \A d \in Callers : call'[d].dep = call[d].dep /\ call'[d].verb = call[d].verb
    BY <1>2
  <2> QED BY <2>1, DeploymentsStay
<1>9. Ahead'
  <2>1. k.at \notin Drawing
    BY DEF Recreating, Drawing
  <2> QED BY <1>2, <2>1, AheadKept
<1> QED BY <1>4, <1>5, <1>6, <1>7, <1>8, <1>9

\* A failure ends the batch and leaves the containers alone.
LEMMA FailInv ==
    ASSUME IInv, NEW c \in Callers, call[c].at \in Recreating, Fail(c),
           UNCHANGED <<release, deployment, container, cut>>, mishaps' \in Nat
    PROVE  IInv'
<1>1. PICK j \in Calls : j = call[c] /\ Shape(j) /\ Course(j)
  BY DEF IInv, TypeOK, CallsInv
<1>k. PICK k \in Calls :
        k = [j EXCEPT !.at = "recreate", !.failed = TRUE, !.now = {}, !.env = NoEnv]
  BY DeployAssumption DEF Calls
<1>2. /\ k.verb = j.verb /\ k.at = "recreate" /\ k.dep = j.dep /\ k.row = j.row
      /\ k.batch = j.batch /\ k.left = j.left /\ k.todo = j.todo /\ k.alone = j.alone
      /\ k.failed = TRUE /\ k.listed = j.listed
  BY <1>k, CallDomain DEF Fields
<1>3. Shape(k)
  BY <1>1, <1>2 DEF Shape, Rollout, Recreating
<1>4. Course(k)
  BY <1>1, <1>2 DEF Course, Rollout, Recreating, Marked
<1>5. Sighted(k) /\ Achieved(k)
  BY <1>2 DEF Sighted, Achieved
<1>6. call' = [call EXCEPT ![c] = k]
  BY <1>1, <1>k DEF Fail, Become
<1>7. k.at \in Recreating
  BY <1>2 DEF Recreating
<1> QED BY <1>1, <1>2, <1>3, <1>4, <1>5, <1>6, <1>7, RecreateStay

\* The service a rollout looks up is one it has to do; one with its image
\* already is done.
LEMMA InspectInv ==
    ASSUME IInv, NEW c \in Callers, NEW s \in Services, Inspect(c, s)
    PROVE  IInv'
<1>1. TypeOK /\ CallsInv
  BY DEF IInv
<1>2. PICK j \in Calls : j = call[c] /\ Shape(j) /\ Course(j) /\ Knows(j)
  BY <1>1 DEF TypeOK, CallsInv, Knows
<1>3. /\ j.at = "recreate" /\ ~j.failed /\ s \in j.left /\ s \in DOMAIN j.row.ups
      /\ j.left \subseteq j.batch
      /\ UNCHANGED <<release, deployment, container, cut>>
  BY <1>2 DEF Inspect, Course, Marked, Rollout, Recreating
<1>4. PICK new \in Specs : new = j.row.ups[s]
  <2>1. PICK row \in Deployments : row = j.row
    BY DEF Calls
  <2>2. row.ups \in SpecMaps /\ s \in DOMAIN row.ups
    BY <1>3, <2>1 DEF Deployments
  <2> QED BY <2>1, <2>2, MapsToIs DEF SpecMaps
<1>5. new.image \in Images /\ new.env \in Envs
  BY DEF Specs
<1>6. j.listed \subseteq DOMAIN container /\ Achieved(j)
  BY <1>2, <1>3 DEF Knows, Sighted
<1>7. PICK env : env = IF new.env = NoEnv THEN container[s].env ELSE new.env
  OBVIOUS
<1>8. \/ Fail(c) /\ (mishaps' = mishaps \/ Outcome(FALSE))
      \/ /\ s \in j.listed /\ container[s].image = new.image
         /\ Become(c, [j EXCEPT !.left = @ \ {s}, !.spared = @ \cup {s}])
         /\ mishaps' = mishaps
      \/ /\ s \in j.listed
         /\ Become(c, [j EXCEPT !.at = "remove", !.now = {s}, !.env = env])
         /\ mishaps' = mishaps
  BY <1>2, <1>4, <1>7 DEF Inspect
<1>9. mishaps' \in Nat
  BY <1>1, <1>8, OutcomeIs DEF TypeOK
<1>10. CASE Fail(c)
  <2>1. call[c].at \in Recreating
    BY <1>2, <1>3 DEF Recreating
  <2> QED BY <1>3, <1>9, <1>10, <2>1, FailInv
<1>11. CASE /\ s \in j.listed /\ container[s].image = new.image
            /\ Become(c, [j EXCEPT !.left = @ \ {s}, !.spared = @ \cup {s}])
  <2>1. PICK L \in SUBSET Services, P \in SUBSET Services : L = j.left \ {s} /\ P = j.spared \cup {s}
    BY DEF Calls
  <2>k. PICK k \in Calls : k = [j EXCEPT !.left = L, !.spared = P]
    BY DEF Calls
  <2>2. /\ k.verb = j.verb /\ k.at = j.at /\ k.dep = j.dep /\ k.row = j.row
        /\ k.batch = j.batch /\ k.left = L /\ k.todo = j.todo /\ k.alone = j.alone
        /\ k.failed = j.failed /\ k.listed = j.listed /\ k.spared = P
    BY <2>k, CallDomain DEF Fields
  <2>3. Shape(k)
    BY <1>2, <1>3, <2>2 DEF Shape, Rollout, Recreating
  <2>4. Course(k)
    BY <1>2, <1>3, <2>1, <2>2 DEF Course, Rollout, Recreating, Marked
  <2>5. Sighted(k)
    BY <1>6, <2>2 DEF Sighted
  <2>6. Achieved(k)
    BY <1>3, <1>4, <1>6, <1>11, <2>1, <2>2 DEF Achieved, Marked, Rollout, Recreating
  <2>7. call' = [call EXCEPT ![c] = k]
    BY <1>11, <2>1, <2>k DEF Become
  <2>8. k.at \in Recreating /\ j.at \in Recreating
    BY <1>3, <2>2 DEF Recreating
  <2> QED BY <1>2, <1>3, <1>9, <2>2, <2>3, <2>4, <2>5, <2>6, <2>7, <2>8, RecreateStay
<1>12. CASE /\ s \in j.listed
            /\ Become(c, [j EXCEPT !.at = "remove", !.now = {s}, !.env = env])
  <2>1. env \in Envs
    <3>1. container[s] \in [image : Images, env : Envs, up : BOOLEAN]
      BY <1>1, <1>6, <1>12, MapsToIs DEF TypeOK, ContainerMaps
    <3> QED BY <1>5, <1>7, <3>1
  <2>2. PICK N \in SUBSET Services : N = {s}
    OBVIOUS
  <2>k. PICK k \in Calls : k = [j EXCEPT !.at = "remove", !.now = N, !.env = env]
    BY <2>1 DEF Calls
  <2>3. /\ k.verb = j.verb /\ k.at = "remove" /\ k.dep = j.dep /\ k.row = j.row
        /\ k.batch = j.batch /\ k.left = j.left /\ k.todo = j.todo /\ k.alone = j.alone
        /\ k.failed = j.failed /\ k.listed = j.listed /\ k.spared = j.spared
        /\ k.now = N /\ k.env = env
    BY <2>k, ZenonT(60) DEF Calls
  <2>4. Shape(k)
    BY <1>2, <1>3, <2>3 DEF Shape, Rollout, Recreating
  <2>5. new.env \in {NoEnv, env}
    BY <1>7
  <2>6. Course(k)
    BY <1>2, <1>3, <1>4, <2>2, <2>3, <2>5 DEF Course, Rollout, Recreating, Marked
  <2>7. Sighted(k)
    BY <1>6, <2>3 DEF Sighted
  <2>8. Achieved(k)
    BY <1>3, <1>6, <2>3 DEF Achieved, Marked, Rollout, Recreating
  <2>9. call' = [call EXCEPT ![c] = k]
    BY <1>12, <2>2, <2>k DEF Become
  <2>10. k.at \in Recreating /\ j.at \in Recreating
    BY <1>3, <2>3 DEF Recreating
  <2> QED BY <1>2, <1>3, <1>9, <2>3, <2>4, <2>6, <2>7, <2>8, <2>9, <2>10, RecreateStay
<1> QED BY <1>8, <1>10, <1>11, <1>12

\* Removing the old container touches nothing a rollout has behind it.
LEMMA RemoveOldInv ==
    ASSUME IInv, NEW c \in Callers, RemoveOld(c)
    PROVE  IInv'
<1>1. TypeOK /\ CallsInv
  BY DEF IInv
<1>2. PICK j \in Calls : j = call[c] /\ Shape(j) /\ Course(j) /\ Knows(j)
  BY <1>1 DEF TypeOK, CallsInv, Knows
<1>3. /\ j.at = "remove" /\ j.at \in Recreating
      /\ UNCHANGED <<release, deployment, cut>>
  BY <1>2 DEF RemoveOld, Recreating
<1>4. CASE Fail(c) /\ Outcome(FALSE) /\ container' = container
  BY <1>1, <1>2, <1>3, <1>4, OutcomeIs, FailInv
<1>5. ASSUME NEW s \in call[c].now, NEW gone, gone = IF s \in call[c].listed THEN {s} ELSE {},
             container' = [t \in DOMAIN container \ gone |-> container[t]],
             call' = [d \in Callers |->
                         IF d = c THEN [call[d] EXCEPT !.at = "create", !.listed = @ \ gone]
                         ELSE [call[d] EXCEPT !.listed = @ \ gone]],
             mishaps' = mishaps
      PROVE  IInv'
  <2>1. /\ ~j.failed /\ s \in j.left /\ s \in j.now /\ gone \in SUBSET Services
        /\ \A t \in gone : t \in j.left
    <3>1. s \in j.now /\ j.now \subseteq j.left /\ ~j.failed
      BY <1>2, <1>3, <1>5 DEF Course, Recreating
    <3>2. j.left \subseteq Services
      BY DEF Calls
    <3> QED BY <1>5, <3>1, <3>2
  <2>2. PICK L \in SUBSET Services : L = j.listed \ gone
    BY DEF Calls
  <2>k. PICK k \in Calls : k = [j EXCEPT !.at = "create", !.listed = L]
    BY DEF Calls
  <2>3. /\ k.verb = j.verb /\ k.at = "create" /\ k.dep = j.dep /\ k.row = j.row
        /\ k.batch = j.batch /\ k.left = j.left /\ k.todo = j.todo /\ k.alone = j.alone
        /\ k.failed = j.failed /\ k.listed = L /\ k.spared = j.spared
        /\ k.now = j.now /\ k.env = j.env
    BY <2>k, ZenonT(60) DEF Calls
  <2>4. Shape(k)
    BY <1>2, <1>3, <2>3 DEF Shape, Rollout, Recreating
  <2>5. Course(k)
    BY <1>2, <1>3, <2>3 DEF Course, Rollout, Recreating, Marked
  <2>6. /\ DOMAIN container' = DOMAIN container \ gone
        /\ \A t \in DOMAIN container \ gone : container'[t] = container[t]
    BY <1>5
  <2>7. container' \in ContainerMaps
    <3>1. /\ DOMAIN container \subseteq Services
          /\ container \in [DOMAIN container -> [image : Images, env : Envs, up : BOOLEAN]]
      BY <1>1, MapsToIs DEF TypeOK, ContainerMaps
    <3>2. container' \in [DOMAIN container' -> [image : Images, env : Envs, up : BOOLEAN]]
      BY <3>1, <1>5
    <3> QED BY <2>6, <3>1, <3>2, MapsToIs DEF ContainerMaps
  <2>8. Sighted(k)'
    BY <1>2, <2>1, <2>2, <2>3, <2>6 DEF Knows, Sighted
  <2>9. Achieved(k)'
    <3>1. Achieved(j) /\ j.at \in Marked
      BY <1>2, <1>3 DEF Knows, Marked, Rollout, Recreating
    <3>2. \A t \in DOMAIN j.row.ups \ (j.todo \cup j.left) : t \notin gone
      BY <2>1
    <3>3. k.at \in Marked /\ k.alone /\ ~k.failed =>
            \A t \in DOMAIN k.row.ups \ (k.todo \cup k.left) :
              /\ t \in DOMAIN container' /\ container'[t].image = k.row.ups[t].image
              /\ t \notin k.spared =>
                    container'[t].up /\ k.row.ups[t].env \in {NoEnv, container'[t].env}
      <4> SUFFICES ASSUME j.alone, NEW t \in DOMAIN j.row.ups \ (j.todo \cup j.left)
                   PROVE  /\ t \in DOMAIN container'
                          /\ container'[t].image = j.row.ups[t].image
                          /\ t \notin j.spared =>
                                /\ container'[t].up
                                /\ j.row.ups[t].env \in {NoEnv, container'[t].env}
        BY <2>3
      <4>1. /\ t \in DOMAIN container /\ container[t].image = j.row.ups[t].image
            /\ t \notin j.spared =>
                  container[t].up /\ j.row.ups[t].env \in {NoEnv, container[t].env}
        BY <2>1, <3>1 DEF Achieved
      <4>2. t \in DOMAIN container' /\ container'[t] = container[t]
        BY <2>6, <3>2, <4>1
      <4> QED BY <4>1, <4>2
    <3> QED BY <2>3, <3>3 DEF Achieved
  <2>10. /\ call' = [d \in Callers |-> call'[d]] /\ call'[c] = k
         /\ \A d \in Callers \ {c} : call'[d] = [call[d] EXCEPT !.listed = @ \ gone]
    BY <1>2, <1>5, <2>2, <2>k
  <2>11. mishaps' \in Nat /\ k.at \in Recreating
    BY <1>1, <1>5, <2>3 DEF TypeOK, Recreating
  <2> QED
    BY <1>2, <1>3, <2>1, <2>3, <2>4, <2>5, <2>6, <2>7, <2>8, <2>9, <2>10, <2>11,
       RecreateReplaces
<1>6. \/ Fail(c) /\ Outcome(FALSE) /\ container' = container
      \/ \E s \in call[c].now : \E gone \in {IF s \in call[c].listed THEN {s} ELSE {}} :
            /\ container' = [t \in DOMAIN container \ gone |-> container[t]]
            /\ call' = [d \in Callers |->
                           IF d = c THEN [call[d] EXCEPT !.at = "create", !.listed = @ \ gone]
                           ELSE [call[d] EXCEPT !.listed = @ \ gone]]
            /\ mishaps' = mishaps
  BY DEF RemoveOld
<1> QED BY <1>4, <1>5, <1>6

\* The new container has the image and the environment that were asked for.
LEMMA CreateNewInv ==
    ASSUME IInv, NEW c \in Callers, CreateNew(c)
    PROVE  IInv'
<1>1. TypeOK /\ CallsInv
  BY DEF IInv
<1>2. PICK j \in Calls : j = call[c] /\ Shape(j) /\ Course(j) /\ Knows(j)
  BY <1>1 DEF TypeOK, CallsInv, Knows
<1>3. /\ j.at = "create" /\ j.at \in Recreating
      /\ UNCHANGED <<release, deployment, cut>>
  BY <1>2 DEF CreateNew, Recreating
<1>4. CASE Fail(c) /\ (mishaps' = mishaps \/ Outcome(FALSE)) /\ container' = container
  <2>1. mishaps' \in Nat
    BY <1>1, <1>4, OutcomeIs DEF TypeOK
  <2> QED BY <1>2, <1>3, <1>4, <2>1, FailInv
<1>5. ASSUME NEW s \in call[c].now, s \notin DOMAIN container,
             container' = [t \in DOMAIN container \cup {s} |->
                              IF t = s THEN [image |-> call[c].row.ups[s].image,
                                             env |-> call[c].env, up |-> FALSE]
                              ELSE container[t]],
             Become(c, [call[c] EXCEPT !.at = "start container", !.listed = @ \cup {s}]),
             mishaps' = mishaps
      PROVE  IInv'
  <2>1. /\ ~j.failed /\ s \in j.left /\ s \in j.now /\ s \in Services
        /\ s \in DOMAIN j.row.ups
    BY <1>2, <1>3, <1>5 DEF Course, Calls, Marked, Rollout, Recreating
  <2>2. PICK L \in SUBSET Services : L = j.listed \cup {s}
    BY <2>1 DEF Calls
  <2>k. PICK k \in Calls : k = [j EXCEPT !.at = "start container", !.listed = L]
    BY DEF Calls
  <2>3. /\ k.verb = j.verb /\ k.at = "start container" /\ k.dep = j.dep /\ k.row = j.row
        /\ k.batch = j.batch /\ k.left = j.left /\ k.todo = j.todo /\ k.alone = j.alone
        /\ k.failed = j.failed /\ k.listed = L /\ k.spared = j.spared
        /\ k.now = j.now /\ k.env = j.env
    BY <2>k, ZenonT(60) DEF Calls
  <2>4. Shape(k)
    BY <1>2, <1>3, <2>3 DEF Shape, Rollout, Recreating
  <2>5. Course(k)
    <3>1. Course(j)
      BY <1>2
    <3>2. /\ j.at \in Recreating \ {"recreate"} /\ j.at \in Marked
          /\ k.at \in Recreating \ {"recreate"} /\ k.at \in Marked
          /\ k.at \notin {"mark", "list", "finish"}
      BY <1>3, <2>3 DEF Rollout, Recreating, Marked
    <3> QED BY <2>3, <3>1, <3>2 DEF Course, Marked
  <2>6. PICK new \in [image : Images, env : Envs, up : BOOLEAN] :
          new = [image |-> j.row.ups[s].image, env |-> j.env, up |-> FALSE]
    <3>1. PICK row \in Deployments : row = j.row
      BY DEF Calls
    <3>2. row.ups \in SpecMaps /\ s \in DOMAIN row.ups
      BY <2>1, <3>1 DEF Deployments
    <3>3. j.row.ups[s] \in Specs
      BY <3>1, <3>2, MapsToIs DEF SpecMaps
    <3>4. j.env \in Envs
      BY DEF Calls
    <3> QED BY <3>3, <3>4 DEF Specs
  <2>7. new.image = j.row.ups[s].image /\ new.env = j.env
    BY <2>6
  <2>8. container' = [t \in DOMAIN container \cup {s} |-> IF t = s THEN new ELSE container[t]]
    BY <1>2, <1>5, <2>6
  <2>9. /\ DOMAIN container' = DOMAIN container \cup {s} /\ container'[s] = new
        /\ \A t \in DOMAIN container : container'[t] = container[t]
    BY <1>5, <2>8
  <2>10. container' \in ContainerMaps
    <3>1. /\ DOMAIN container \subseteq Services
          /\ container \in [DOMAIN container -> [image : Images, env : Envs, up : BOOLEAN]]
      BY <1>1, MapsToIs DEF TypeOK, ContainerMaps
    <3>2. container' \in [DOMAIN container' -> [image : Images, env : Envs, up : BOOLEAN]]
      BY <3>1, <2>8, <2>9
    <3> QED BY <2>1, <2>9, <3>1, <3>2, MapsToIs DEF ContainerMaps
  <2>11. Sighted(k)'
    BY <1>2, <2>1, <2>2, <2>3, <2>9 DEF Knows, Sighted
  <2>12. Achieved(k)'
    <3>1. Achieved(j) /\ j.at \in Marked
      BY <1>2, <1>3 DEF Knows, Marked, Rollout, Recreating
    <3>2. \A t \in j.now : t = s /\ j.row.ups[t].env \in {NoEnv, j.env}
      BY <1>2, <1>3, <2>1 DEF Course
    <3> QED BY <2>1, <2>3, <2>7, <2>9, <3>1, <3>2, ZenonT(60) DEF Achieved
  <2>13. /\ call' = [d \in Callers |-> call'[d]] /\ call'[c] = k
         /\ \A d \in Callers \ {c} : call'[d] = call[d]
    BY <1>1, <1>2, <1>5, <2>2, <2>k DEF Become, TypeOK
  <2>14. mishaps' \in Nat /\ k.at \in Recreating
    BY <1>1, <1>5, <2>3 DEF TypeOK, Recreating
  <2>15. PICK G \in SUBSET Services : G = {}
    OBVIOUS
  <2>16. DOMAIN container \ G \subseteq DOMAIN container'
    BY <2>9
  <2> QED
    BY <1>2, <1>3, <2>3, <2>4, <2>5, <2>10, <2>11, <2>12, <2>13, <2>14, <2>15, <2>16,
       RecreateReplaces
<1> QED BY <1>4, <1>5 DEF CreateNew

\* And once it has started, the service is done.
LEMMA StartNewInv ==
    ASSUME IInv, NEW c \in Callers, StartNew(c)
    PROVE  IInv'
<1>1. TypeOK /\ CallsInv
  BY DEF IInv
<1>2. PICK j \in Calls : j = call[c] /\ Shape(j) /\ Course(j) /\ Knows(j)
  BY <1>1 DEF TypeOK, CallsInv, Knows
<1>3. /\ j.at = "start container" /\ j.at \in Recreating
      /\ UNCHANGED <<release, deployment, cut>>
  BY <1>2 DEF StartNew, Recreating
<1>4. CASE Fail(c) /\ (mishaps' = mishaps \/ Outcome(FALSE)) /\ container' = container
  <2>1. mishaps' \in Nat
    BY <1>1, <1>4, OutcomeIs DEF TypeOK
  <2> QED BY <1>2, <1>3, <1>4, <2>1, FailInv
<1>5. ASSUME NEW s \in call[c].now, s \in call[c].listed,
             container' = [container EXCEPT ![s].up = TRUE],
             Become(c, [call[c] EXCEPT !.at = "recreate", !.left = @ \ {s}, !.now = {},
                                       !.env = NoEnv]),
             mishaps' = mishaps
      PROVE  IInv'
  <2>1. /\ ~j.failed /\ s \in j.left /\ s \in j.now /\ s \in Services
        /\ s \in j.listed /\ s \in DOMAIN container /\ s \in DOMAIN j.row.ups
        /\ j.listed \subseteq DOMAIN container
    BY <1>2, <1>3, <1>5 DEF Course, Calls, Knows, Sighted, Marked, Rollout, Recreating
  <2>2. PICK L \in SUBSET Services : L = j.left \ {s}
    BY DEF Calls
  <2>k. PICK k \in Calls : k = [j EXCEPT !.at = "recreate", !.left = L, !.now = {}, !.env = NoEnv]
    BY DeployAssumption DEF Calls
  <2>3. /\ k.verb = j.verb /\ k.at = "recreate" /\ k.dep = j.dep /\ k.row = j.row
        /\ k.batch = j.batch /\ k.left = L /\ k.todo = j.todo /\ k.alone = j.alone
        /\ k.failed = j.failed /\ k.listed = j.listed /\ k.spared = j.spared
    BY <2>k, CallDomain DEF Fields
  <2>4. Shape(k)
    BY <1>2, <1>3, <2>3 DEF Shape, Rollout, Recreating
  <2>5. Course(k)
    <3>1. /\ j.at \in Recreating /\ j.at \in Marked /\ L \subseteq j.left
          /\ k.at \in Marked /\ k.at = "recreate" /\ k.at \in Recreating
      BY <1>3, <2>2, <2>3 DEF Rollout, Recreating, Marked
    <3> QED BY <1>2, <2>3, <3>1 DEF Course, Marked
  <2>6. /\ DOMAIN container \subseteq Services
        /\ container \in [DOMAIN container -> [image : Images, env : Envs, up : BOOLEAN]]
    BY <1>1, MapsToIs DEF TypeOK, ContainerMaps
  <2>7. PICK old \in [image : Images, env : Envs, up : BOOLEAN] : old = container[s]
    BY <2>1, <2>6
  <2>8. PICK new \in [image : Images, env : Envs, up : BOOLEAN] : new = [old EXCEPT !.up = TRUE]
    OBVIOUS
  <2>9. new.up = TRUE /\ new.image = old.image /\ new.env = old.env
    BY <2>8
  <2>10. container' = [container EXCEPT ![s] = new]
    BY <1>5, <2>7, <2>8
  <2>11. /\ DOMAIN container' = DOMAIN container /\ container'[s] = new
         /\ \A t \in DOMAIN container \ {s} : container'[t] = container[t]
         /\ container' \in [DOMAIN container' -> [image : Images, env : Envs, up : BOOLEAN]]
    BY <2>1, <2>6, <2>10
  <2>12. container' \in ContainerMaps
    BY <2>6, <2>11, MapsToIs DEF ContainerMaps
  <2>13. Sighted(k)'
    BY <2>1, <2>3, <2>11 DEF Sighted
  <2>14. Achieved(k)'
    <3>1. Achieved(j) /\ j.at \in Marked
      BY <1>2, <1>3 DEF Knows, Marked, Rollout, Recreating
    <3>2. j.alone => /\ old.image = j.row.ups[s].image
                     /\ j.row.ups[s].env \in {NoEnv, old.env}
      BY <1>3, <2>1, <2>7, <3>1 DEF Achieved
    <3>3. ASSUME j.alone, NEW t \in DOMAIN j.row.ups \ (j.todo \cup L)
          PROVE  /\ t \in DOMAIN container' /\ container'[t].image = j.row.ups[t].image
                 /\ t \notin j.spared =>
                       container'[t].up /\ j.row.ups[t].env \in {NoEnv, container'[t].env}
      <4>1. CASE t = s
        BY <3>2, <3>3, <4>1, <2>1, <2>9, <2>11
      <4>2. CASE t # s
        BY <3>1, <3>3, <4>2, <2>1, <2>2, <2>11 DEF Achieved
      <4> QED BY <4>1, <4>2
    <3> QED BY <2>3, <3>3 DEF Achieved
  <2>15. /\ call' = [d \in Callers |-> call'[d]] /\ call'[c] = k
         /\ \A d \in Callers \ {c} : call'[d] = call[d]
    BY <1>1, <1>2, <1>5, <2>2, <2>k DEF Become, TypeOK
  <2>16. mishaps' \in Nat /\ k.at \in Recreating
    BY <1>1, <1>5, <2>3 DEF TypeOK, Recreating
  <2>17. PICK G \in SUBSET Services : G = {}
    OBVIOUS
  <2>18. DOMAIN container \ G \subseteq DOMAIN container'
    BY <2>11
  <2> QED
    BY <1>2, <1>3, <2>3, <2>4, <2>5, <2>12, <2>13, <2>14, <2>15, <2>16, <2>17, <2>18,
       RecreateReplaces
<1> QED BY <1>4, <1>5 DEF StartNew

-----------------------------------------------------------------------------

\* It holds of what Provision, and RecordInitial, leave behind.
LEMMA InitInv == Init => IInv
<1> SUFFICES ASSUME Init PROVE IInv
  OBVIOUS
<1> USE DEF Init
<1>1. Initial \in SpecMaps /\ DOMAIN Initial = Services /\ Services # {}
      /\ Initial \in [Services -> Specs]
  BY DeployAssumption, MapsToIs DEF SpecMaps
<1>r. PICK r \in Releases : r = [version |-> 1, snap |-> Initial, raced |-> FALSE]
  <2> HIDE DEF Init
  <2> QED BY <1>1 DEF Releases
<1>2. r.version = 1 /\ r.snap = Initial
  BY <1>r
<1>3. PICK d \in Deployments : /\ d = InitialRow(1) /\ d.state = "succeeded" /\ Honest(d)
  BY InitialRowIs
<1>4. \/ Recorded /\ release = <<r>> /\ deployment = <<d>>
      \/ ~Recorded /\ release = <<>> /\ deployment = <<>>
  BY <1>r, <1>3, DeployAssumption
<1>5. /\ release \in Seq(Releases) /\ deployment \in Seq(Deployments)
      /\ \A i \in DOMAIN release : i = 1 /\ release[i] = r /\ Len(release) = 1
      /\ \A i \in DOMAIN deployment : deployment[i] = d
      /\ Recorded => release # <<>>
  <2> HIDE DEF Init
  <2>1. CASE release = <<r>> /\ deployment = <<d>>
    BY <2>1
  <2>2. CASE ~Recorded /\ release = <<>> /\ deployment = <<>>
    BY <2>2
  <2> QED BY <1>4, <2>1, <2>2
<1>6. \A c \in Callers : call[c] = Idle
  OBVIOUS
<1>7. container \in ContainerMaps
  <2>1. container \in [Services -> [image : Images, env : Envs, up : BOOLEAN]]
    BY <1>1 DEF Started, Specs
  <2> QED BY <2>1, MapsToIs DEF ContainerMaps
<1>8. TypeOK
  <2>1. call \in [Callers -> Calls]
    BY IdleTyped
  <2> QED BY <2>1, <1>5, <1>7 DEF TypeOK
<1>9. CallsInv /\ Alone
  <2>1. Shape(Idle) /\ Course(Idle)
    BY IdleTyped DEF Shape, Course, Rollout, Recreating, Marked, Unfinished
  <2>2. Knows(Idle)
    BY IdleTyped DEF Knows, Drawn, Filled, Tied, Sighted, Restoring, Achieved, Marked, Rollout, Recreating
  <2> HIDE DEF Init
  <2> QED BY <2>1, <2>2, <1>6, IdleTyped DEF CallsInv, Knows, Alone
<1>10. VersionsCounted /\ SnapshotsSome /\ SnapshotsFull
  <2>1. ASSUME NEW i \in DOMAIN release
        PROVE  /\ release[i].version = 1 /\ DOMAIN release[i].snap = Services
               /\ Len(release) = 1 /\ 1 \in Versions
    BY <1>1, <1>2, <1>5 DEF Versions
  <2> HIDE DEF Init
  <2> QED BY <2>1, <1>1, <1>5
      DEF VersionsCounted, SnapshotsSome, SnapshotsFull, SnapshotsComplete
<1>11. Driving /\ ProgressHonest
  BY <1>3, <1>5 DEF Driving, ProgressHonest, Honest, Unfinished
<1>12. Unshared
  <2>1. \A i, k \in DOMAIN release : i = k
    BY <1>5
  <2> HIDE DEF Init
  <2> QED BY <2>1 DEF Unshared
<1>13. Ahead
  <2> HIDE DEF Init
  <2> QED BY <1>6, IdleTyped DEF Ahead, Drawing
<1> QED BY <1>8, <1>9, <1>10, <1>11, <1>12, <1>13 DEF IInv

\* And every step keeps it.
LEMMA NextInv == IInv /\ [Next]_vars => IInv'
<1>1. ASSUME IInv, Next PROVE IInv'
  <2>1. CASE Reboot
    BY <1>1, <2>1, RebootInv
  <2>2. ASSUME NEW c \in Callers, Begin(c) PROVE IInv'
    BY <1>1, <2>2, BeginDeployInv, BeginRecordInitialInv, BeginRollbackInv, BeginCancelInv
    DEF Begin
  <2>3. ASSUME NEW c \in Callers, Advance(c) PROVE IInv'
    BY <1>1, <2>3, BuildSnapshotInv, RecordVersionInv, InsertReleaseInv, InsertDeploymentInv,
       StartInv, MarkBatchInv, ListContainersInv, InspectInv, RemoveOldInv, CreateNewInv,
       StartNewInv, SettleBatchInv, FinishInv, CancelWriteInv
    DEF Advance
  <2>4. ASSUME NEW c \in Callers, Interrupt(c) PROVE IInv'
    BY <1>1, <2>4, InterruptInv
  <2> QED BY <1>1, <2>1, <2>2, <2>3, <2>4 DEF Next
<1>2. ASSUME IInv, UNCHANGED vars PROVE IInv'
  <2>1. TypeOK' /\ Alone' /\ Driving' /\ ProgressHonest'
    BY <1>2 DEF vars, IInv, TypeOK, Alone, Driving, ProgressHonest
  <2>2. VersionsCounted' /\ SnapshotsSome' /\ SnapshotsFull' /\ Unshared' /\ Ahead'
    BY <1>2, ReleasesKept DEF vars, IInv, Ahead, Leads
  <2>3. CallsInv'
    <3>1. TablesKept /\ UNCHANGED container
      BY <1>2, UnchangedKept DEF vars, IInv
    <3>2. ASSUME NEW c \in Callers PROVE Knows(call[c])'
      <4>1. PICK k \in Calls : k = call[c] /\ k = call'[c] /\ Knows(k)
        BY <1>2 DEF vars, IInv, TypeOK, CallsInv, Knows
      <4>2. Knows(k)'
        BY <1>2, <3>1, <4>1, KnowsKept DEF IInv
      <4> QED BY <4>1, <4>2
    <3> QED BY <1>2, <3>2 DEF vars, IInv, CallsInv, Knows
  <2> QED BY <2>1, <2>2, <2>3 DEF IInv
<1> QED BY <1>1, <1>2

\* IInv holds throughout every behaviour of deploy.service and the docker provider.
THEOREM Invariance == Spec => []IInv
BY InitInv, NextInv, PTL DEF Spec

-----------------------------------------------------------------------------
(* The theorems.                                                           *)

\* Every row, container and call has its type, whatever the interleaving.
THEOREM TypeCorrect == Spec => []TypeOK
<1>1. IInv => TypeOK
  BY DEF IInv
<1> QED BY <1>1, Invariance, PTL

\* Deploys and RecordInitial draw a version and insert it later, with no lock
\* (service_impl.go): none below the newest is missing, and only releases whose
\* calls overlapped others may share one.
THEOREM VersionsStayContiguous == Spec => []VersionsContiguous
<1>1. IInv => VersionsContiguous
  <2>1. ASSUME VersionsCounted, Unshared PROVE VersionsContiguous
    BY <2>1 DEF VersionsCounted, Unshared, VersionsContiguous
  <2> QED BY <2>1 DEF IInv
<1> QED BY <1>1, Invariance, PTL

\* Once Provision's release is recorded, buildReleaseSnapshot gives every later
\* release all services.
THEOREM ReleasesAreComplete == Spec => [](Recorded => SnapshotsComplete)
<1>1. IInv => (Recorded => SnapshotsComplete)
  BY DEF IInv, SnapshotsFull
<1> QED BY <1>1, Invariance, PTL

\* executeRollout writes a final state on every path that is not cut short,
\* and Cancel writes one too.
THEOREM NoDeploymentStuck == Spec => []NoStuckDeployment
<1>1. IInv => NoStuckDeployment
  BY DEF IInv, Driving, NoStuckDeployment
<1> QED BY <1>1, Invariance, PTL

\* The state and the ServiceProgress a deployment ends with agree.
THEOREM ProgressStaysHonest == Spec => []ProgressHonest
<1>1. IInv => ProgressHonest
  BY DEF IInv
<1> QED BY <1>1, Invariance, PTL

\* A Rollback nobody disturbed that says it succeeded has left every service a
\* container with its release's image, and those it did not find with that image
\* already running in the environment the release names, if it names one.
THEOREM RollbackDoesRestore == Spec => (Recorded => RollbackRestores)
<1> DEFINE Restored(c) ==
      Finish(c) /\ call[c].verb = "Rollback" /\ call[c].alone /\ ~call[c].failed =>
          \A s \in Services :
              LET want == release[call[c].row.release].snap[s] IN
              /\ s \in DOMAIN container
              /\ container[s].image = want.image
              /\ s \notin call[c].spared =>
                    container[s].up /\ want.env \in {NoEnv, container[s].env}
<1> SUFFICES ASSUME Recorded PROVE Spec => RollbackRestores
  OBVIOUS
<1>1. ASSUME IInv, NEW c \in Callers PROVE Restored(c)
  <2> SUFFICES ASSUME Finish(c), call[c].verb = "Rollback", call[c].alone, ~call[c].failed,
                      NEW s \in Services
               PROVE  LET want == release[call[c].row.release].snap[s] IN
                      /\ s \in DOMAIN container
                      /\ container[s].image = want.image
                      /\ s \notin call[c].spared =>
                            container[s].up /\ want.env \in {NoEnv, container[s].env}
    OBVIOUS
  <2>1. /\ Course(call[c]) /\ Restoring(call[c]) /\ Achieved(call[c]) /\ SnapshotsFull
        /\ call[c].at = "finish"
    BY <1>1 DEF IInv, CallsInv, Finish
  <2>2. call[c].todo = {} /\ call[c].left = {}
    BY <2>1 DEF Course
  <2>3. /\ call[c].row.ups = release[call[c].row.release].snap
        /\ DOMAIN call[c].row.ups = Services
    BY <2>1 DEF Restoring, SnapshotsFull, SnapshotsComplete
  <2> QED BY <2>1, <2>2, <2>3 DEF Achieved, Marked, Rollout, Recreating
<1>2. IInv => \A c \in Callers : Restored(c)
  BY <1>1
<1> QED BY <1>2, Invariance, PTL DEF RollbackRestores
=============================================================================
