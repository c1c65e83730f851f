--------------------------- MODULE Bootstrap_proofs ---------------------------
(***************************************************************************)
(* Whatever fails and wherever the process dies, no bootstrap project is   *)
(* without its row, no datacenter runs two projects of one service, and a  *)
(* row that says running tells the truth unless it was cut short: for any  *)
(* datacenters, names, hooks, edits and failures.                          *)
(*                                                                         *)
(* The argument: a Reconcile works from copies of the rows it listed, so   *)
(* the invariant ties the copies it may still use to the rows they were    *)
(* taken from (Tied), and says what is known of the service in hand at     *)
(* each stage (InHandKnown).  Nobody else writes rows, so the tie breaks   *)
(* only where Reconcile itself drops a row, and it marks that copy         *)
(* retired.  The store's check on the name keeps the rows unique.          *)
(***************************************************************************)
EXTENDS Bootstrap, TLAPS, FiniteSetTheorems, WellFoundedInduction

-----------------------------------------------------------------------------
(* The inductive invariant.                                                *)

\* A tick under way has its listing of the declarations.
Walking == tick.at /= "idle" => tick.seen \in [Datacenters -> Wishes]

\* A datacenter under way has its desired set and its rows.
Serving ==
    tick.at \notin {"idle", "walk"} =>
        /\ tick.dc \in Datacenters
        /\ tick.want \in Wishes
        /\ tick.cur \in [Names -> Known \cup {None}]

\* The row a copy was taken from is there, and is that service's.
Has(n) == LET i == tick.cur[n].id
          IN  rows[i] /= None /\ rows[i].dc = tick.dc /\ rows[i].name = n

Retiring == {"retire", "deprovision", "drop"}
Holding == {"deprovision", "drop", "mark", "provision", "save"}

\* Copies not yet retired, and those this pass has still to retire, have rows.
Tied ==
    tick.at \notin {"idle", "walk"} =>
        \A n \in Names :
            /\ tick.at \in Retiring /\ n \in tick.todo => tick.cur[n] /= None
            /\ tick.cur[n] /= None /\ (\/ tick.cur[n].state /= "retired"
                                       \/ tick.at \in Retiring /\ n \in tick.todo)
                    => Has(n)

\* What the service to install next is: its body is wanted.
Wanting ==
    tick.at \in {"install", "mark", "provision", "save"} =>
        \A n \in tick.todo : tick.want[n] /= None

\* The service in hand: a copy not retired, out of the pass's list, and what its
\* row and its project are at this stage.
InHandKnown ==
    tick.at \in Holding =>
        /\ tick.name \in Names
        /\ tick.name \notin tick.todo
        /\ tick.cur[tick.name] /= None
        /\ tick.cur[tick.name].state /= "retired"
        /\ tick.at = "drop" => live[InHand] = "none"
        /\ tick.at \in {"deprovision", "drop"} =>
                rows[InHand].state = "retiring" \/ InHand \in hurt
        /\ tick.at \in {"provision", "save"} => rows[InHand].state = "provisioning"
        /\ tick.at = "save" /\ tick.ok => live[InHand] = "up"

\* A datacenter has one row of a name.
UniqueRows ==
    \A i, j \in Ids :
        rows[i] /= None /\ rows[j] /= None
        /\ rows[i].dc = rows[j].dc /\ rows[i].name = rows[j].name => i = j

Local == Walking /\ Serving /\ Tied /\ Wanting /\ InHandKnown

IInv == TypeOK /\ Local /\ UniqueRows /\ ProjectsHaveRows /\ RunningIsLive

-----------------------------------------------------------------------------
(* Small facts.                                                            *)

\* A failure, or none, keeps the count in its bounds.
LEMMA MishapType ==
    ASSUME TypeOK, NEW bad, Mishap(bad)
    PROVE  mishaps' \in 0..MaxMishaps
BY BootstrapAssumption DEF TypeOK, Mishap

\* Some element of a set of ranked hooks has the lowest rank.
LEMMA LowestRank ==
    ASSUME NEW rank \in Ranks, NEW by \in SUBSET Hooks, by /= {}
    PROVE  \E h \in by : \A g \in by : rank[h] <= rank[g]
<1>1. rank \in [Hooks -> Nat]
  BY BootstrapAssumption, FS_CardinalityType DEF Ranks
<1> DEFINE T == {rank[h] : h \in by}
<1>2. T \subseteq Nat /\ T /= {}
  BY <1>1
<1>3. PICK x \in T : \A y \in T : ~ (<<y, x>> \in OpToRel(<, Nat))
  <2> HIDE DEF T
  <2> QED BY <1>2, WFMin, NatLessThanWellFounded
<1>4. x \in Nat
  BY <1>2
<1>5. \A y \in T : ~ (y < x)
  BY <1>2, <1>3, <1>4 DEF OpToRel
<1>6. PICK h \in by : rank[h] = x
  OBVIOUS
<1>7. ASSUME NEW g \in by PROVE rank[h] <= rank[g]
  <2>1. rank[g] \in T /\ rank[g] \in Nat
    BY <1>1
  <2> QED BY <2>1, <1>4, <1>5, <1>6
<1> QED BY <1>7

\* The desired set gives every name a body or none.
LEMMA DesiredType ==
    ASSUME NEW decl \in Wishes, NEW d \in Datacenters,
           NEW failed \in SUBSET Hooks, NEW rank \in Ranks
    PROVE  buildDesired(decl, d, failed, rank) \in Wishes
<1> DEFINE By(n) == {h \in Hooks \ failed : Contribution[h][d][n] /= None}
           First(n) == CHOOSE h \in By(n) : \A g \in By(n) : rank[h] <= rank[g]
<1>1. ASSUME NEW n \in Names, By(n) /= {}
      PROVE  Contribution[First(n)][d][n] \in Bodies \cup {None}
  <2>1. \E h \in By(n) : \A g \in By(n) : rank[h] <= rank[g]
    BY <1>1, LowestRank
  <2>2. First(n) \in Hooks
    BY <2>1
  <2> QED BY <2>2, BootstrapAssumption
<1> QED BY <1>1 DEF buildDesired, Wishes

\* The rows a listing found: each copy is of a row of that datacenter and name.
LEMMA CurrentType ==
    ASSUME TypeOK, NEW d \in Datacenters
    PROVE  /\ Current(d) \in [Names -> Known \cup {None}]
           /\ \A n \in Names : Current(d)[n] /= None =>
                /\ rows[Current(d)[n].id] /= None
                /\ rows[Current(d)[n].id].dc = d
                /\ rows[Current(d)[n].id].name = n
<1> DEFINE Copy(n) == LET i == CHOOSE i \in RowsOf(d, n) : TRUE
                      IN  [id |-> i, body |-> rows[i].body, state |-> rows[i].state]
<1>1. ASSUME NEW n \in Names, RowsOf(d, n) /= {}
      PROVE  /\ Copy(n) \in Known
             /\ rows[Copy(n).id] /= None
             /\ rows[Copy(n).id].dc = d
             /\ rows[Copy(n).id].name = n
  <2>1. PICK i \in RowsOf(d, n) : i = CHOOSE j \in RowsOf(d, n) : TRUE
    BY <1>1
  <2>2. i \in Ids /\ rows[i] \in Row /\ rows[i].dc = d /\ rows[i].name = n /\ rows[i] /= None
    BY <2>1 DEF RowsOf, TypeOK
  <2>3. Copy(n) = [id |-> i, body |-> rows[i].body, state |-> rows[i].state]
    BY <2>1
  <2> QED BY <2>2, <2>3 DEF Known, Row
<1>2. \A n \in Names : Current(d)[n] = IF RowsOf(d, n) = {} THEN None ELSE Copy(n)
  BY DEF Current
<1>3. Current(d) = [n \in Names |-> Current(d)[n]]
  BY DEF Current
<1> HIDE DEF Copy
<1>4. \A n \in Names : Current(d)[n] \in Known \cup {None}
  BY <1>1, <1>2
<1> QED BY <1>1, <1>2, <1>3, <1>4

\* A state written to a row, or lost, changes nothing else of the table.
LEMMA StateWrite ==
    ASSUME TypeOK, UniqueRows, NEW i \in Ids, rows[i] /= None, NEW s \in States,
           rows' = rows \/ rows' = [rows EXCEPT ![i].state = s]
    PROVE  /\ rows' \in [Ids -> Row \cup {None}]
           /\ \A j \in Ids : /\ rows'[j] = None <=> rows[j] = None
                             /\ rows[j] /= None => /\ rows'[j].dc = rows[j].dc
                                                   /\ rows'[j].name = rows[j].name
           /\ \A j \in Ids \ {i} : rows'[j] = rows[j]
           /\ UniqueRows'
<1>1. rows[i] \in Row
  BY DEF TypeOK
<1>2. CASE rows' = [rows EXCEPT ![i].state = s]
  <2>1. PICK r : r = [rows[i] EXCEPT !.state = s]
    OBVIOUS
  <2>2. r \in Row /\ r.dc = rows[i].dc /\ r.name = rows[i].name
    BY <1>1, <2>1 DEF Row
  <2>3. r /= None
    BY <2>2, NoneAssumption
  <2>4. rows' = [rows EXCEPT ![i] = r]
    BY <1>2, <2>1
  <2>5. /\ rows' \in [Ids -> Row \cup {None}]
        /\ rows'[i] = r
        /\ \A j \in Ids \ {i} : rows'[j] = rows[j]
    BY <2>2, <2>4 DEF TypeOK
  <2>6. \A j \in Ids : /\ rows'[j] = None <=> rows[j] = None
                       /\ rows[j] /= None => /\ rows'[j].dc = rows[j].dc
                                             /\ rows'[j].name = rows[j].name
    BY <2>2, <2>3, <2>5
  <2> QED BY <2>5, <2>6 DEF UniqueRows
<1>3. CASE rows' = rows
  BY <1>3 DEF TypeOK, UniqueRows
<1> QED BY <1>2, <1>3

\* What the invariant knows of the service in hand.
LEMMA InHandRow ==
    ASSUME IInv, tick.at \in Holding
    PROVE  /\ tick.name \in Names
           /\ tick.cur \in [Names -> Known \cup {None}]
           /\ tick.cur[tick.name] \in Known
           /\ InHand \in Ids
           /\ rows[InHand] \in Row
           /\ rows[InHand] /= None
           /\ rows[InHand].dc = tick.dc
           /\ rows[InHand].name = tick.name
<1> USE DEF IInv, Local
<1>1. tick.at \notin {"idle", "walk"}
  BY DEF Holding
<1>2. /\ tick.name \in Names
      /\ tick.cur[tick.name] \in Known
      /\ tick.cur[tick.name].state /= "retired"
  BY <1>1 DEF InHandKnown, Serving
<1>3. Has(tick.name)
  BY <1>1, <1>2 DEF Tied, InHandKnown
<1>4. InHand \in Ids
  BY <1>2 DEF InHand, Known
<1> QED BY <1>1, <1>2, <1>3, <1>4 DEF Has, InHand, TypeOK, Serving

-----------------------------------------------------------------------------
(* Between datacenters: the tick has no service in hand and no copies.      *)

\* The stream of ticks starts in the invariant.
LEMMA InitInv == ASSUME Init PROVE IInv
<1> USE BootstrapAssumption DEF Init
<1>1. tick \in Tick /\ tick.at = "idle"
  BY DEF Tick, Idle, Steps
<1>2. TypeOK
  BY <1>1 DEF TypeOK
<1>3. Local
  BY <1>1 DEF Local, Walking, Serving, Tied, Wanting, InHandKnown, Holding
<1> QED BY <1>2, <1>3 DEF IInv, UniqueRows, ProjectsHaveRows, RunningIsLive

\* Where the tick is between datacenters, nothing local needs to be known.
LEMMA LocalBetween ==
    ASSUME tick'.at \in {"idle", "walk"},
           tick'.at = "walk" => tick'.seen \in [Datacenters -> Wishes]
    PROVE  Local'
BY DEF Local, Walking, Serving, Tied, Wanting, InHandKnown, Holding

\* Steps to or between datacenters touch no row.
LEMMA BetweenSteps ==
    ASSUME IInv,
           \/ Run \/ RunEnds \/ InstallEnds \/ Crash
           \/ \E d \in Datacenters : ReconcileFails(d)
    PROVE  IInv'
<1> USE DEF IInv
<1>1. UNCHANGED <<convergent, declared, rows, live, edits>>
  BY DEF Run, RunEnds, InstallEnds, Crash, ReconcileFails
<1>2. mishaps' \in 0..MaxMishaps
  BY MishapType DEF Run, RunEnds, InstallEnds, Crash, ReconcileFails, TypeOK
<1>3. /\ tick' \in Tick
      /\ tick'.at \in {"idle", "walk"}
      /\ tick'.at = "walk" => tick'.seen \in [Datacenters -> Wishes]
  <2>1. CASE Run
    BY <2>1 DEF Run, Tick, Idle, Steps, TypeOK, Listed
  <2>2. CASE RunEnds \/ Crash
    <3>1. tick' = Idle
      BY <2>2 DEF RunEnds, Crash
    <3> QED BY <3>1 DEF Tick, Idle, Steps
  <2>3. CASE InstallEnds
    BY <2>3 DEF InstallEnds, Tick, Idle, Steps, TypeOK, Local, Walking
  <2>4. CASE \E d \in Datacenters : ReconcileFails(d)
    BY <2>4 DEF ReconcileFails, Tick, TypeOK, Local, Walking
  <2> QED BY <2>1, <2>2, <2>3, <2>4
<1>4. hurt' \subseteq Ids /\ hurt \subseteq hurt'
  <2>1. CASE Crash
    <3>1. tick.at \in Holding => InHand \in Ids
      BY InHandRow
    <3> QED BY <2>1, <3>1 DEF Crash, TypeOK, Holding
  <2>2. CASE ~ Crash
    BY <2>2 DEF Run, RunEnds, InstallEnds, ReconcileFails, TypeOK
  <2> QED BY <2>1, <2>2
<1>5. Local'
  BY <1>3, LocalBetween
<1>6. TypeOK'
  BY <1>1, <1>2, <1>3, <1>4 DEF TypeOK
<1> QED
  BY <1>1, <1>4, <1>5, <1>6 DEF UniqueRows, ProjectsHaveRows, RunningIsLive

\* An operator's edit reaches the reconciler only with the next listing.
LEMMA DeclareStep ==
    ASSUME IInv, NEW d \in Datacenters, NEW n \in Names, Declare(d, n)
    PROVE  IInv'
<1> USE DEF IInv
<1>1. UNCHANGED <<convergent, rows, live, tick, hurt, mishaps>>
  BY DEF Declare
<1>2. edits' \in 0..MaxEdits
  BY BootstrapAssumption DEF Declare, TypeOK
<1>3. declared' \in [Datacenters -> Wishes]
  BY DEF Declare, TypeOK, Wishes
<1>4. TypeOK'
  BY <1>1, <1>2, <1>3 DEF TypeOK
<1>5. Local'
  BY <1>1
  DEF Local, Walking, Serving, Tied, Wanting, InHandKnown, Holding, Retiring, Has, InHand
<1> QED BY <1>1, <1>4, <1>5 DEF UniqueRows, ProjectsHaveRows, RunningIsLive

\* A datacenter's rows are listed: every copy is tied to its row.
LEMMA ReconcileStep ==
    ASSUME IInv, NEW d \in Datacenters, Reconcile(d)
    PROVE  IInv'
<1> USE DEF IInv
<1>1. UNCHANGED <<convergent, declared, rows, live, hurt, edits>>
  BY DEF Reconcile
<1>2. PICK failed \in SUBSET Hooks, rank \in Ranks :
        LET want == buildDesired(tick.seen[d], d, failed, rank)
            cur == Current(d)
        IN  /\ Mishap(failed /= {})
            /\ tick' = [tick EXCEPT
                  !.at = "retire", !.left = @ \ {d}, !.dc = d,
                  !.want = want, !.cur = cur,
                  !.todo = {n \in Names : cur[n] /= None
                                          /\ specChanged(cur[n], want[n])}]
  BY DEF Reconcile
<1>3. tick \in Tick /\ tick.at = "walk" /\ tick.seen \in [Datacenters -> Wishes]
  BY DEF Reconcile, TypeOK, Local, Walking
<1>4. buildDesired(tick.seen[d], d, failed, rank) \in Wishes
  BY <1>3, DesiredType
<1>5. PICK want \in Wishes : want = buildDesired(tick.seen[d], d, failed, rank)
  BY <1>4
<1>6. PICK cur \in [Names -> Known \cup {None}] :
        /\ cur = Current(d)
        /\ \A n \in Names : cur[n] /= None =>
              /\ rows[cur[n].id] /= None
              /\ rows[cur[n].id].dc = d
              /\ rows[cur[n].id].name = n
  BY CurrentType
<1>7. PICK todo \in SUBSET Names :
        /\ \A n \in todo : cur[n] /= None
        /\ tick' = [tick EXCEPT !.at = "retire", !.left = @ \ {d}, !.dc = d,
                                !.want = want, !.cur = cur, !.todo = todo]
  BY <1>2, <1>5, <1>6
<1>8. /\ tick' \in Tick
      /\ tick'.at = "retire" /\ tick'.seen = tick.seen /\ tick'.dc = d
      /\ tick'.want = want /\ tick'.cur = cur /\ tick'.todo = todo
  BY <1>3, <1>7 DEF Tick, Steps
<1>9. mishaps' \in 0..MaxMishaps
  BY <1>2, MishapType
<1>10. TypeOK'
  BY <1>1, <1>8, <1>9 DEF TypeOK
<1>11. Walking' /\ Serving'
  BY <1>3, <1>8 DEF Walking, Serving
<1>12. Tied'
  BY <1>1, <1>6, <1>7, <1>8 DEF Tied, Has, Retiring
<1>13. Wanting' /\ InHandKnown'
  BY <1>8 DEF Wanting, InHandKnown, Holding
<1> QED
  BY <1>1, <1>10, <1>11, <1>12, <1>13
  DEF Local, UniqueRows, ProjectsHaveRows, RunningIsLive

-----------------------------------------------------------------------------
(* Pass 1: rows that are no longer wanted are retired.                      *)

\* The row is marked retiring, or the write is lost and the row counts as hurt.
LEMMA RetireStep ==
    ASSUME IInv, NEW n \in Names, NEW lost \in BOOLEAN, Retire(n, lost)
    PROVE  IInv'
<1> USE DEF IInv
<1>1. UNCHANGED <<convergent, declared, live, edits>>
  BY DEF Retire
<1>2. tick \in Tick /\ tick.at = "retire" /\ n \in tick.todo
  BY DEF Retire, TypeOK
<1>3. /\ tick.dc \in Datacenters /\ tick.want \in Wishes
      /\ tick.cur \in [Names -> Known \cup {None}]
      /\ tick.seen \in [Datacenters -> Wishes]
  BY <1>2 DEF Local, Serving, Walking
<1>4. tick.cur[n] \in Known /\ Has(n)
  BY <1>2, <1>3 DEF Local, Tied, Retiring
<1>5. PICK i \in Ids : i = tick.cur[n].id
  BY <1>4 DEF Known
<1>6. rows[i] /= None /\ rows[i].dc = tick.dc /\ rows[i].name = n
  BY <1>4, <1>5 DEF Has
<1>7. /\ rows' = IF lost THEN rows ELSE [rows EXCEPT ![i].state = "retiring"]
      /\ hurt' = IF lost THEN hurt \cup {i} ELSE hurt
  BY <1>5 DEF Retire
<1>8. PICK k \in Known : k = [tick.cur[n] EXCEPT !.state = "retiring"]
  BY <1>4 DEF Known, States
<1>9. k.id = i /\ k.state = "retiring" /\ k /= None
  BY <1>4, <1>5, <1>8, NoneAssumption DEF Known
<1>10. PICK cur \in [Names -> Known \cup {None}] : cur = [tick.cur EXCEPT ![n] = k]
  BY <1>3
<1>11. cur[n] = k /\ \A m \in Names \ {n} : cur[m] = tick.cur[m]
  BY <1>3, <1>10
<1>12. tick' = [tick EXCEPT !.at = "deprovision", !.name = n, !.todo = @ \ {n},
                            !.cur = cur]
  BY <1>2, <1>8, <1>10 DEF Retire, Tick
<1>13. /\ tick' \in Tick
       /\ tick'.at = "deprovision" /\ tick'.name = n /\ tick'.todo = tick.todo \ {n}
       /\ tick'.cur = cur /\ tick'.dc = tick.dc /\ tick'.want = tick.want
       /\ tick'.seen = tick.seen
  BY <1>2, <1>12 DEF Tick, Steps
<1>14. /\ rows' \in [Ids -> Row \cup {None}]
       /\ \A j \in Ids : /\ rows'[j] = None <=> rows[j] = None
                         /\ rows[j] /= None => /\ rows'[j].dc = rows[j].dc
                                               /\ rows'[j].name = rows[j].name
       /\ \A j \in Ids \ {i} : rows'[j] = rows[j]
       /\ UniqueRows'
  BY <1>6, <1>7, StateWrite DEF States
<1>15. rows'[i].state = "retiring" \/ i \in hurt'
  BY <1>6, <1>7 DEF TypeOK, Row
<1>16. hurt' \subseteq Ids /\ hurt \subseteq hurt'
  BY <1>7 DEF TypeOK
<1>17. TypeOK'
  BY <1>1, <1>13, <1>14, <1>16, MishapType DEF TypeOK, Retire
<1>18. Walking' /\ Serving' /\ Wanting'
  BY <1>3, <1>10, <1>13 DEF Walking, Serving, Wanting
<1>19. Tied'
  <2>1. ASSUME NEW m \in Names,
               tick'.cur[m] /= None,
               tick'.cur[m].state /= "retired" \/ m \in tick'.todo
        PROVE  Has(m)'
    <3>1. CASE m = n
      BY <3>1, <1>6, <1>9, <1>11, <1>13, <1>14 DEF Has
    <3>2. CASE m /= n
      <4>1. Has(m) /\ tick.cur[m] \in Known
        BY <3>2, <2>1, <1>2, <1>3, <1>11, <1>13 DEF Local, Tied, Retiring
      <4>2. tick.cur[m].id \in Ids
        BY <4>1 DEF Known
      <4> QED BY <3>2, <4>1, <4>2, <1>11, <1>13, <1>14 DEF Has
    <3> QED BY <3>1, <3>2
  <2>2. \A m \in tick'.todo : tick'.cur[m] /= None
    BY <1>2, <1>11, <1>13 DEF Local, Tied, Retiring, Tick
  <2> QED BY <2>1, <2>2, <1>13 DEF Tied, Retiring
<1>20. InHandKnown'
  BY <1>9, <1>11, <1>13, <1>15 DEF InHandKnown, InHand
<1>21. ProjectsHaveRows'
  BY <1>1, <1>14 DEF ProjectsHaveRows
<1>22. RunningIsLive'
  BY <1>1, <1>14, <1>15, <1>16 DEF RunningIsLive
<1> QED BY <1>14, <1>17, <1>18, <1>19, <1>20, <1>21, <1>22 DEF Local

\* The project goes before its row does; a failure leaves the row retiring.
LEMMA DeprovisionStep ==
    ASSUME IInv, NEW bad \in BOOLEAN, NEW lost \in BOOLEAN, Deprovision(bad, lost)
    PROVE  IInv'
<1> USE DEF IInv
<1>1. UNCHANGED <<convergent, declared, edits>>
  BY DEF Deprovision
<1>2. tick \in Tick /\ tick.at = "deprovision" /\ tick.at \in Holding
  BY DEF Deprovision, TypeOK, Holding
<1>3. /\ tick.name \in Names /\ InHand \in Ids
      /\ rows[InHand] /= None
      /\ tick.name \notin tick.todo
      /\ tick.cur[tick.name] /= None /\ tick.cur[tick.name].state /= "retired"
      /\ rows[InHand].state = "retiring" \/ InHand \in hurt
      /\ tick.seen \in [Datacenters -> Wishes]
      /\ tick.cur \in [Names -> Known \cup {None}] /\ tick.todo \subseteq Names
  BY <1>2, InHandRow DEF Local, InHandKnown, Walking, Serving, Tick
<1>4. \/ /\ hurt' = hurt \cup {InHand}
         /\ live' = live
         /\ tick' = [tick EXCEPT !.at = "retire", !.name = None, !.ok = FALSE]
      \/ /\ hurt' = hurt
         /\ live' = [live EXCEPT ![InHand] = "none"]
         /\ tick' = [tick EXCEPT !.at = "drop"]
  <2>1. [tick EXCEPT !.at = "retire", !.name = None, !.ok = FALSE, !.cur = tick.cur]
          = [tick EXCEPT !.at = "retire", !.name = None, !.ok = FALSE]
    BY <1>2 DEF Tick
  <2> QED BY <2>1 DEF Deprovision, NextName
<1>13. PICK i \in Ids : i = InHand
  BY <1>3
<1>14. \/ rows' = rows
       \/ rows' = [rows EXCEPT ![i].state = "retiring"] /\ i \in hurt'
  <2>1. CASE bad
    <3>1. Save("retiring", lost) /\ i \in hurt'
      BY <2>1, <1>13 DEF Deprovision
    <3> QED BY <3>1, <1>13 DEF Save
  <2>2. CASE ~ bad
    <3>1. UNCHANGED <<rows, hurt>>
      BY <2>2 DEF Deprovision
    <3> QED BY <3>1
  <2> QED BY <2>1, <2>2
<1>15. /\ rows' \in [Ids -> Row \cup {None}]
       /\ \A j \in Ids : /\ rows'[j] = None <=> rows[j] = None
                         /\ rows[j] /= None => /\ rows'[j].dc = rows[j].dc
                                               /\ rows'[j].name = rows[j].name
       /\ \A j \in Ids \ {i} : rows'[j] = rows[j]
       /\ UniqueRows'
       /\ rows' = rows \/ i \in hurt'
  BY <1>3, <1>13, <1>14, StateWrite DEF States
<1>5. /\ tick' \in Tick
      /\ tick'.dc = tick.dc /\ tick'.want = tick.want /\ tick'.cur = tick.cur
      /\ tick'.todo = tick.todo /\ tick'.seen = tick.seen
      /\ \/ tick'.at = "retire"
         \/ /\ tick'.at = "drop" /\ tick'.name = tick.name
            /\ live' = [live EXCEPT ![InHand] = "none"]
  BY <1>2, <1>4 DEF Tick, Steps
<1>6. /\ hurt' \subseteq Ids /\ hurt \subseteq hurt'
      /\ live' \in [Ids -> {"none", "partial", "up"}]
      /\ \A j \in Ids : live'[j] = live[j] \/ (j = InHand /\ live'[j] = "none")
  BY <1>3, <1>4 DEF TypeOK
<1>7. TypeOK'
  BY <1>1, <1>5, <1>6, <1>15, MishapType DEF TypeOK, Deprovision
<1>8. Walking' /\ Serving' /\ Wanting'
  BY <1>2, <1>3, <1>5 DEF Local, Walking, Serving, Wanting
<1>9. Tied'
  <2>1. ASSUME NEW m \in Names,
               tick'.cur[m] /= None,
               tick'.cur[m].state /= "retired" \/ m \in tick'.todo
        PROVE  Has(m)'
    <3>1. Has(m) /\ tick.cur[m] \in Known
      BY <2>1, <1>2, <1>3, <1>5 DEF Local, Tied, Retiring
    <3>2. tick.cur[m].id \in Ids
      BY <3>1 DEF Known
    <3> QED BY <3>1, <3>2, <1>5, <1>15 DEF Has
  <2>2. \A m \in tick'.todo : tick'.cur[m] /= None
    BY <1>2, <1>3, <1>5 DEF Local, Tied, Retiring
  <2>3. tick'.todo \subseteq Names
    BY <1>3, <1>5
  <2> QED BY <2>1, <2>2, <2>3 DEF Tied
<1>10. InHandKnown'
  <2>1. CASE tick'.at = "retire"
    BY <2>1 DEF InHandKnown, Holding
  <2>2. CASE tick'.at = "drop"
    <3>1. InHand' = InHand /\ tick'.name = tick.name /\ live'[InHand] = "none"
      BY <2>2, <1>3, <1>5 DEF InHand, TypeOK
    <3>2. rows[InHand].state = "retiring" \/ InHand \in hurt
      BY <1>3
    <3>3. rows' = rows
      BY <2>2, <1>2 DEF Deprovision, NextName, Tick
    <3> QED BY <2>2, <3>1, <3>2, <3>3, <1>3, <1>5, <1>6 DEF InHandKnown
  <2> QED BY <2>1, <2>2, <1>5
<1>11. UniqueRows' /\ ProjectsHaveRows'
  BY <1>6, <1>15 DEF ProjectsHaveRows
<1>12. RunningIsLive'
  BY <1>3, <1>6, <1>13, <1>15 DEF RunningIsLive
<1> QED BY <1>7, <1>8, <1>9, <1>10, <1>11, <1>12 DEF Local

\* The row goes, or what is left of it counts as hurt; either way the copy says
\* retired, so that nothing relies on the row any more.
LEMMA DropStep ==
    ASSUME IInv, NEW lost \in SUBSET {"retired", "delete"}, Drop(lost)
    PROVE  IInv'
<1> USE DEF IInv
<1>1. UNCHANGED <<convergent, declared, live, edits>>
  BY DEF Drop
<1>2. tick \in Tick /\ tick.at = "drop" /\ tick.at \in Holding
  BY DEF Drop, TypeOK, Holding
<1>3. /\ tick.name \in Names /\ InHand \in Ids
      /\ tick.cur \in [Names -> Known \cup {None}]
      /\ tick.cur[tick.name] \in Known
      /\ tick.name \notin tick.todo
      /\ rows[InHand] /= None /\ rows[InHand].dc = tick.dc
      /\ rows[InHand].name = tick.name
      /\ live[InHand] = "none"
      /\ tick.dc \in Datacenters /\ tick.want \in Wishes
      /\ tick.seen \in [Datacenters -> Wishes]
  BY <1>2, InHandRow DEF Local, InHandKnown, Walking, Serving
<1>4. PICK i \in Ids : i = InHand
  BY <1>3
<1>5. PICK k \in Known : k = [tick.cur[tick.name] EXCEPT !.state = "retired"]
  BY <1>3 DEF Known, States
<1>6. PICK cur \in [Names -> Known \cup {None}] : cur = [tick.cur EXCEPT ![tick.name] = k]
  BY <1>3
<1>7. /\ cur[tick.name].state = "retired"
      /\ \A m \in Names \ {tick.name} : cur[m] = tick.cur[m]
  BY <1>3, <1>5, <1>6 DEF Known
<1>8. tick' = [tick EXCEPT !.at = "retire", !.name = None, !.ok = FALSE, !.cur = cur]
  BY <1>5, <1>6 DEF Drop, NextName
<1>9. /\ tick' \in Tick
      /\ tick'.at = "retire" /\ tick'.todo = tick.todo
      /\ tick'.cur = cur /\ tick'.dc = tick.dc /\ tick'.want = tick.want
      /\ tick'.seen = tick.seen
  BY <1>2, <1>8 DEF Tick, Steps
<1>10. \/ rows' = [rows EXCEPT ![i] = None] /\ hurt' = hurt \ {i}
       \/ /\ rows' = rows \/ rows' = [rows EXCEPT ![i].state = "retired"]
          /\ hurt' = hurt \cup {i}
  BY <1>4 DEF Drop
<1>11. /\ rows' \in [Ids -> Row \cup {None}]
       /\ \A j \in Ids \ {i} : rows'[j] = rows[j]
       /\ UniqueRows'
  <2>1. CASE rows' = [rows EXCEPT ![i] = None]
    <3>1. \A j \in Ids : rows'[j] = IF j = i THEN None ELSE rows[j]
      BY <2>1 DEF TypeOK
    <3> QED BY <2>1, <3>1 DEF TypeOK, UniqueRows
  <2>2. CASE rows' = rows \/ rows' = [rows EXCEPT ![i].state = "retired"]
    BY <2>2, <1>3, <1>4, StateWrite DEF States
  <2> QED BY <2>1, <2>2, <1>10
<1>12. /\ hurt' \subseteq Ids
       /\ hurt \ {i} \subseteq hurt'
       /\ rows'[i] = None \/ i \in hurt'
  BY <1>10 DEF TypeOK
<1>13. TypeOK'
  BY <1>1, <1>9, <1>11, <1>12, MishapType DEF TypeOK, Drop
<1>14. Walking' /\ Serving' /\ Wanting' /\ InHandKnown'
  BY <1>3, <1>6, <1>9 DEF Walking, Serving, Wanting, InHandKnown, Holding
<1>15. Tied'
  <2>1. ASSUME NEW m \in Names, tick'.cur[m] /= None,
               tick'.cur[m].state /= "retired" \/ m \in tick'.todo
        PROVE  Has(m)'
    <3>1. m /= tick.name
      BY <2>1, <1>3, <1>7, <1>9
    <3>2. Has(m) /\ tick.cur[m] \in Known
      BY <2>1, <3>1, <1>2, <1>3, <1>7, <1>9 DEF Local, Tied, Retiring
    <3>3. tick.cur[m].id \in Ids /\ tick.cur[m].id /= i
      BY <3>1, <3>2, <1>3, <1>4 DEF Known, Has
    <3> QED BY <3>1, <3>2, <3>3, <1>7, <1>9, <1>11 DEF Has
  <2>2. ASSUME NEW m \in tick'.todo PROVE tick'.cur[m] /= None
    <3>1. m \in Names /\ m /= tick.name
      BY <2>2, <1>2, <1>3, <1>9 DEF Tick
    <3> QED BY <2>2, <3>1, <1>2, <1>7, <1>9 DEF Local, Tied, Retiring
  <2> QED BY <2>1, <2>2, <1>9 DEF Tied, Retiring
<1>16. ProjectsHaveRows'
  BY <1>1, <1>3, <1>4, <1>11 DEF ProjectsHaveRows
<1>17. RunningIsLive'
  BY <1>1, <1>11, <1>12 DEF RunningIsLive
<1> QED BY <1>11, <1>13, <1>14, <1>15, <1>16, <1>17 DEF Local

-----------------------------------------------------------------------------
(* Pass 2: what is wanted and not there is installed.                       *)

\* From one pass to the next, and to a row to retry: no table changes.
LEMMA PassSteps ==
    ASSUME IInv, InstallBegins \/ \E n \in Names : Retry(n)
    PROVE  IInv'
<1> USE DEF IInv
<1>1. UNCHANGED <<convergent, declared, rows, live, hurt, edits, mishaps>>
  BY DEF InstallBegins, Retry
<1>2. tick \in Tick /\ tick.at \in {"retire", "install"}
  BY DEF InstallBegins, Retry, TypeOK
<1>3. /\ tick.dc \in Datacenters /\ tick.want \in Wishes
      /\ tick.cur \in [Names -> Known \cup {None}]
      /\ tick.seen \in [Datacenters -> Wishes]
  BY <1>2 DEF Local, Serving, Walking
<1>4. /\ tick' \in Tick
      /\ tick'.dc = tick.dc /\ tick'.want = tick.want /\ tick'.cur = tick.cur
      /\ tick'.seen = tick.seen
      /\ tick'.at \in {"install", "mark"}
      /\ \A n \in tick'.todo : tick.want[n] /= None
      /\ tick'.at = "mark" => /\ tick'.name \in Names /\ Kept(tick'.name)
                              /\ tick'.name \notin tick'.todo
  <2>1. CASE InstallBegins
    BY <2>1, <1>2 DEF InstallBegins, Tick, Steps
  <2>2. CASE \E n \in Names : Retry(n)
    <3>1. PICK n \in Names : Retry(n)
      BY <2>2
    <3>2. \A m \in tick.todo : tick.want[m] /= None
      BY <3>1 DEF Retry, Local, Wanting
    <3> QED BY <3>1, <3>2, <1>2 DEF Retry, Tick, Steps
  <2> QED BY <2>1, <2>2
<1>5. TypeOK'
  BY <1>1, <1>4 DEF TypeOK
<1>6. Walking' /\ Serving' /\ Wanting'
  BY <1>3, <1>4 DEF Walking, Serving, Wanting
<1>7. Tied'
  BY <1>1, <1>2, <1>4 DEF Local, Tied, Retiring, Has
<1>8. InHandKnown'
  BY <1>1, <1>4 DEF InHandKnown, Holding, Kept
<1> QED
  BY <1>1, <1>5, <1>6, <1>7, <1>8 DEF Local, UniqueRows, ProjectsHaveRows, RunningIsLive

\* A row is inserted only where the store has none of that name.
LEMMA InsertStep ==
    ASSUME IInv, NEW n \in Names, NEW bad \in BOOLEAN, Insert(n, bad)
    PROVE  IInv'
<1> USE DEF IInv
<1>1. UNCHANGED <<convergent, declared, live, edits>>
  BY DEF Insert
<1>2. tick \in Tick /\ tick.at = "install" /\ n \in tick.todo
  BY DEF Insert, TypeOK
<1>3. /\ tick.dc \in Datacenters /\ tick.want \in Wishes
      /\ tick.cur \in [Names -> Known \cup {None}]
      /\ tick.seen \in [Datacenters -> Wishes]
      /\ tick.want[n] \in Bodies
  BY <1>2 DEF Local, Serving, Walking, Wanting, Wishes
<1>4. mishaps' \in 0..MaxMishaps
  BY MishapType DEF Insert
<1>5. CASE bad \/ Refused(n)
  <2>1. tick' = [tick EXCEPT !.todo = @ \ {n}] /\ UNCHANGED <<rows, hurt>>
    BY <1>5 DEF Insert
  <2>2. /\ tick' \in Tick /\ tick'.at = "install"
        /\ tick'.dc = tick.dc /\ tick'.want = tick.want /\ tick'.cur = tick.cur
        /\ tick'.seen = tick.seen /\ tick'.todo = tick.todo \ {n}
    BY <2>1, <1>2 DEF Tick
  <2>3. TypeOK'
    BY <2>1, <2>2, <1>1, <1>4 DEF TypeOK
  <2>4. Walking' /\ Serving' /\ Wanting' /\ InHandKnown'
    BY <2>2, <1>2, <1>3 DEF Local, Walking, Serving, Wanting, InHandKnown, Holding
  <2>5. Tied'
    BY <2>1, <2>2, <1>2 DEF Local, Tied, Retiring, Has
  <2> QED
    BY <2>1, <2>3, <2>4, <2>5, <1>1
    DEF Local, UniqueRows, ProjectsHaveRows, RunningIsLive
<1>6. CASE ~ (bad \/ Refused(n))
  <2>1. PICK i \in Free :
          /\ rows' = [rows EXCEPT ![i] = [dc |-> tick.dc, name |-> n,
                                body |-> tick.want[n], state |-> "pending"]]
          /\ hurt' = hurt \ {i}
          /\ tick' = [tick EXCEPT !.at = "mark", !.name = n, !.todo = @ \ {n},
                !.cur[n] = [id |-> i, body |-> tick.want[n], state |-> "pending"]]
    BY <1>6 DEF Insert
  <2>2. i \in Ids /\ rows[i] = None /\ live[i] = "none"
    BY DEF Free
  <2>3. PICK row \in Row : row = [dc |-> tick.dc, name |-> n,
                                  body |-> tick.want[n], state |-> "pending"]
    BY <1>3 DEF Row, States
  <2>4. PICK k \in Known : k = [id |-> i, body |-> tick.want[n], state |-> "pending"]
    BY <1>3, <2>2 DEF Known, States
  <2>5. row /= None /\ k /= None
    BY NoneAssumption
  <2>6. PICK cur \in [Names -> Known \cup {None}] : cur = [tick.cur EXCEPT ![n] = k]
    BY <1>3
  <2>7. tick' = [tick EXCEPT !.at = "mark", !.name = n, !.todo = @ \ {n}, !.cur = cur]
    BY <2>1, <2>4, <2>6, <1>2 DEF Tick
  <2>8. /\ tick' \in Tick /\ tick'.at = "mark" /\ tick'.name = n
        /\ tick'.dc = tick.dc /\ tick'.want = tick.want /\ tick'.cur = cur
        /\ tick'.seen = tick.seen /\ tick'.todo = tick.todo \ {n}
    BY <2>7, <1>2 DEF Tick, Steps
  <2>9. cur[n] = k /\ k.id = i /\ \A m \in Names \ {n} : cur[m] = tick.cur[m]
    BY <2>4, <2>6, <1>3
  <2>10. /\ rows' \in [Ids -> Row \cup {None}]
         /\ rows'[i] = row
         /\ \A j \in Ids \ {i} : rows'[j] = rows[j]
    BY <2>1, <2>2, <2>3 DEF TypeOK
  <2>11. hurt' \subseteq Ids /\ \A j \in Ids \ {i} : j \in hurt' <=> j \in hurt
    BY <2>1 DEF TypeOK
  <2>12. TypeOK'
    BY <2>8, <2>10, <2>11, <1>1, <1>4 DEF TypeOK
  <2>13. Walking' /\ Serving' /\ Wanting'
    BY <2>8, <1>2, <1>3 DEF Local, Walking, Serving, Wanting
  <2>14. Tied'
    <3>1. ASSUME NEW m \in Names, tick'.cur[m] /= None, tick'.cur[m].state /= "retired"
          PROVE  Has(m)'
      <4>1. CASE m = n
        BY <4>1, <2>3, <2>5, <2>8, <2>9, <2>10 DEF Has
      <4>2. CASE m /= n
        <5>1. Has(m) /\ tick.cur[m] \in Known
          BY <4>2, <3>1, <1>2, <1>3, <2>8, <2>9 DEF Local, Tied
        <5>2. tick.cur[m].id \in Ids /\ tick.cur[m].id /= i
          BY <5>1, <2>2 DEF Known, Has
        <5> QED BY <4>2, <5>1, <5>2, <2>8, <2>9, <2>10 DEF Has
      <4> QED BY <4>1, <4>2
    <3> QED BY <3>1, <2>8 DEF Tied, Retiring
  <2>15. InHandKnown'
    BY <2>4, <2>5, <2>8, <2>9 DEF InHandKnown
  <2>16. UniqueRows'
    <3>1. \A j \in Ids \ {i} : rows[j] /= None => ~ (rows[j].dc = row.dc /\ rows[j].name = row.name)
      BY <1>6, <2>3 DEF Refused, RowsOf
    <3> QED BY <3>1, <2>10 DEF UniqueRows
  <2>17. ProjectsHaveRows'
    BY <2>5, <2>10, <1>1 DEF ProjectsHaveRows
  <2>18. RunningIsLive'
    BY <2>3, <2>10, <2>11, <1>1 DEF RunningIsLive
  <2> QED BY <2>12, <2>13, <2>14, <2>15, <2>16, <2>17, <2>18 DEF Local
<1> QED BY <1>5, <1>6

\* Two writes about the service in hand, each of which may be lost: provisioning
\* before the call, and the outcome after it.
LEMMA WriteSteps ==
    ASSUME IInv, NEW lost \in BOOLEAN, Mark(lost) \/ SaveAnswer(lost)
    PROVE  IInv'
<1> USE DEF IInv
<1>1. UNCHANGED <<convergent, declared, live, edits>>
  BY DEF Mark, SaveAnswer
<1>2. tick \in Tick /\ tick.at \in {"mark", "save"} /\ tick.at \in Holding
  BY DEF Mark, SaveAnswer, TypeOK, Holding
<1>3. /\ tick.name \in Names /\ InHand \in Ids
      /\ rows[InHand] \in Row /\ rows[InHand] /= None
      /\ tick.name \notin tick.todo
      /\ tick.cur[tick.name] /= None /\ tick.cur[tick.name].state /= "retired"
      /\ tick.dc \in Datacenters /\ tick.want \in Wishes
      /\ tick.cur \in [Names -> Known \cup {None}]
      /\ tick.seen \in [Datacenters -> Wishes]
  BY <1>2, InHandRow DEF Local, InHandKnown, Walking, Serving
<1>4. PICK i \in Ids : i = InHand
  BY <1>3
<1>5. PICK s \in States :
        /\ rows' = IF lost THEN rows ELSE [rows EXCEPT ![i].state = s]
        /\ s = "running" => live[i] = "up"
        /\ Mark(lost) => s = "provisioning"
        /\ SaveAnswer(lost) => hurt' = IF lost THEN hurt \cup {i} ELSE hurt
  <2>1. CASE Mark(lost)
    BY <2>1, <1>4 DEF Mark, Save, States, SaveAnswer
  <2>2. CASE SaveAnswer(lost)
    <3>1. PICK s \in States : s = Outcome(tick.ok)
      BY DEF Outcome, States
    <3>2. tick.at = "save"
      BY <2>2 DEF SaveAnswer
    <3>3. s = "running" => live[i] = "up"
      BY <3>1, <3>2, <1>2, <1>4 DEF Outcome, Local, InHandKnown
    <3>4. /\ rows' = IF lost THEN rows ELSE [rows EXCEPT ![i].state = s]
          /\ hurt' = IF lost THEN hurt \cup {i} ELSE hurt
      BY <2>2, <3>1, <1>4 DEF SaveAnswer, Save
    <3>5. ~ Mark(lost)
      BY <3>2 DEF Mark
    <3> QED BY <3>3, <3>4, <3>5
  <2> QED BY <2>1, <2>2
<1>6. hurt' \subseteq Ids /\ hurt \subseteq hurt'
  BY <1>5 DEF Mark, SaveAnswer, TypeOK
<1>7. /\ rows' \in [Ids -> Row \cup {None}]
      /\ \A j \in Ids : /\ rows'[j] = None <=> rows[j] = None
                        /\ rows[j] /= None => /\ rows'[j].dc = rows[j].dc
                                              /\ rows'[j].name = rows[j].name
      /\ \A j \in Ids \ {i} : rows'[j] = rows[j]
      /\ UniqueRows'
  BY <1>3, <1>4, <1>5, StateWrite
<1>8. rows'[i] = rows[i] \/ rows'[i].state = s
  BY <1>3, <1>4, <1>5 DEF TypeOK, Row
<1>9. ~ lost => rows'[i].state = s
  BY <1>3, <1>4, <1>5 DEF TypeOK, Row
<1>10. /\ tick' \in Tick
       /\ tick'.dc = tick.dc /\ tick'.want = tick.want /\ tick'.cur = tick.cur
       /\ tick'.seen = tick.seen /\ tick'.todo = tick.todo
       /\ \/ tick'.at = "install"
          \/ tick'.at = "provision" /\ tick'.name = tick.name /\ ~ lost /\ Mark(lost)
  <2>1. [tick EXCEPT !.at = "install", !.name = None, !.ok = FALSE, !.cur = tick.cur]
          = [tick EXCEPT !.at = "install", !.name = None, !.ok = FALSE]
    BY <1>2 DEF Tick
  <2>2. \/ tick' = [tick EXCEPT !.at = "install", !.name = None, !.ok = FALSE]
        \/ tick' = [tick EXCEPT !.at = "provision"] /\ ~ lost /\ Mark(lost)
    BY <2>1 DEF Mark, SaveAnswer, NextName
  <2> QED BY <2>2, <1>2 DEF Tick, Steps
<1>11. TypeOK'
  BY <1>1, <1>6, <1>7, <1>10, MishapType DEF TypeOK, Mark, SaveAnswer
<1>12. Walking' /\ Serving' /\ Wanting'
  BY <1>2, <1>3, <1>10 DEF Local, Walking, Serving, Wanting
<1>13. Tied'
  <2>1. ASSUME NEW m \in Names, tick.cur[m] /= None, tick.cur[m].state /= "retired"
        PROVE  Has(m)'
    <3>1. Has(m) /\ tick.cur[m].id \in Ids
      BY <2>1, <1>2, <1>3 DEF Local, Tied, Known
    <3> QED BY <3>1, <1>7, <1>10 DEF Has
  <2> QED BY <2>1, <1>10 DEF Tied, Retiring
<1>14. InHandKnown'
  <2>1. CASE tick'.at = "install"
    BY <2>1 DEF InHandKnown, Holding
  <2>2. CASE tick'.at = "provision" /\ tick'.name = tick.name /\ ~ lost /\ Mark(lost)
    <3>1. rows'[InHand'].state = "provisioning"
      BY <2>2, <1>4, <1>5, <1>9, <1>10 DEF InHand
    <3> QED BY <2>2, <3>1, <1>3, <1>10 DEF InHandKnown
  <2> QED BY <2>1, <2>2, <1>10
<1>15. ProjectsHaveRows'
  BY <1>1, <1>7 DEF ProjectsHaveRows
<1>16. RunningIsLive'
  BY <1>1, <1>5, <1>6, <1>7, <1>8 DEF RunningIsLive
<1> QED BY <1>7, <1>11, <1>12, <1>13, <1>14, <1>15, <1>16 DEF Local

\* Provision puts a project only under the row in hand.
LEMMA ProvisionStep ==
    ASSUME IInv, NEW bad \in BOOLEAN, Provision(bad)
    PROVE  IInv'
<1> USE DEF IInv
<1>1. UNCHANGED <<convergent, declared, rows, edits>>
  BY DEF Provision
<1>2. tick \in Tick /\ tick.at = "provision" /\ tick.at \in Holding
  BY DEF Provision, TypeOK, Holding
<1>3. /\ tick.name \in Names /\ InHand \in Ids
      /\ rows[InHand] /= None /\ rows[InHand].state = "provisioning"
      /\ tick.name \notin tick.todo
      /\ tick.cur[tick.name] /= None /\ tick.cur[tick.name].state /= "retired"
      /\ tick.seen \in [Datacenters -> Wishes]
  BY <1>2, InHandRow DEF Local, InHandKnown, Walking
<1>4. PICK i \in Ids : i = InHand
  BY <1>3
<1>5. PICK ok \in BOOLEAN :
        /\ tick' = [tick EXCEPT !.at = "save", !.ok = ok]
        /\ ok => live' = [live EXCEPT ![i] = "up"]
        /\ live' = live \/ live' = [live EXCEPT ![i] = "up"]
              \/ live' = [live EXCEPT ![i] = "partial"]
        /\ hurt' = hurt \cup {i} \/ hurt' = hurt
  BY <1>4 DEF Provision
<1>6. /\ tick' \in Tick /\ tick'.at = "save" /\ tick'.ok = ok
      /\ tick'.dc = tick.dc /\ tick'.want = tick.want /\ tick'.cur = tick.cur
      /\ tick'.seen = tick.seen /\ tick'.todo = tick.todo /\ tick'.name = tick.name
  BY <1>2, <1>5 DEF Tick, Steps
<1>7. /\ live' \in [Ids -> {"none", "partial", "up"}]
      /\ \A j \in Ids \ {i} : live'[j] = live[j]
      /\ ok => live'[i] = "up"
      /\ hurt' \subseteq Ids /\ hurt \subseteq hurt'
  BY <1>5 DEF TypeOK
<1>8. TypeOK'
  BY <1>1, <1>6, <1>7, MishapType DEF TypeOK, Provision
<1>9. Walking' /\ Serving' /\ Wanting'
  BY <1>2, <1>3, <1>6 DEF Local, Walking, Serving, Wanting
<1>10. Tied'
  BY <1>1, <1>2, <1>6 DEF Local, Tied, Has, Retiring
<1>11. InHandKnown'
  BY <1>1, <1>3, <1>4, <1>6, <1>7 DEF InHandKnown, InHand
<1>12. UniqueRows' /\ ProjectsHaveRows' /\ RunningIsLive'
  BY <1>1, <1>3, <1>4, <1>7 DEF UniqueRows, ProjectsHaveRows, RunningIsLive
<1> QED BY <1>8, <1>9, <1>10, <1>11, <1>12 DEF Local

-----------------------------------------------------------------------------

\* Every step keeps the invariant.
LEMMA NextInv == ASSUME IInv, [Next]_vars PROVE IInv'
<1>1. ASSUME Step PROVE IInv'
  <2>1. ASSUME NEW bad \in BOOLEAN,
               \/ \E lost \in BOOLEAN : Deprovision(bad, lost)
               \/ Mark(bad) \/ Provision(bad) \/ SaveAnswer(bad)
        PROVE  IInv'
    BY <2>1, DeprovisionStep, WriteSteps, ProvisionStep
  <2>2. ASSUME NEW n \in Names, NEW bad \in BOOLEAN, Retire(n, bad) \/ Insert(n, bad)
        PROVE  IInv'
    BY <2>2, RetireStep, InsertStep
  <2>3. ASSUME NEW d \in Datacenters, Reconcile(d) \/ ReconcileFails(d)
        PROVE  IInv'
    BY <2>3, ReconcileStep, BetweenSteps
  <2>4. ASSUME NEW lost \in SUBSET {"retired", "delete"}, Drop(lost)
        PROVE  IInv'
    BY <2>4, DropStep
  <2>5. ASSUME Run \/ RunEnds \/ InstallBegins \/ InstallEnds \/ \E n \in Names : Retry(n)
        PROVE  IInv'
    BY <2>5, BetweenSteps, PassSteps
  <2> QED BY <1>1, <2>1, <2>2, <2>3, <2>4, <2>5 DEF Step
<1>2. ASSUME Crash PROVE IInv'
  BY <1>2, BetweenSteps
<1>3. ASSUME NEW d \in Datacenters, NEW n \in Names, Declare(d, n) PROVE IInv'
  BY <1>3, DeclareStep
<1>4. ASSUME UNCHANGED vars PROVE IInv'
  BY <1>4
  DEF vars, IInv, TypeOK, Local, Walking, Serving, Tied, Wanting, InHandKnown, Holding,
      Retiring, Has, InHand, UniqueRows, ProjectsHaveRows, RunningIsLive
<1> QED BY <1>1, <1>2, <1>3, <1>4 DEF Next

\* The invariant holds throughout.
THEOREM Invariance == Spec => []IInv
BY InitInv, NextInv, PTL DEF Spec

\* Every behaviour keeps the rows, the projects and the reconciler's local
\* variables well typed: no tick uses a copy it does not have.
THEOREM TypeCorrect == Spec => []TypeOK
<1>1. IInv => TypeOK
  BY DEF IInv
<1> QED BY <1>1, Invariance, PTL

\* For any datacenters, hooks and failures, nothing runs at the provider without
\* the row through which a later tick can retire it.
THEOREM EveryProjectHasARow == Spec => []ProjectsHaveRows
<1>1. IInv => ProjectsHaveRows
  BY DEF IInv
<1> QED BY <1>1, Invariance, PTL

\* A datacenter never runs two projects of one bootstrap service.
THEOREM NeverTwoProjects == Spec => []OneProjectPerService
<1>1. IInv => OneProjectPerService
  BY DEF IInv, UniqueRows, OneProjectPerService
<1> QED BY <1>1, Invariance, PTL

\* A row says running only of a service that is up, unless its last change was
\* cut short.
THEOREM RunningTellsTheTruth == Spec => []RunningIsLive
<1>1. IInv => RunningIsLive
  BY DEF IInv
<1> QED BY <1>1, Invariance, PTL

=============================================================================
