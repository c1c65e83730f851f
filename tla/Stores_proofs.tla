---------------------------- MODULE Stores_proofs ----------------------------
(***************************************************************************)
(* Every table of every backend implements RecordStore, keeps its keys     *)
(* unique and its indexes exact: for any tenants, identifiers and keys,    *)
(* and stale copies of any age.                                            *)
(*                                                                         *)
(* The argument: a policy is Sound when what it lets a call do is what the *)
(* contract allows; that is checked table by table.  The steps are then    *)
(* shown once, for any sound policy.  A row's owner and key never change   *)
(* and its identifier never returns, so a copy agrees on both with its     *)
(* live row, or with what is recorded of its deleted row (CopyTied): what  *)
(* a stale write of a secret then finds under that key is a row of the     *)
(* same owner and key.  An identifier found through an index leads to a    *)
(* row its caller may see, or to one gone for good (FoundTied).            *)
(***************************************************************************)
EXTENDS Stores, TLAPS

-----------------------------------------------------------------------------
(* The policies, table by table.                                           *)

\* What the steps need of the policy of backend b's table t.
Sound(t, b, p) ==
    /\ p.deletes \in {"own", "admin", "any"}
    /\ p.deletes = "any" => p.gets = "any"
    /\ p.lists = "any" => p.gets = "any"
    /\ p.gets \in Reach /\ p.lists \in Reach
    /\ p.update \in {"refuse", "silent"} /\ p.delete \in {"refuse", "silent"}
    /\ p.index /= "none" => p.unique
    /\ p.index = "two" => t \notin GloballyKeyed
    /\ p.index = "two" => p.gets \in {"own", "shared", "any"}
    /\ t \in KeyedTables /\ <<b, t>> \notin Unguarded /\ p.served => p.unique
    /\ t = "secrets" => p.delete = "refuse"

\* The memory store's policies are sound.
LEMMA MemorySound == \A t \in Tables : Sound(t, "memory", MemoryPolicy[t])
<1>1. /\ Sound("tenants", "memory", MemoryTenants)
      /\ Sound("instances", "memory", MemoryInstances)
      /\ Sound("workloads", "memory", MemoryWorkloads)
      /\ Sound("deployments", "memory", MemoryDeployments)
      /\ Sound("releases", "memory", MemoryReleases)
      /\ Sound("checks", "memory", MemoryChecks)
      /\ Sound("domains", "memory", MemoryDomains)
      /\ Sound("routes", "memory", MemoryRoutes)
      /\ Sound("certificates", "memory", MemoryCertificates)
      /\ Sound("secrets", "memory", MemorySecrets)
      /\ Sound("datacenters", "memory", MemoryDatacenters)
      /\ Sound("bootstraps", "memory", MemoryBootstraps)
      /\ Sound("templates", "memory", MemoryTemplates)
  BY DEF Sound, Reach, KeyedTables, Unguarded, GloballyKeyed,
         Plain, Global, SharedReads, AdminReads, AdminReach, Keyed, Idempotent, MemoryTenants,
         MemoryInstances, MemoryWorkloads, MemoryDeployments, MemoryReleases, MemoryChecks,
         MemoryDomains, MemoryRoutes, MemoryCertificates, MemorySecrets, MemoryDatacenters,
         MemoryBootstraps, MemoryTemplates
<1> QED BY <1>1 DEF Tables, MemoryPolicy

\* The badger store's policies are sound.
LEMMA BadgerSound == \A t \in Tables : Sound(t, "badger", BadgerPolicy[t])
<1>1. /\ Sound("tenants", "badger", BadgerTenants)
      /\ Sound("instances", "badger", BadgerInstances)
      /\ Sound("workloads", "badger", BadgerWorkloads)
      /\ Sound("deployments", "badger", BadgerDeployments)
      /\ Sound("releases", "badger", BadgerReleases)
      /\ Sound("checks", "badger", BadgerChecks)
      /\ Sound("domains", "badger", BadgerDomains)
      /\ Sound("routes", "badger", BadgerRoutes)
      /\ Sound("certificates", "badger", BadgerCertificates)
      /\ Sound("secrets", "badger", BadgerSecrets)
      /\ Sound("datacenters", "badger", BadgerDatacenters)
      /\ Sound("bootstraps", "badger", BadgerBootstraps)
      /\ Sound("templates", "badger", BadgerTemplates)
  BY DEF Sound, Reach, KeyedTables, Unguarded, GloballyKeyed,
         Plain, Unserved, Global, SharedReads, Keyed, Idempotent, Indexed, BadgerTenants,
         BadgerInstances, BadgerWorkloads, BadgerDeployments, BadgerReleases, BadgerChecks,
         BadgerDomains, BadgerRoutes, BadgerCertificates, BadgerSecrets, BadgerDatacenters,
         BadgerBootstraps, BadgerTemplates
<1> QED BY <1>1 DEF Tables, BadgerPolicy

\* The mongo store's policies are sound.
LEMMA MongoSound == \A t \in Tables : Sound(t, "mongo", MongoPolicy[t])
<1>1. /\ Sound("tenants", "mongo", MongoTenants)
      /\ Sound("instances", "mongo", MongoInstances)
      /\ Sound("workloads", "mongo", MongoWorkloads)
      /\ Sound("deployments", "mongo", MongoDeployments)
      /\ Sound("releases", "mongo", MongoReleases)
      /\ Sound("checks", "mongo", MongoChecks)
      /\ Sound("domains", "mongo", MongoDomains)
      /\ Sound("routes", "mongo", MongoRoutes)
      /\ Sound("certificates", "mongo", MongoCertificates)
      /\ Sound("secrets", "mongo", MongoSecrets)
      /\ Sound("datacenters", "mongo", MongoDatacenters)
      /\ Sound("bootstraps", "mongo", MongoBootstraps)
      /\ Sound("templates", "mongo", MongoTemplates)
  BY DEF Sound, Reach, KeyedTables, Unguarded, GloballyKeyed,
         Plain, Global, SharedReads, AdminReads, AdminReach, AdminLists, Keyed, Silent,
         MongoTenants, MongoInstances, MongoWorkloads, MongoDeployments, MongoReleases,
         MongoChecks, MongoDomains, MongoRoutes, MongoCertificates, MongoSecrets,
         MongoDatacenters, MongoBootstraps, MongoTemplates
<1> QED BY <1>1 DEF Tables, MongoPolicy

\* The postgres store's policies are sound.
LEMMA PostgresSound == \A t \in Tables : Sound(t, "postgres", PostgresPolicy[t])
<1>1. /\ Sound("tenants", "postgres", PostgresTenants)
      /\ Sound("instances", "postgres", PostgresInstances)
      /\ Sound("workloads", "postgres", PostgresWorkloads)
      /\ Sound("deployments", "postgres", PostgresDeployments)
      /\ Sound("releases", "postgres", PostgresReleases)
      /\ Sound("checks", "postgres", PostgresChecks)
      /\ Sound("domains", "postgres", PostgresDomains)
      /\ Sound("routes", "postgres", PostgresRoutes)
      /\ Sound("certificates", "postgres", PostgresCertificates)
      /\ Sound("secrets", "postgres", PostgresSecrets)
      /\ Sound("datacenters", "postgres", PostgresDatacenters)
      /\ Sound("bootstraps", "postgres", PostgresBootstraps)
      /\ Sound("templates", "postgres", PostgresTemplates)
  BY DEF Sound, Reach, KeyedTables, Unguarded, GloballyKeyed,
         Plain, Global, SharedReads, AdminReads, AdminReach, Keyed, Silent, PostgresTenants,
         PostgresInstances, PostgresWorkloads, PostgresDeployments, PostgresReleases,
         PostgresChecks, PostgresDomains, PostgresRoutes, PostgresCertificates,
         PostgresSecrets, PostgresDatacenters, PostgresBootstraps, PostgresTemplates
<1> QED BY <1>1 DEF Tables, PostgresPolicy

\* The sqlite store's policies are sound.
LEMMA SqliteSound == \A t \in Tables : Sound(t, "sqlite", SqlitePolicy[t])
<1>1. /\ Sound("tenants", "sqlite", SqliteTenants)
      /\ Sound("instances", "sqlite", SqliteInstances)
      /\ Sound("workloads", "sqlite", SqliteWorkloads)
      /\ Sound("deployments", "sqlite", SqliteDeployments)
      /\ Sound("releases", "sqlite", SqliteReleases)
      /\ Sound("checks", "sqlite", SqliteChecks)
      /\ Sound("domains", "sqlite", SqliteDomains)
      /\ Sound("routes", "sqlite", SqliteRoutes)
      /\ Sound("certificates", "sqlite", SqliteCertificates)
      /\ Sound("secrets", "sqlite", SqliteSecrets)
      /\ Sound("datacenters", "sqlite", SqliteDatacenters)
      /\ Sound("bootstraps", "sqlite", SqliteBootstraps)
      /\ Sound("templates", "sqlite", SqliteTemplates)
  BY DEF Sound, Reach, KeyedTables, Unguarded, GloballyKeyed,
         Plain, Unserved, Global, NoLists, Keyed, SqliteTenants, SqliteInstances,
         SqliteWorkloads, SqliteDeployments, SqliteReleases, SqliteChecks, SqliteDomains,
         SqliteRoutes, SqliteCertificates, SqliteSecrets, SqliteDatacenters, SqliteBootstraps,
         SqliteTemplates
<1> QED BY <1>1 DEF Tables, SqlitePolicy

\* The policy under test is sound, whichever it is.
LEMMA PolicySound == ASSUME TypeOK PROVE Sound(table.name, table.backend, P)
<1>1. table.backend \in Backends /\ table.name \in Tables
  BY DEF TypeOK
<1>2. CASE table.backend = "memory"
  BY <1>1, <1>2, MemorySound DEF P, PolicyOf
<1>3. CASE table.backend = "badger"
  BY <1>1, <1>3, BadgerSound DEF P, PolicyOf
<1>4. CASE table.backend = "mongo"
  BY <1>1, <1>4, MongoSound DEF P, PolicyOf
<1>5. CASE table.backend = "postgres"
  BY <1>1, <1>5, PostgresSound DEF P, PolicyOf
<1>6. CASE table.backend = "sqlite"
  BY <1>1, <1>6, SqliteSound DEF P, PolicyOf
<1> QED BY <1>1, <1>2, <1>3, <1>4, <1>5, <1>6 DEF Backends

-----------------------------------------------------------------------------
(* The inductive invariant.                                                *)

\* A deleted identifier has no row, and never gets one again.
GoneForGood == \A i \in Ids : gone[i] /= None => rows[i] = None

\* A copy agrees with its row on owner and key, or with what the row had when it
\* went.
CopyTied ==
    \A t \in Tenants : copy[t] /= None =>
        \/ gone[copy[t].id] = Tag(copy[t].row)
        \/ /\ rows[copy[t].id] /= None
           /\ rows[copy[t].id].owner = copy[t].row.owner
           /\ rows[copy[t].id].key = copy[t].row.key

\* What an index lookup found is the caller's to see, or is gone for good.
FoundTied ==
    \A t \in Tenants : found[t] /= None =>
        \/ gone[found[t]] /= None
        \/ /\ rows[found[t]] /= None
           /\ rows[found[t]].owner \in {t, Platform} \/ P.gets = "any"

IInv == /\ TypeOK /\ GoneForGood /\ CopyTied /\ FoundTied
        /\ KeysUnique /\ IndexExact

\* What is recorded of a deleted row: its owner and key, and they tell rows apart.
LEMMA TagIs ==
    ASSUME NEW r \in Row
    PROVE  /\ Tag(r) \in Tags /\ Tag(r) /= None
           /\ \A q \in Row : Tag(q) = Tag(r) <=> q.owner = r.owner /\ q.key = r.key
<1>1. Tag(r) \in Tags
  BY DEF Tag, Tags, Row
<1>2. ASSUME NEW q \in Row PROVE Tag(q) = Tag(r) <=> q.owner = r.owner /\ q.key = r.key
  BY DEF Tag
<1> QED BY <1>1, <1>2, NoneAssumption

\* Row j is the one a call that means row i reaches.
Reached(i, j) ==
    \/ i = j
    \/ table.name = "secrets" /\ gone[i] /= None /\ gone[i] = Tag(rows[j])

\* A call reaches the row it means, or a live one that took its key; when it
\* reaches none there is none.
LEMMA TargetIs ==
    ASSUME TypeOK, GoneForGood, NEW i \in Ids
    PROVE  /\ Target(i) \in Ids
           /\ Reached(i, Target(i))
           /\ Target(i) /= i => Target(i) \in Live /\ table.name = "secrets"
           /\ Target(i) \notin Live => \A j \in Live : ~ Reached(i, j)
           /\ i \in Live => Target(i) = i
<1>1. PICK heirs \in SUBSET Live : heirs = {j \in Live : Tag(rows[j]) = gone[i]}
  OBVIOUS
<1>2. Target(i) = IF table.name = "secrets" /\ heirs /= {} THEN CHOOSE j \in heirs : TRUE
                                                          ELSE i
  BY <1>1 DEF Target
<1>3. \A j \in Live : j \in Ids /\ Tag(rows[j]) /= None
  BY TagIs DEF Live, TypeOK
<1>4. CASE table.name = "secrets" /\ heirs /= {}
  <2>1. Target(i) \in heirs
    BY <1>2, <1>4
  <2>2. Target(i) \in Live /\ Tag(rows[Target(i)]) = gone[i]
    BY <1>1, <2>1
  <2>3. gone[i] /= None /\ rows[i] = None
    BY <1>3, <2>2 DEF GoneForGood
  <2> QED BY <1>3, <1>4, <2>2, <2>3 DEF Reached, Live
<1>5. CASE ~ (table.name = "secrets" /\ heirs /= {})
  <2>1. Target(i) = i
    BY <1>2, <1>5
  <2> QED BY <1>1, <1>5, <2>1 DEF Reached
<1> QED BY <1>4, <1>5

\* The key space of a tenant's rows is one of the tenants'.
LEMMA SpaceType == ASSUME NEW t \in Tenants PROVE Space(t) \in Tenants
BY StoresAssumption DEF Space

\* An empty table satisfies the invariant.
LEMMA InitInv == ASSUME Init PROVE IInv
<1> USE DEF Init
<1>1. TypeOK
  BY DEF TypeOK
<1>2. KeysUnique /\ Live = {}
  BY DEF KeysUnique, Live
<1>3. IndexExact
  BY <1>2, StoresAssumption DEF IndexExact
<1> QED
  BY <1>1, <1>2, <1>3 DEF IInv, GoneForGood, CopyTied, FoundTied

-----------------------------------------------------------------------------
(* The steps, for the invariant.                                           *)

\* The calls that leave the rows and the indexes alone.
QuietStep(t) ==
    /\ UNCHANGED <<table, rows, gone, index>>
    /\ reply' \in Replies \cup {None}
    /\ \/ copy' = copy
       \/ \E i \in Live : copy' = [copy EXCEPT ![t] = [id |-> i, row |-> rows[i]]]
    /\ \/ found' = found
       \/ found' = [found EXCEPT ![t] = None]
       \/ \E i \in Ids : /\ found' = [found EXCEPT ![t] = i]
                         /\ rows[i] /= None
                         /\ rows[i].owner \in {t, Platform} \/ P.gets = "any"

\* A quiet step keeps the invariant: a fresh copy agrees with its row.
LEMMA QuietInv ==
    ASSUME IInv, NEW t \in Tenants, QuietStep(t)
    PROVE  IInv'
<1> USE DEF IInv, QuietStep
<1>1. UNCHANGED <<table, rows, gone, index>> /\ P' = P /\ Live' = Live
  BY DEF P, Live
<1>2. /\ copy' \in [Tenants -> Copy \cup {None}]
      /\ \A u \in Tenants :
            \/ copy'[u] = copy[u]
            \/ \E i \in Live : copy'[u].id = i /\ copy'[u].row = rows[i]
  <2>1. ASSUME NEW i \in Live
        PROVE  /\ [id |-> i, row |-> rows[i]] \in Copy
               /\ [id |-> i, row |-> rows[i]].id = i
               /\ [id |-> i, row |-> rows[i]].row = rows[i]
    BY <2>1 DEF Live, TypeOK, Copy
  <2>2. CASE copy' = copy
    BY <2>2 DEF TypeOK
  <2>3. CASE \E i \in Live : copy' = [copy EXCEPT ![t] = [id |-> i, row |-> rows[i]]]
    <3>1. PICK i \in Live : copy' = [copy EXCEPT ![t] = [id |-> i, row |-> rows[i]]]
      BY <2>3
    <3>2. PICK c \in Copy : c = [id |-> i, row |-> rows[i]] /\ c.id = i /\ c.row = rows[i]
      BY <2>1
    <3>3. copy' = [copy EXCEPT ![t] = c]
      BY <3>1, <3>2
    <3> QED BY <3>2, <3>3 DEF TypeOK
  <2> QED BY <2>2, <2>3
<1>3. /\ found' \in [Tenants -> Ids \cup {None}]
      /\ \A u \in Tenants :
            \/ found'[u] = found[u] \/ found'[u] = None
            \/ /\ rows[found'[u]] /= None
               /\ rows[found'[u]].owner \in {u, Platform} \/ P.gets = "any"
  BY DEF TypeOK
<1>4. TypeOK'
  BY <1>1, <1>2, <1>3 DEF TypeOK
<1>5. CopyTied'
  BY <1>1, <1>2 DEF CopyTied, Live
<1>7. FoundTied'
  BY <1>1, <1>3 DEF FoundTied
<1>8. GoneForGood' /\ KeysUnique'
  BY <1>1 DEF GoneForGood, KeysUnique, Space
<1>9. IndexExact'
  BY <1>1 DEF IndexExact, Space
<1> QED BY <1>4, <1>5, <1>7, <1>8, <1>9

\* An answer is a reply.
LEMMA AnswerType ==
    ASSUME NEW op \in Ops, NEW t \in Tenants, NEW i \in Ids, NEW ok \in BOOLEAN,
           Answers(op, t, i, ok)
    PROVE  reply' \in Replies
BY DEF Answers, Replies

\* A load is quiet.
LEMMA LoadsQuiet ==
    ASSUME TypeOK, NEW t \in Tenants, NEW i \in Ids, NEW j \in Ids, NEW ok \in BOOLEAN,
           ok => j \in Live, Loads(t, i, j, ok)
    PROVE  /\ reply' \in Replies
           /\ \/ copy' = copy
              \/ \E m \in Live : copy' = [copy EXCEPT ![t] = [id |-> m, row |-> rows[m]]]
<1>1. reply' \in Replies
  BY AnswerType DEF Loads, Ops
<1>2. CASE ok
  BY <1>1, <1>2 DEF Loads
<1>3. CASE ~ ok
  <2>1. copy' = [copy EXCEPT ![t] = copy[t]]
    BY <1>3 DEF Loads
  <2> QED BY <1>1, <2>1 DEF TypeOK
<1> QED BY <1>2, <1>3

\* Badger's first transaction finds an identifier the caller may see.
LEMMA FindKeyQuiet ==
    ASSUME IInv, NEW t \in Tenants, NEW k \in Keys, FindKey(t, k)
    PROVE  QuietStep(t)
<1> USE DEF IInv, FindKey
<1>1. P.index = "two" /\ P.served
  OBVIOUS
<1>2. /\ table.name \notin GloballyKeyed
      /\ P.gets \in {"own", "shared", "any"}
  BY <1>1, PolicySound DEF Sound
<1>3. Space(t) = t /\ Space(Platform) = Platform
  BY <1>2 DEF Space
<1>4. PICK v \in Ids \cup {None} :
        /\ found' = [found EXCEPT ![t] = v]
        /\ v = index[t][k] \/ v = index[Platform][k]
  <2>1. index[t][k] \in Ids \cup {None} /\ index[Platform][k] \in Ids \cup {None}
    BY StoresAssumption DEF TypeOK
  <2>2. CASE index[t][k] = None /\ P.gets = "shared"
    BY <2>1, <2>2, <1>3
  <2>3. CASE ~ (index[t][k] = None /\ P.gets = "shared")
    BY <2>1, <2>3, <1>3
  <2> QED BY <2>2, <2>3
<1>5. ASSUME v /= None
      PROVE  rows[v] /= None /\ rows[v].owner \in {t, Platform}
  <2>1. PICK u \in {t, Platform} : v = index[u][k]
    BY <1>4
  <2>2. v \in Live /\ Space(rows[v].owner) = u
    BY <2>1, <1>1, <1>5, StoresAssumption DEF IndexExact
  <2> QED BY <2>2, <1>2 DEF Live, Space
<1>6. v = None \/ v \in Ids
  OBVIOUS
<1> QED BY <1>4, <1>5, <1>6 DEF QuietStep, TypeOK

\* Its second transaction reads the row, if it is still there.
LEMMA ReadFoundQuiet ==
    ASSUME IInv, NEW t \in Tenants, ReadFound(t)
    PROVE  QuietStep(t)
<1> USE DEF IInv, ReadFound
<1>1. PICK i \in Ids : i = found[t]
  BY DEF TypeOK
<1>2. PICK ok \in BOOLEAN : ok <=> i \in Live
  OBVIOUS
<1>3. Loads(t, i, i, ok)
  BY <1>1, <1>2 DEF Loads, Answers
<1>4. /\ reply' \in Replies
      /\ \/ copy' = copy
         \/ \E j \in Live : copy' = [copy EXCEPT ![t] = [id |-> j, row |-> rows[j]]]
  BY <1>2, <1>3, LoadsQuiet
<1> QED BY <1>4 DEF QuietStep

\* The calls that read, fail or are refused.
LEMMA ReadsQuiet ==
    ASSUME IInv, NEW t \in Tenants, NEW i \in Ids,
           Get(t, i) \/ List(t, i) \/ \E op \in Ops : Unavailable(t, op, i)
    PROVE  QuietStep(t)
<1> USE DEF IInv
<1>1. CASE Get(t, i)
  <2>1. PICK j \in Ids : j = Target(i)
    BY TargetIs
  <2>2. PICK ok \in BOOLEAN : ok <=> j \in Live /\ Reaches(P.gets, t, j)
    OBVIOUS
  <2>3. Loads(t, i, j, ok) /\ UNCHANGED <<table, rows, gone, index, found>>
    BY <1>1, <2>1, <2>2 DEF Get, Loads, Answers
  <2> QED BY <2>2, <2>3, LoadsQuiet DEF QuietStep
<1>2. CASE List(t, i)
  BY <1>2, LoadsQuiet DEF List, QuietStep
<1>3. CASE \E op \in Ops : Unavailable(t, op, i)
  <2>1. PICK op \in Ops : Unavailable(t, op, i)
    BY <1>3
  <2>2. reply' \in Replies
    BY <2>1, AnswerType DEF Unavailable
  <2> QED BY <2>1, <2>2 DEF Unavailable, QuietStep
<1> QED BY <1>1, <1>2, <1>3

\* A row is added under a key the index or the rows say is free.
LEMMA InsertInv ==
    ASSUME IInv, NEW t \in Tenants, NEW i \in Ids, NEW k \in Keys, Insert(t, i, k)
    PROVE  IInv'
<1> USE DEF IInv
<1>1. UNCHANGED <<table, gone, copy, found>> /\ P.served /\ rows[i] = None /\ gone[i] = None
  BY DEF Insert
<1>2. reply' \in Replies
  BY AnswerType DEF Insert, Ops
<1>3. CASE Taken(t, k)
  <2>1. QuietStep(t)
    BY <1>2, <1>3 DEF Insert, QuietStep
  <2> QED BY <2>1, QuietInv
<1>4. CASE ~ Taken(t, k)
  <2>1. [owner |-> t, key |-> k, val |-> 0] \in Row
    BY StoresAssumption DEF Row, Vals
  <2>2. PICK row \in Row :
          /\ row = [owner |-> t, key |-> k, val |-> 0]
          /\ row /= None /\ row.owner = t /\ row.key = k
    BY <2>1, NoneAssumption
  <2>3. rows' = [rows EXCEPT ![i] = row] /\ IndexRow(t, k, i)
    BY <2>2, <1>4 DEF Insert
  <2>4. /\ rows' \in [Ids -> Row \cup {None}] /\ rows'[i] = row
        /\ \A j \in Ids \ {i} : rows'[j] = rows[j]
    BY <2>3 DEF TypeOK
  <2>5. P' = P /\ Live' = Live \cup {i} /\ i \notin Live
    BY <2>2, <2>4, <1>1 DEF P, Live
  <2>6. Space(t) \in Tenants
    BY SpaceType
  <2>7. /\ index' \in [Tenants -> [Keys -> Ids \cup {None}]]
        /\ P.index /= "none" => index' = [index EXCEPT ![Space(t)][k] = i]
    BY <2>3, <2>6 DEF IndexRow, TypeOK
  <2>8. TypeOK'
    BY <1>1, <1>2, <2>4, <2>7 DEF TypeOK
  <2>9. P.unique => \A j \in Live : ~ (Space(rows[j].owner) = Space(t) /\ rows[j].key = k)
    <3>1. CASE P.index = "none"
      BY <3>1, <1>4 DEF Taken
    <3>2. CASE P.index /= "none" /\ P.unique
      <4>1. index[Space(t)][k] = None
        BY <3>2, <1>4 DEF Taken
      <4>2. \A j \in Ids : index[Space(t)][k] = j <=>
                 j \in Live /\ Space(rows[j].owner) = Space(t) /\ rows[j].key = k
        BY <3>2, <1>1, <2>6 DEF IndexExact
      <4>3. \A j \in Live : j \in Ids /\ j /= None
        BY StoresAssumption DEF Live
      <4> QED BY <4>1, <4>2, <4>3
    <3> QED BY <3>1, <3>2
  <2>10. KeysUnique'
    <3>1. table.name \in KeyedTables /\ <<table.backend, table.name>> \notin Unguarded => P.unique
      BY <1>1, PolicySound DEF Sound
    <3> QED BY <3>1, <2>2, <2>4, <2>5, <2>9, <1>1 DEF KeysUnique, Space, Live
  <2>11. IndexExact'
    <3>1. SUFFICES ASSUME P.index /= "none", NEW u \in Tenants, NEW m \in Keys, NEW j \in Ids
                   PROVE  index'[u][m] = j <=> /\ rows'[j] /= None
                                               /\ Space(rows'[j].owner) = u
                                               /\ rows'[j].key = m
      BY <1>1, <2>5 DEF IndexExact, Space, Live
    <3>2. P.unique
      BY <3>1, PolicySound DEF Sound
    <3>3. index[u][m] = j <=> /\ rows[j] /= None
                              /\ Space(rows[j].owner) = u
                              /\ rows[j].key = m
      BY <3>1, <1>1 DEF IndexExact, Live
    <3>4. index'[u][m] = IF u = Space(t) /\ m = k THEN i ELSE index[u][m]
      BY <2>6, <2>7, <3>1 DEF TypeOK
    <3>5. CASE j = i
      BY <3>3, <3>4, <3>5, <2>2, <2>4, <1>1
    <3>6. CASE j /= i
      <4>1. rows'[j] = rows[j]
        BY <3>6, <2>4
      <4>2. rows[j] /= None => ~ (Space(rows[j].owner) = Space(t) /\ rows[j].key = k)
        BY <3>2, <2>9 DEF Live
      <4> QED BY <3>3, <3>4, <3>6, <4>1, <4>2
    <3> QED BY <3>5, <3>6
  <2>13. GoneForGood'
    BY <1>1, <2>4 DEF GoneForGood
  <2>14. CopyTied'
    <3>1. \A u \in Tenants : copy[u] /= None => copy[u].id \in Ids
      BY DEF TypeOK, Copy
    <3> QED BY <3>1, <1>1, <2>4 DEF CopyTied
  <2>15. FoundTied'
    <3>1. \A u \in Tenants : found[u] /= None => found[u] \in Ids
      BY DEF TypeOK
    <3> QED BY <3>1, <1>1, <2>4, <2>5 DEF FoundTied
  <2> QED BY <2>8, <2>10, <2>11, <2>13, <2>14, <2>15
<1> QED BY <1>3, <1>4

\* What a stale copy writes over a live row: its owner and key are the row's.
LEMMA UpdateRow ==
    ASSUME IInv, NEW t \in Tenants, NEW v \in Vals, copy[t] /= None,
           NEW j \in Live, j = Target(copy[t].id)
    PROVE  LET row == [copy[t].row EXCEPT !.val = v]
           IN  /\ row \in Row /\ row /= None
               /\ row.owner = rows[j].owner /\ row.key = rows[j].key
               /\ row = [rows[j] EXCEPT !.val = v]
<1> USE DEF IInv
<1>1. copy[t] \in Copy
  BY DEF TypeOK
<1>2. PICK i \in Ids, c \in Row : i = copy[t].id /\ c = copy[t].row
  BY <1>1 DEF Copy
<1>3. PICK d \in Row : d = rows[j]
  BY DEF Live, TypeOK
<1>4. d.owner = c.owner /\ d.key = c.key
  <2>1. \/ gone[i] = Tag(c)
        \/ rows[i] /= None /\ rows[i].owner = c.owner /\ rows[i].key = c.key
    BY <1>2 DEF CopyTied
  <2>2. CASE i \in Live
    <3>1. j = i
      BY <1>2, <2>2, TargetIs
    <3>2. rows[i] /= None
      BY <2>2 DEF Live
    <3>3. gone[i] = None
      BY <3>2 DEF GoneForGood
    <3>4. Tag(c) /= None
      BY TagIs
    <3> QED BY <1>3, <2>1, <3>1, <3>3, <3>4
  <2>3. CASE i \notin Live
    <3>1. gone[i] = Tag(c)
      BY <2>1, <2>3 DEF Live
    <3>2. gone[i] = Tag(d)
      BY <1>2, <1>3, <2>3, TargetIs DEF Reached, Live
    <3> QED BY <3>1, <3>2, TagIs
  <2> QED BY <2>2, <2>3
<1>5. PICK row : row = [c EXCEPT !.val = v]
  OBVIOUS
<1>6. row \in Row /\ row.owner = c.owner /\ row.key = c.key
  BY <1>5 DEF Row
<1>7. row = [d EXCEPT !.val = v]
  <2>1. row = [owner |-> c.owner, key |-> c.key, val |-> v]
    BY <1>5 DEF Row
  <2>2. [d EXCEPT !.val = v] = [owner |-> d.owner, key |-> d.key, val |-> v]
    BY DEF Row
  <2> QED BY <2>1, <2>2, <1>4
<1> QED BY <1>2, <1>3, <1>4, <1>5, <1>6, <1>7, NoneAssumption

\* An update moves no row to another owner or key and brings none back.
LEMMA UpdateInv ==
    ASSUME IInv, NEW t \in Tenants, NEW v \in Vals, Update(t, v)
    PROVE  IInv'
<1> USE DEF IInv
<1>1. UNCHANGED <<table, gone, index, copy, found>> /\ copy[t] /= None /\ P.served
  BY DEF Update
<1>2. PICK i \in Ids, m \in Ids : i = copy[t].id /\ m = Target(i)
  BY <1>1, TargetIs DEF TypeOK, Copy
<1>3. CASE m \in Live
  <2>1. PICK row \in Row :
          /\ row = [copy[t].row EXCEPT !.val = v]
          /\ row /= None /\ row.owner = rows[m].owner /\ row.key = rows[m].key
    BY <1>1, <1>2, <1>3, UpdateRow, ZenonT(60)
  <2>2. rows' = [rows EXCEPT ![m] = row] /\ Answers("update", t, i, TRUE)
    BY <2>1, <1>2, <1>3 DEF Update
  <2>3. /\ rows' \in [Ids -> Row \cup {None}] /\ rows'[m] = row
        /\ \A j \in Ids \ {m} : rows'[j] = rows[j]
    BY <2>2 DEF TypeOK
  <2>4. \A j \in Ids : /\ rows'[j] = None <=> rows[j] = None
                       /\ rows[j] /= None => /\ rows'[j].owner = rows[j].owner
                                             /\ rows'[j].key = rows[j].key
    BY <2>1, <2>3, <1>3 DEF Live
  <2>5. P' = P /\ Live' = Live
    BY <2>4, <1>1 DEF P, Live
  <2>6. reply' \in Replies
    BY <2>2, AnswerType DEF Ops
  <2>7. TypeOK'
    BY <2>3, <2>6, <1>1 DEF TypeOK
  <2>8. KeysUnique'
    BY <2>4, <2>5, <1>1 DEF KeysUnique, Space, Live
  <2>9. IndexExact'
    BY <2>4, <2>5, <1>1 DEF IndexExact, Space, Live
  <2>11. GoneForGood'
    BY <1>1, <2>4 DEF GoneForGood
  <2>12. CopyTied'
    <3>1. \A u \in Tenants : copy[u] /= None => copy[u].id \in Ids
      BY DEF TypeOK, Copy
    <3> QED BY <3>1, <1>1, <2>4 DEF CopyTied
  <2>13. FoundTied'
    <3>1. \A u \in Tenants : found[u] /= None => found[u] \in Ids
      BY DEF TypeOK
    <3> QED BY <3>1, <1>1, <2>4, <2>5 DEF FoundTied
  <2> QED BY <2>7, <2>8, <2>9, <2>11, <2>12, <2>13
<1>4. CASE m \notin Live
  <2>1. PICK ok \in BOOLEAN : ok = (P.update = "silent")
    OBVIOUS
  <2>2. Answers("update", t, i, ok) /\ UNCHANGED rows
    BY <2>1, <1>2, <1>4 DEF Update
  <2>3. reply' \in Replies
    BY <2>2, AnswerType DEF Ops
  <2>4. QuietStep(t)
    BY <1>1, <2>2, <2>3 DEF QuietStep
  <2> QED BY <2>4, QuietInv
<1> QED BY <1>3, <1>4

\* A row goes with its secondary key, and its identifier is spent.
LEMMA DeleteInv ==
    ASSUME IInv, NEW t \in Tenants, NEW i \in Ids, Delete(t, i)
    PROVE  IInv'
<1> USE DEF IInv
<1>1. UNCHANGED <<table, copy, found>> /\ P.served
  BY DEF Delete
<1>4. PICK m \in Ids : m = Target(i)
  BY TargetIs
<1>2. CASE m \in Live /\ Reaches(P.deletes, t, m)
  <2>1. /\ rows' = [rows EXCEPT ![m] = None]
        /\ gone' = [gone EXCEPT ![m] = Tag(rows[m])]
        /\ UnindexRow(m)
        /\ Answers("delete", t, i, TRUE)
    BY <1>2, <1>4 DEF Delete
  <2>2. /\ rows' \in [Ids -> Row \cup {None}] /\ rows'[m] = None
        /\ \A j \in Ids \ {m} : rows'[j] = rows[j]
    BY <2>1 DEF TypeOK
  <2>3. P' = P /\ Live' = Live \ {m}
    BY <2>2, <1>1 DEF P, Live
  <2>4. rows[m] \in Row
    BY <1>2 DEF Live, TypeOK
  <2>5. PICK s \in Tenants, k \in Keys : s = Space(rows[m].owner) /\ k = rows[m].key
    BY <2>4, SpaceType DEF Row
  <2>6. /\ index' \in [Tenants -> [Keys -> Ids \cup {None}]]
        /\ P.index /= "none" => index' = [index EXCEPT ![s][k] = None]
    BY <2>1, <2>5 DEF UnindexRow, IndexRow, TypeOK
  <2>7. reply' \in Replies
    BY <2>1, AnswerType DEF Ops
  <2>11. /\ gone' \in [Ids -> Tags \cup {None}]
         /\ gone'[m] = Tag(rows[m]) /\ \A j \in Ids \ {m} : gone'[j] = gone[j]
    BY <2>1, <2>4, TagIs DEF TypeOK
  <2>8. TypeOK'
    BY <1>1, <2>1, <2>2, <2>6, <2>7, <2>11 DEF TypeOK
  <2>9. KeysUnique'
    BY <2>2, <2>3, <1>1 DEF KeysUnique, Space, Live
  <2>10. IndexExact'
    <3>1. SUFFICES ASSUME P.index /= "none", NEW u \in Tenants, NEW n \in Keys, NEW j \in Ids
                   PROVE  index'[u][n] = j <=> /\ rows'[j] /= None
                                               /\ Space(rows'[j].owner) = u
                                               /\ rows'[j].key = n
      BY <1>1, <2>3 DEF IndexExact, Space, Live
    <3>2. \A q \in Ids : index[u][n] = q <=> /\ rows[q] /= None
                                             /\ Space(rows[q].owner) = u
                                             /\ rows[q].key = n
      BY <3>1, <1>1 DEF IndexExact, Live
    <3>3. index'[u][n] = IF u = s /\ n = k THEN None ELSE index[u][n]
      BY <2>6, <3>1 DEF TypeOK
    <3>4. rows[m] /= None
      BY <1>2 DEF Live
    <3>5. CASE u = s /\ n = k
      <4>1. index[u][n] = m
        BY <3>2, <3>4, <3>5, <2>5
      <4>2. None /= j
        BY StoresAssumption
      <4> QED BY <3>2, <3>3, <3>5, <4>1, <4>2, <2>2
    <3>6. CASE ~ (u = s /\ n = k)
      <4>1. index[u][n] /= m
        BY <3>2, <3>6, <2>5
      <4> QED BY <3>2, <3>3, <3>6, <4>1, <2>2
    <3> QED BY <3>5, <3>6
  <2>12. GoneForGood'
    BY <1>1, <2>2, <2>11 DEF GoneForGood
  <2>13. CopyTied'
    <3>1. SUFFICES ASSUME NEW u \in Tenants, copy[u] /= None
                   PROVE  \/ gone'[copy[u].id] = Tag(copy[u].row)
                          \/ /\ rows'[copy[u].id] /= None
                             /\ rows'[copy[u].id].owner = copy[u].row.owner
                             /\ rows'[copy[u].id].key = copy[u].row.key
      BY <1>1 DEF CopyTied, Tag
    <3>2. copy[u].id \in Ids /\ copy[u].row \in Row
      BY <3>1 DEF TypeOK, Copy
    <3>3. \/ gone[copy[u].id] = Tag(copy[u].row)
          \/ /\ rows[copy[u].id] /= None
             /\ rows[copy[u].id].owner = copy[u].row.owner
             /\ rows[copy[u].id].key = copy[u].row.key
      BY <3>1 DEF CopyTied
    <3>4. CASE copy[u].id = m
      <4>1. gone[m] = None
        BY <1>2 DEF GoneForGood, Live
      <4>2. Tag(copy[u].row) /= None
        BY <3>2, TagIs
      <4>3. rows[m].owner = copy[u].row.owner /\ rows[m].key = copy[u].row.key
        BY <3>3, <3>4, <4>1, <4>2
      <4> QED BY <2>4, <2>11, <3>2, <3>4, <4>3, TagIs
    <3>5. CASE copy[u].id /= m
      BY <2>2, <2>11, <3>2, <3>3, <3>5
    <3> QED BY <3>4, <3>5
  <2>14. FoundTied'
    <3>1. \A u \in Tenants : found[u] /= None => found[u] \in Ids
      BY DEF TypeOK
    <3>2. Tag(rows[m]) /= None
      BY <2>4, TagIs
    <3> QED BY <3>1, <3>2, <1>1, <2>2, <2>3, <2>11 DEF FoundTied
  <2> QED BY <2>8, <2>9, <2>10, <2>11, <2>12, <2>13, <2>14
<1>3. CASE ~ (m \in Live /\ Reaches(P.deletes, t, m))
  <2>1. PICK ok \in BOOLEAN : ok = (P.delete = "silent")
    OBVIOUS
  <2>2. Answers("delete", t, i, ok) /\ UNCHANGED <<rows, gone, index>>
    BY <2>1, <1>3, <1>4 DEF Delete
  <2>3. reply' \in Replies
    BY <2>2, AnswerType DEF Ops
  <2>4. QuietStep(t)
    BY <1>1, <2>2, <2>3 DEF QuietStep
  <2> QED BY <2>4, QuietInv
<1> QED BY <1>2, <1>3

\* Every step keeps the invariant.
LEMMA NextInv == ASSUME IInv, [Next]_vars PROVE IInv'
<1>1. CASE Next
  <2>1. PICK t \in Tenants :
          \/ \E i \in Ids : \/ \E k \in Keys : Insert(t, i, k)
                            \/ Get(t, i) \/ List(t, i) \/ Delete(t, i)
                            \/ \E op \in Ops : Unavailable(t, op, i)
          \/ \E k \in Keys : FindKey(t, k)
          \/ ReadFound(t)
          \/ \E v \in Vals : Update(t, v)
    BY <1>1 DEF Next
  <2>2. CASE \E i \in Ids : \/ \E k \in Keys : Insert(t, i, k)
                            \/ Get(t, i) \/ List(t, i) \/ Delete(t, i)
                            \/ \E op \in Ops : Unavailable(t, op, i)
    BY <2>2, InsertInv, DeleteInv, ReadsQuiet, QuietInv
  <2>3. CASE (\E k \in Keys : FindKey(t, k)) \/ ReadFound(t)
    BY <2>3, FindKeyQuiet, ReadFoundQuiet, QuietInv
  <2>4. CASE \E v \in Vals : Update(t, v)
    BY <2>4, UpdateInv
  <2> QED BY <2>1, <2>2, <2>3, <2>4
<1>2. CASE UNCHANGED vars
  BY <1>2
  DEF vars, IInv, TypeOK, GoneForGood, CopyTied, FoundTied, KeysUnique,
      IndexExact, Live, Space, P, Tag
<1> QED BY <1>1, <1>2

\* The invariant holds throughout.
THEOREM Invariance == Spec => []IInv
BY InitInv, NextInv, PTL DEF Spec

\* Every behaviour of every backend keeps rows, indexes, copies and replies well
\* typed.
THEOREM TypeCorrect == Spec => []TypeOK
<1>1. IInv => TypeOK
  BY DEF IInv
<1> QED BY <1>1, Invariance, PTL

\* For any tenants, rows and keys, racing creators never share a key, outside
\* the tables listed as unguarded.
THEOREM KeysStayUnique == Spec => []KeysUnique
<1>1. IInv => KeysUnique
  BY DEF IInv
<1> QED BY <1>1, Invariance, PTL

\* Badger's secondary keys and rows never disagree, however the inserts, stale
\* updates and deletes interleave.
THEOREM IndexesStayExact == Spec => []IndexExact
<1>1. IInv => IndexExact
  BY DEF IInv
<1> QED BY <1>1, Invariance, PTL

-----------------------------------------------------------------------------
(* The contract: every step of a backend is one of RecordStore's, or none. *)

\* The contract's row of a call is the one the call reaches.
LEMMA LandsIs ==
    ASSUME TypeOK, NEW i \in Ids, NEW j \in Ids
    PROVE  Contract!Lands(i, j) <=> j \in Live /\ Reached(i, j)
BY DEF Contract!Lands, Contract!Tag, Tag, Reached, Live

\* A call that changes nothing is one of the contract's answers.
LEMMA AnswerMaps ==
    ASSUME TypeOK, NEW op \in Ops, NEW t \in Tenants, NEW i \in Ids, NEW ok \in BOOLEAN,
           Answers(op, t, i, ok), UNCHANGED <<table, rows, gone>>,
           ok => \/ /\ op = "get"
                    /\ \E j \in Live :
                          /\ Reached(i, j)
                          /\ rows[j].owner \in {t, Platform} \/ t = Platform
                                                            \/ P.gets = "any"
                 \/ /\ op = "delete"
                    /\ \A j \in Live : Reached(i, j) => rows[j].owner /= t
                 \/ op = "update" /\ gone[i] /= None /\ \A j \in Live : ~ Reached(i, j)
    PROVE  Contract!Next
<1>1. PICK r : r = [op |-> op, by |-> t, id |-> i, ok |-> ok]
  OBVIOUS
<1>2. r \in Replies /\ r.op = op /\ r.by = t /\ r.id = i /\ r.ok = ok /\ reply' = r
  BY <1>1 DEF Answers, Replies
<1>3. P' = P /\ UNCHANGED <<table.name, rows, gone>>
  BY DEF P
<1>4. \A j \in Ids : Contract!Lands(i, j) <=> j \in Live /\ Reached(i, j)
  BY LandsIs
<1>5. \A j \in Live : j \in Ids
  BY DEF Live
<1>6. ok => \/ /\ op = "get"
               /\ \E j \in Ids : /\ Contract!Lands(i, j)
                                 /\ \/ rows[j].owner = t \/ t = Platform \/ P.gets = "any"
                                    \/ rows[j].owner = Platform
            \/ op = "delete" /\ \A j \in Ids : Contract!Lands(i, j) => rows[j].owner /= t
            \/ /\ op = "update" /\ gone[i] /= None
               /\ \A j \in Ids : ~ Contract!Lands(i, j)
  <2>1. CASE op = "get"
    BY <1>4, <1>5, <2>1
  <2>2. CASE op = "delete"
    BY <1>4, <2>2
  <2>3. CASE op = "update"
    BY <1>4, <2>3
  <2>4. CASE op = "insert"
    BY <2>4
  <2> QED BY <2>1, <2>2, <2>3, <2>4 DEF Ops
<1>7. Contract!Answer(r)
  BY <1>2, <1>3, <1>6 DEF Contract!Answer, Contract!Owns
<1>8. r \in Contract!Replies
  BY <1>2 DEF Contract!Replies, Contract!Ops, Replies, Ops
<1> QED BY <1>7, <1>8 DEF Contract!Next

\* A read is an answer: what was loaded was the caller's to see.
LEMMA ReadMaps ==
    ASSUME IInv, NEW t \in Tenants, NEW i \in Ids, NEW j \in Ids, NEW ok \in BOOLEAN,
           Loads(t, i, j, ok), UNCHANGED <<table, rows, gone>>, Reached(i, j),
           ok => /\ j \in Live
                 /\ \/ Reaches(P.gets, t, j) \/ Reaches(P.lists, t, j)
                    \/ rows[j].owner \in {t, Platform} \/ P.gets = "any"
    PROVE  Contract!Next
<1>1. TypeOK /\ Sound(table.name, table.backend, P)
  BY PolicySound DEF IInv
<1>2. ASSUME Reaches(P.gets, t, j) \/ Reaches(P.lists, t, j)
      PROVE  rows[j].owner \in {t, Platform} \/ t = Platform \/ P.gets = "any"
  BY <1>1, <1>2 DEF Reaches, Sound
<1>3. Answers("get", t, i, ok) /\ "get" \in Ops
  BY DEF Loads, Ops
<1> QED BY <1>1, <1>2, <1>3, AnswerMaps

\* An accepted insert is the contract's; a refused one is an answer.
LEMMA InsertMaps ==
    ASSUME IInv, NEW t \in Tenants, NEW i \in Ids, NEW k \in Keys, Insert(t, i, k)
    PROVE  Contract!Next
<1>1. TypeOK /\ UNCHANGED <<table, gone>> /\ rows[i] = None /\ gone[i] = None
  BY DEF IInv, Insert
<1>2. CASE Taken(t, k)
  <2>1. Answers("insert", t, i, FALSE) /\ UNCHANGED rows
    BY <1>2 DEF Insert
  <2> QED BY <1>1, <2>1, AnswerMaps DEF Ops
<1>3. CASE ~ Taken(t, k)
  <2>1. rows' = [rows EXCEPT ![i] = [owner |-> t, key |-> k, val |-> 0]]
        /\ Answers("insert", t, i, TRUE)
    BY <1>3 DEF Insert
  <2>2. P' = P
    BY <1>1 DEF P
  <2>3. Contract!Insert(t, i, k, 0)
    BY <1>1, <2>1, <2>2 DEF Contract!Insert, Answers
  <2>4. 0 \in Vals
    BY StoresAssumption DEF Vals
  <2> QED BY <2>3, <2>4 DEF Contract!Next
<1> QED BY <1>2, <1>3

\* Writing a stale copy back is an update that keeps the row's owner and key, or
\* misses a row that is gone for good.
LEMMA UpdateMaps ==
    ASSUME IInv, NEW t \in Tenants, NEW v \in Vals, Update(t, v)
    PROVE  Contract!Next
<1>1. TypeOK /\ UNCHANGED <<table, gone>> /\ copy[t] /= None
  BY DEF IInv, Update
<1>2. PICK i \in Ids, j \in Ids : i = copy[t].id /\ j = Target(i)
  BY <1>1, TargetIs DEF TypeOK, Copy, IInv
<1>3. /\ Reached(i, j)
      /\ j \notin Live => \A m \in Live : ~ Reached(i, m)
      /\ i \in Live => j = i
  BY <1>2, TargetIs DEF IInv
<1>4. CASE j \in Live
  <2>1. [copy[t].row EXCEPT !.val = v] = [rows[j] EXCEPT !.val = v]
    BY <1>1, <1>2, <1>4, UpdateRow
  <2>2. rows' = [rows EXCEPT ![j] = [rows[j] EXCEPT !.val = v]] /\ Answers("update", t, i, TRUE)
    BY <2>1, <1>2, <1>4 DEF Update
  <2>3. P' = P /\ UNCHANGED table.name
    BY <1>1 DEF P
  <2>4. Contract!Lands(i, j)
    BY <1>1, <1>3, <1>4, LandsIs
  <2>5. Contract!Update(t, i, j, v)
    BY <1>1, <2>2, <2>3, <2>4 DEF Contract!Update, Answers
  <2> QED BY <2>5 DEF Contract!Next
<1>5. CASE j \notin Live
  <2>1. PICK ok \in BOOLEAN : ok = (P.update = "silent")
    OBVIOUS
  <2>2. Answers("update", t, i, ok) /\ UNCHANGED rows
    BY <2>1, <1>2, <1>5 DEF Update
  <2>3. gone[i] /= None
    <3>1. rows[i] = None
      BY <1>3, <1>5 DEF Live
    <3>2. gone[i] = Tag(copy[t].row) /\ copy[t].row \in Row
      BY <1>1, <1>2, <3>1 DEF IInv, CopyTied, TypeOK, Copy
    <3> QED BY <3>2, TagIs
  <2> QED BY <1>1, <1>3, <1>5, <2>2, <2>3, AnswerMaps DEF Ops
<1> QED BY <1>4, <1>5

\* A delete takes a row its caller owns, or answers that there is none.
LEMMA DeleteMaps ==
    ASSUME IInv, NEW t \in Tenants, NEW i \in Ids, Delete(t, i)
    PROVE  Contract!Next
<1>1. TypeOK /\ UNCHANGED table /\ Sound(table.name, table.backend, P)
  BY PolicySound DEF IInv, Delete
<1>2. PICK j \in Ids : j = Target(i)
  BY TargetIs DEF IInv
<1>3. Reached(i, j) /\ (j /= i => table.name = "secrets")
  BY <1>2, TargetIs DEF IInv
<1>4. CASE j \in Live /\ Reaches(P.deletes, t, j)
  <2>1. /\ rows' = [rows EXCEPT ![j] = None]
        /\ gone' = [gone EXCEPT ![j] = Tag(rows[j])]
        /\ Answers("delete", t, i, TRUE)
    BY <1>2, <1>4 DEF Delete
  <2>2. P' = P /\ UNCHANGED table.name
    BY <1>1 DEF P
  <2>3. rows[j].owner = t \/ t = Platform \/ P.gets = "any"
    BY <1>1, <1>4 DEF Reaches, Sound
  <2>4. Contract!Lands(i, j)
    BY <1>1, <1>3, <1>4, LandsIs
  <2>5. Contract!Delete(t, i, j)
    BY <2>1, <2>2, <2>3, <2>4 DEF Contract!Delete, Contract!Owns, Contract!Tag, Tag, Answers
  <2> QED BY <2>5 DEF Contract!Next
<1>5. CASE ~ (j \in Live /\ Reaches(P.deletes, t, j))
  <2>1. PICK ok \in BOOLEAN : ok = (P.delete = "silent")
    OBVIOUS
  <2>2. Answers("delete", t, i, ok) /\ UNCHANGED <<rows, gone>>
    BY <2>1, <1>2, <1>5 DEF Delete
  <2>3. ok => table.name /= "secrets"
    BY <1>1, <2>1 DEF Sound
  <2>4. ok => \A m \in Live : Reached(i, m) => rows[m].owner /= t
    BY <1>1, <1>3, <1>5, <2>3 DEF Reaches, Sound, Reached
  <2> QED BY <1>1, <2>2, <2>4, AnswerMaps DEF Ops
<1> QED BY <1>4, <1>5

\* The lookup by key through two transactions: the first is invisible, the
\* second is a read.
LEMMA LookupMaps ==
    ASSUME IInv, NEW t \in Tenants, (\E k \in Keys : FindKey(t, k)) \/ ReadFound(t)
    PROVE  Contract!Next \/ UNCHANGED Contract!vars
<1>1. CASE \E k \in Keys : FindKey(t, k)
  <2>1. UNCHANGED <<table, rows, gone, reply>>
    BY <1>1 DEF FindKey
  <2> QED BY <2>1 DEF Contract!vars, P
<1>2. CASE ReadFound(t)
  <2>1. PICK i \in Ids : i = found[t] /\ i /= None
    BY <1>2 DEF IInv, TypeOK, ReadFound
  <2>2. PICK ok \in BOOLEAN : ok <=> i \in Live
    OBVIOUS
  <2>3. Loads(t, i, i, ok) /\ UNCHANGED <<table, rows, gone>> /\ Reached(i, i)
    BY <1>2, <2>1, <2>2 DEF ReadFound, Loads, Answers, Reached
  <2>4. i \in Live => rows[i].owner \in {t, Platform} \/ P.gets = "any"
    BY <2>1 DEF IInv, FoundTied, GoneForGood, Live
  <2> QED BY <2>2, <2>3, <2>4, ReadMaps
<1> QED BY <1>1, <1>2

\* Every step of a backend is a step of the contract, or invisible to it.
LEMMA StepMaps == ASSUME IInv, [Next]_vars PROVE [Contract!Next]_(Contract!vars)
<1>1. CASE Next
  <2>1. PICK t \in Tenants :
          \/ \E i \in Ids : \/ \E k \in Keys : Insert(t, i, k)
                            \/ Get(t, i) \/ List(t, i) \/ Delete(t, i)
                            \/ \E op \in Ops : Unavailable(t, op, i)
          \/ \E k \in Keys : FindKey(t, k)
          \/ ReadFound(t)
          \/ \E v \in Vals : Update(t, v)
    BY <1>1 DEF Next
  <2>2. ASSUME NEW i \in Ids, Get(t, i) PROVE Contract!Next
    <3>1. PICK j \in Ids : j = Target(i) /\ Reached(i, j)
      BY TargetIs DEF IInv
    <3>2. PICK ok \in BOOLEAN : ok <=> j \in Live /\ Reaches(P.gets, t, j)
      OBVIOUS
    <3>3. Loads(t, i, j, ok) /\ UNCHANGED <<table, rows, gone>>
      BY <2>2, <3>1, <3>2 DEF Get, Loads, Answers
    <3> QED BY <3>1, <3>2, <3>3, ReadMaps
  <2>3. ASSUME NEW i \in Ids, List(t, i) PROVE Contract!Next
    BY <2>3, ReadMaps DEF List, Reached
  <2>4. ASSUME NEW i \in Ids, NEW op \in Ops, Unavailable(t, op, i) PROVE Contract!Next
    BY <2>4, AnswerMaps DEF Unavailable, IInv
  <2> QED BY <2>1, <2>2, <2>3, <2>4, InsertMaps, UpdateMaps, DeleteMaps, LookupMaps
<1>2. CASE UNCHANGED vars
  BY <1>2 DEF vars, Contract!vars, P
<1> QED BY <1>1, <1>2

\* For every table of every backend, any tenants, identifiers and keys, and
\* copies however stale: the backend implements RecordStore.
THEOREM EveryBackendKeepsTheContract == Spec => ImplementsContract
<1>1. Init => Contract!Init
  BY DEF Init, Contract!Init
<1>2. IInv /\ [Next]_vars => [Contract!Next]_(Contract!vars)
  BY StepMaps
<1> QED BY <1>1, <1>2, Invariance, PTL DEF Spec, ImplementsContract, Contract!Spec
=============================================================================
