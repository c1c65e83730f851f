--------------------------- MODULE StorePolicies ---------------------------
(***************************************************************************)
(* What each of the five storage backends (src/store) does with each of    *)
(* the tables the services keep.  Every backend implements the same Go     *)
(* interfaces, so services are written against an implied contract; the    *)
(* backends differ in the points recorded here, one definition per table   *)
(* and backend, and Stores.tla runs the operations under each of them.     *)
(*                                                                         *)
(* A policy is a record:                                                   *)
(*   served   the operations work at all                                   *)
(*   unique   an insert whose business key is taken is refused             *)
(*   update, delete   on a missing row: "refuse" (ErrNotFound) or "silent" *)
(*   gets, lists, deletes   the rows a call by a tenant can reach:         *)
(*     "own", "shared" (own and the platform's), "admin" (own, and every   *)
(*     row for the platform's empty tenant), "any", "fails" (always errors)*)
(*   index    the secondary index a lookup by key reads: "none", "one"     *)
(*            (index and row in one transaction), "two" (in two)           *)
(* Paging, filters, ordering and the counters are left out.                *)
(***************************************************************************)
EXTENDS Naturals

Backends == {"memory", "badger", "mongo", "postgres", "sqlite"}

\* The tables of records that are created, changed and deleted.
Tables == {"tenants", "instances", "workloads", "deployments", "releases",
           "checks", "domains", "routes", "certificates", "secrets",
           "datacenters", "bootstraps", "templates"}

\* Tables whose rows have a business key (slug, hostname, secret key, name).
KeyedTables == {"tenants", "instances", "workloads", "domains", "secrets",
                "datacenters", "bootstraps"}

\* Keys of these tables are unique over all tenants, the others per owner.
GloballyKeyed == {"tenants", "domains"}

Reach == {"own", "shared", "admin", "any", "fails"}

PolicyType ==
    [served: BOOLEAN, unique: BOOLEAN, update: {"refuse", "silent"},
     delete: {"refuse", "silent"}, gets: Reach, lists: Reach, deletes: Reach,
     index: {"none", "one", "two"}]

\* What most tables do; the operators below state the departures from it.
Plain == [served |-> TRUE, unique |-> FALSE, update |-> "refuse",
          delete |-> "refuse", gets |-> "own", lists |-> "own",
          deletes |-> "own", index |-> "none"]

Unserved == [Plain EXCEPT !.served = FALSE]
Global == [Plain EXCEPT !.gets = "any", !.lists = "any", !.deletes = "any"]
SharedReads == [Plain EXCEPT !.gets = "shared", !.lists = "shared"]
AdminReads == [Plain EXCEPT !.gets = "admin", !.lists = "admin"]
AdminReach == [AdminReads EXCEPT !.deletes = "admin"]
AdminLists == [Plain EXCEPT !.lists = "admin"]
NoLists == [Plain EXCEPT !.lists = "fails"]

Keyed(p) == [p EXCEPT !.unique = TRUE]
Idempotent(p) == [p EXCEPT !.delete = "silent"]
Silent(p) == [p EXCEPT !.update = "silent", !.delete = "silent"]
Indexed(p, how) == [p EXCEPT !.index = how]

(* The memory store: maps under one mutex. *)
MemoryTenants == Keyed(Global)
MemoryInstances == Keyed(Plain)
MemoryWorkloads == Keyed(AdminReach)
MemoryDeployments == Plain
MemoryReleases == Plain
MemoryChecks == Plain
MemoryDomains == Plain
MemoryRoutes == Plain
MemoryCertificates == Plain
MemorySecrets == Keyed(Plain)
\* Mutant of MemoryDatacenters: Delete goes by the visibility of Get.
MemoryDatacentersDeleteVisible ==
    [Keyed(SharedReads) EXCEPT !.deletes = "shared"]

MemoryDatacenters == Keyed(SharedReads)
MemoryBootstraps == Idempotent(Keyed(Global))
MemoryTemplates == Plain

(* The badger store: JSON documents in serializable transactions, with secondary
   keys for the slugs and names; it serves no workloads. *)
BadgerTenants == Indexed(Keyed(Global), "one")
BadgerInstances == Indexed(Keyed(Plain), "one")
BadgerWorkloads == Unserved
BadgerDeployments == Plain
BadgerReleases == Plain
BadgerChecks == Plain
BadgerDomains == Plain
BadgerRoutes == Plain
BadgerCertificates == Plain
BadgerSecrets == Keyed(Plain)
BadgerDatacenters == Indexed(Keyed(SharedReads), "two")
BadgerBootstraps == Indexed(Idempotent(Keyed(Global)), "two")
BadgerTemplates == Plain

(* The mongo store: its unique indexes are those of migrationIndexes. *)
MongoTenants == Keyed(Global)
MongoInstances == Keyed(AdminReads)
MongoWorkloads == Silent(AdminReach)
MongoDeployments == AdminLists
MongoReleases == Plain
MongoChecks == Plain
MongoDomains == Keyed(Plain)
MongoRoutes == Plain
MongoCertificates == Plain
MongoSecrets == Keyed(Plain)
\* Mutant of MongoDatacenters: the unique index is missing.
MongoDatacentersNoIndex == Silent(SharedReads)

MongoDatacenters == Silent(Keyed(SharedReads))
MongoBootstraps == Silent(Keyed(Global))
MongoTemplates == Plain

(* The postgres store: its unique columns are those of its migrations. *)
PostgresTenants == Keyed(Global)
PostgresInstances == Plain
PostgresWorkloads == Silent(AdminReach)
PostgresDeployments == Plain
PostgresReleases == Plain
PostgresChecks == Plain
PostgresDomains == Keyed(Plain)
PostgresRoutes == Plain
PostgresCertificates == Plain
PostgresSecrets == Keyed(Plain)
PostgresDatacenters == Silent(Keyed(SharedReads))
PostgresBootstraps == Silent(Keyed(Global))
PostgresTemplates == Plain

(* The sqlite store: its migrations create neither cp_workloads nor
   cp_datacenters, and the one that alters cp_datacenters (line 636) fails
   before cp_bootstrap_workloads is created. *)
SqliteTenants == Keyed(Global)
SqliteInstances == Plain
SqliteWorkloads == Unserved
SqliteDeployments == Plain
SqliteReleases == Plain
SqliteChecks == Plain
SqliteDomains == Keyed(Plain)
SqliteRoutes == Plain
SqliteCertificates == NoLists
SqliteSecrets == Keyed(Plain)
SqliteDatacenters == Unserved
SqliteBootstraps == Unserved
SqliteTemplates == Plain

MemoryPolicy ==
    [tenants |-> MemoryTenants, instances |-> MemoryInstances,
     workloads |-> MemoryWorkloads, deployments |-> MemoryDeployments,
     releases |-> MemoryReleases, checks |-> MemoryChecks,
     domains |-> MemoryDomains, routes |-> MemoryRoutes,
     certificates |-> MemoryCertificates, secrets |-> MemorySecrets,
     datacenters |-> MemoryDatacenters, bootstraps |-> MemoryBootstraps,
     templates |-> MemoryTemplates]
BadgerPolicy ==
    [tenants |-> BadgerTenants, instances |-> BadgerInstances,
     workloads |-> BadgerWorkloads, deployments |-> BadgerDeployments,
     releases |-> BadgerReleases, checks |-> BadgerChecks,
     domains |-> BadgerDomains, routes |-> BadgerRoutes,
     certificates |-> BadgerCertificates, secrets |-> BadgerSecrets,
     datacenters |-> BadgerDatacenters, bootstraps |-> BadgerBootstraps,
     templates |-> BadgerTemplates]
MongoPolicy ==
    [tenants |-> MongoTenants, instances |-> MongoInstances,
     workloads |-> MongoWorkloads, deployments |-> MongoDeployments,
     releases |-> MongoReleases, checks |-> MongoChecks,
     domains |-> MongoDomains, routes |-> MongoRoutes,
     certificates |-> MongoCertificates, secrets |-> MongoSecrets,
     datacenters |-> MongoDatacenters, bootstraps |-> MongoBootstraps,
     templates |-> MongoTemplates]
PostgresPolicy ==
    [tenants |-> PostgresTenants, instances |-> PostgresInstances,
     workloads |-> PostgresWorkloads, deployments |-> PostgresDeployments,
     releases |-> PostgresReleases, checks |-> PostgresChecks,
     domains |-> PostgresDomains, routes |-> PostgresRoutes,
     certificates |-> PostgresCertificates, secrets |-> PostgresSecrets,
     datacenters |-> PostgresDatacenters, bootstraps |-> PostgresBootstraps,
     templates |-> PostgresTemplates]
SqlitePolicy ==
    [tenants |-> SqliteTenants, instances |-> SqliteInstances,
     workloads |-> SqliteWorkloads, deployments |-> SqliteDeployments,
     releases |-> SqliteReleases, checks |-> SqliteChecks,
     domains |-> SqliteDomains, routes |-> SqliteRoutes,
     certificates |-> SqliteCertificates, secrets |-> SqliteSecrets,
     datacenters |-> SqliteDatacenters, bootstraps |-> SqliteBootstraps,
     templates |-> SqliteTemplates]

PolicyOf ==
    [memory |-> MemoryPolicy, badger |-> BadgerPolicy, mongo |-> MongoPolicy,
     postgres |-> PostgresPolicy, sqlite |-> SqlitePolicy]
=============================================================================
