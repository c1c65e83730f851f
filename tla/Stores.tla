------------------------------- MODULE Stores -------------------------------
(***************************************************************************)
(* The operations of a storage backend on one of its tables, run by one    *)
(* client per tenant.  The table and the backend are chosen in the initial *)
(* state and never change; StorePolicies says what they do differently.    *)
(* A service reads a row, changes its copy and writes the copy back, with  *)
(* no version check in between, so a client keeps the copy it loaded while *)
(* the others go on.  Every backend call is one atomic step, except the    *)
(* lookups by key of badger's datacenters and bootstraps, which read the   *)
(* index and the row in two transactions.                                  *)
(*                                                                         *)
(* A secret is named by its instance and key in every call of every        *)
(* backend, never by its identifier, which no call takes and this model    *)
(* leaves out: there, an identifier stands for one incarnation of a row,   *)
(* and a call that means a deleted one hits the row that took its key.     *)
(***************************************************************************)
EXTENDS StorePolicies, FiniteSets

CONSTANTS Ids,        \* identifiers (TypeIDs, never drawn twice)
          Keys,       \* business keys
          Tenants,    \* one client each
          Platform,   \* the empty tenant of the platform's own rows and calls
          MaxVal,     \* bounds the updates of a row
          None

ASSUME StoresAssumption == /\ Platform \in Tenants
                           /\ MaxVal \in Nat
                           /\ None \notin Ids

VARIABLES table,   \* the backend and the table under test
          rows,    \* id -> row or None
          gone,    \* id -> None, or the owner and key of the deleted row
          index,   \* badger's secondary keys: key -> id or None, per owner
          copy,    \* per client: the row it loaded last
          found,   \* per client: the id an index lookup returned
          reply    \* the last acknowledgement

vars == <<table, rows, gone, index, copy, found, reply>>

Vals == 0..MaxVal
Row == [owner: Tenants, key: Keys, val: Vals]
Tags == [owner: Tenants, key: Keys]
Copy == [id: Ids, row: Row]
Ops == {"insert", "get", "update", "delete"}
Replies == [op: Ops, by: Tenants, id: Ids, ok: BOOLEAN]

ASSUME NoneAssumption ==
    /\ None \notin Row
    /\ None \notin Copy
    /\ None \notin Tags

P == PolicyOf[table.backend][table.name]

\* Rows of the globally keyed tables share one key space.
Space(t) == IF table.name \in GloballyKeyed THEN Platform ELSE t

Live == {i \in Ids : rows[i] /= None}

Tag(r) == [owner |-> r.owner, key |-> r.key]

\* The row a call that means row i reaches.
Target(i) ==
    LET heirs == {j \in Live : Tag(rows[j]) = gone[i]}
    IN IF table.name = "secrets" /\ heirs /= {} THEN CHOOSE j \in heirs : TRUE
                                                ELSE i

Reaches(reach, t, i) ==
    \/ reach = "any"
    \/ reach \in {"own", "shared", "admin"} /\ rows[i].owner = t
    \/ reach = "shared" /\ rows[i].owner = Platform
    \/ reach = "admin" /\ t = Platform

Answers(op, t, i, ok) ==
    reply' = [op |-> op, by |-> t, id |-> i, ok |-> ok]

Init ==
    /\ table \in [backend: Backends, name: Tables]
    /\ rows = [i \in Ids |-> None]
    /\ gone = [i \in Ids |-> None]
    /\ index = [t \in Tenants |-> [k \in Keys |-> None]]
    /\ copy = [t \in Tenants |-> None]
    /\ found = [t \in Tenants |-> None]
    /\ reply = None

\* The operations of a backend that does not serve the table.
Unavailable(t, op, i) ==
    /\ ~ P.served
    /\ Answers(op, t, i, FALSE)
    /\ UNCHANGED <<table, rows, gone, index, copy, found>>

\* Taken business keys: read from the secondary index where there is one.
Taken(t, k) ==
    /\ P.unique
    /\ IF P.index = "none"
       THEN \E j \in Live : Space(rows[j].owner) = Space(t) /\ rows[j].key = k
       ELSE index[Space(t)][k] /= None

\* The secondary key of a row, kept by insert and delete; updates leave it.
IndexRow(t, k, i) ==
    index' = IF P.index = "none" THEN index ELSE [index EXCEPT ![Space(t)][k] = i]

\* Mutant of UnindexRow: a delete leaves the secondary key.
UnindexRowLeaves(i) == index' = index

UnindexRow(i) == IndexRow(rows[i].owner, rows[i].key, None)

Insert(t, i, k) ==
    /\ P.served
    /\ rows[i] = None
    /\ gone[i] = None
    /\ IF Taken(t, k)
       THEN /\ Answers("insert", t, i, FALSE)
            /\ UNCHANGED <<rows, index>>
       ELSE /\ rows' = [rows EXCEPT ![i] =
                  [owner |-> t, key |-> k, val |-> 0]]
            /\ IndexRow(t, k, i)
            /\ Answers("insert", t, i, TRUE)
    /\ UNCHANGED <<table, gone, copy, found>>

\* The row a client may see, copied out of the store.
Loads(t, i, j, ok) ==
    /\ copy' = [copy EXCEPT ![t] = IF ok THEN [id |-> j, row |-> rows[j]]
                                         ELSE copy[t]]
    /\ Answers("get", t, i, ok)

Get(t, i) ==
    /\ P.served
    /\ LET j == Target(i)
       IN Loads(t, i, j, j \in Live /\ Reaches(P.gets, t, j))
    /\ UNCHANGED <<table, rows, gone, index, found>>

\* One row of a listing; an unreachable one is left out.
List(t, i) ==
    /\ P.served
    /\ i \in Live
    /\ Reaches(P.lists, t, i)
    /\ Loads(t, i, i, TRUE)
    /\ UNCHANGED <<table, rows, gone, index, found>>

\* First transaction of a lookup by key that takes two.
FindKey(t, k) ==
    /\ P.served
    /\ P.index = "two"
    /\ LET own == index[Space(t)][k]
       IN found' = [found EXCEPT ![t] =
              IF own = None /\ P.gets = "shared" THEN index[Platform][k]
                                                 ELSE own]
    /\ UNCHANGED <<table, rows, gone, index, copy, reply>>

\* Second transaction: the row may have gone in between.
ReadFound(t) ==
    /\ found[t] /= None
    /\ Loads(t, found[t], found[t], found[t] \in Live)
    /\ found' = [found EXCEPT ![t] = None]
    /\ UNCHANGED <<table, rows, gone, index>>

\* The client's copy, with its change, replaces the row.
Update(t, v) ==
    /\ P.served
    /\ copy[t] /= None
    /\ table.name /= "releases"
    /\ LET i == copy[t].id
           j == Target(i)
       IN \/ /\ j \in Live
             /\ rows' = [rows EXCEPT ![j] = [copy[t].row EXCEPT !.val = v]]
             /\ Answers("update", t, i, TRUE)
          \/ /\ j \notin Live
             /\ Answers("update", t, i, P.update = "silent")
             /\ UNCHANGED rows
    /\ UNCHANGED <<table, gone, index, copy, found>>

Delete(t, i) ==
    /\ P.served
    /\ table.name \notin {"deployments", "releases"}
    /\ LET j == Target(i)
       IN IF j \in Live /\ Reaches(P.deletes, t, j)
          THEN /\ rows' = [rows EXCEPT ![j] = None]
               /\ gone' = [gone EXCEPT ![j] = Tag(rows[j])]
               /\ UnindexRow(j)
               /\ Answers("delete", t, i, TRUE)
          ELSE /\ Answers("delete", t, i, P.delete = "silent")
               /\ UNCHANGED <<rows, gone, index>>
    /\ UNCHANGED <<table, copy, found>>

Next ==
    \E t \in Tenants :
        \/ \E i \in Ids : \/ \E k \in Keys : Insert(t, i, k)
                          \/ Get(t, i)
                          \/ List(t, i)
                          \/ Delete(t, i)
                          \/ \E op \in Ops : Unavailable(t, op, i)
        \/ \E k \in Keys : FindKey(t, k)
        \/ ReadFound(t)
        \/ \E v \in Vals : Update(t, v)

Spec == Init /\ [][Next]_vars

-----------------------------------------------------------------------------
(* Every variable stays in its type. *)
TypeOK ==
    /\ table \in [backend: Backends, name: Tables]
    /\ rows \in [Ids -> Row \cup {None}]
    /\ gone \in [Ids -> Tags \cup {None}]
    /\ index \in [Tenants -> [Keys -> Ids \cup {None}]]
    /\ copy \in [Tenants -> Copy \cup {None}]
    /\ found \in [Tenants -> Ids \cup {None}]
    /\ reply \in Replies \cup {None}

\* The keyed tables in which a backend lets two rows have the same key: the
\* services' own lookup before the insert is all that guards them.
Unguarded ==
    {<<"memory", "domains">>, <<"badger", "domains">>,
     <<"mongo", "workloads">>, <<"postgres", "workloads">>,
     <<"postgres", "instances">>, <<"sqlite", "instances">>}

(* Two creators racing past the services' own check never end with the same
   slug, hostname, secret key or bootstrap name twice in one tenant, outside
   the tables listed as unguarded: the store refuses the second insert. *)
KeysUnique ==
    (table.name \in KeyedTables /\ <<table.backend, table.name>> \notin Unguarded)
        => \A i, j \in Live :
              /\ rows[i].key = rows[j].key
              /\ Space(rows[i].owner) = Space(rows[j].owner)
              => i = j

(* Badger's secondary keys and rows say the same: a key leads to the one row
   that has it, through any interleaving of inserts, stale updates and deletes,
   so a deleted row's slug is free again and a live row is always found. *)
IndexExact ==
    (P.served /\ P.index /= "none")
        => \A t \in Tenants, k \in Keys, i \in Ids :
              index[t][k] = i <=> /\ i \in Live
                                  /\ Space(rows[i].owner) = t
                                  /\ rows[i].key = k

-----------------------------------------------------------------------------
Contract == INSTANCE RecordStore
            WITH open <- P.gets = "any", byKey <- table.name = "secrets"

(* Whatever the backend, the table behaves as RecordStore says: a tenant reads
   and deletes nothing of another tenant's, no stale update brings a deleted row
   back or moves a row to another owner or key, and nothing changes behind a
   refusal.  A stale write or delete means the row its caller loaded; only a
   secret's hits another row, and then the one that has the same owner, instance
   and key.  Two calls are acknowledged that did nothing: the update of a row that
   is gone (mongo's and postgres' workloads, datacenters and bootstraps), and the
   delete of a row that is gone or not the caller's. *)
ImplementsContract == Contract!Spec
=============================================================================
