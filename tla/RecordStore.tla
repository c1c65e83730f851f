---------------------------- MODULE RecordStore ----------------------------
(***************************************************************************)
(* What the services take a table of records to be, whichever backend      *)
(* keeps it: an identifier is used once, a record keeps its owner and its  *)
(* business key for as long as it lives, and a call changes the record it  *)
(* means or none.  Two things are weaker than a reader may expect, and     *)
(* stated here as they are.  A table may be addressed by business key, and *)
(* then a call that means a deleted record lands on the record that has    *)
(* its owner and key now.  And an update of a record that is gone may be   *)
(* acknowledged.  Stores.tla is shown to implement this for every table    *)
(* of every backend.                                                       *)
(***************************************************************************)
CONSTANTS Ids, Tenants, Keys, Vals, Platform, None

VARIABLES open,    \* a table of the platform's own, not divided by tenant
          byKey,   \* a table whose calls name a record by owner and key
          rows,
          gone,    \* id -> None, or the owner and key of the deleted record
          reply

vars == <<open, byKey, rows, gone, reply>>

Rows == [owner: Tenants, key: Keys, val: Vals]
Ops == {"insert", "get", "update", "delete"}
Replies == [op: Ops, by: Tenants, id: Ids, ok: BOOLEAN]

\* The caller's own rows; all rows for the platform and in an open table.
Owns(t, i) == rows[i].owner = t \/ t = Platform \/ open

Tag(r) == [owner |-> r.owner, key |-> r.key]

\* A call that means record i changes or reads record j.
Lands(i, j) ==
    /\ rows[j] /= None
    /\ i = j \/ (byKey /\ gone[i] /= None /\ gone[i] = Tag(rows[j]))

Init == /\ open \in BOOLEAN
        /\ byKey \in BOOLEAN
        /\ rows = [i \in Ids |-> None]
        /\ gone = [i \in Ids |-> None]
        /\ reply = None

\* A record is added for the caller; its identifier was never used before.
Insert(t, i, k, v) ==
    /\ rows[i] = None
    /\ gone[i] = None
    /\ rows' = [rows EXCEPT ![i] = [owner |-> t, key |-> k, val |-> v]]
    /\ reply' = [op |-> "insert", by |-> t, id |-> i, ok |-> TRUE]
    /\ UNCHANGED <<open, byKey, gone>>

\* A live record takes a new value and keeps its owner and its key.
Update(t, i, j, v) ==
    /\ Lands(i, j)
    /\ rows' = [rows EXCEPT ![j] = [rows[j] EXCEPT !.val = v]]
    /\ reply' = [op |-> "update", by |-> t, id |-> i, ok |-> TRUE]
    /\ UNCHANGED <<open, byKey, gone>>

\* A record of the caller's goes for good.
Delete(t, i, j) ==
    /\ Lands(i, j)
    /\ Owns(t, j)
    /\ rows' = [rows EXCEPT ![j] = None]
    /\ gone' = [gone EXCEPT ![j] = Tag(rows[j])]
    /\ reply' = [op |-> "delete", by |-> t, id |-> i, ok |-> TRUE]
    /\ UNCHANGED <<open, byKey>>

\* A call that changes nothing.  It may fail; when it succeeds, a get saw a
\* record of the caller's or the platform's, a delete leaves the caller without
\* it, an update missed a record that is gone for good, and an insert never
\* succeeds this way.
Answer(r) ==
    /\ r.ok => \/ /\ r.op = "get"
                  /\ \E j \in Ids : /\ Lands(r.id, j)
                                    /\ Owns(r.by, j) \/ rows[j].owner = Platform
               \/ /\ r.op = "delete"
                  /\ \A j \in Ids : Lands(r.id, j) => rows[j].owner /= r.by
               \/ /\ r.op = "update"
                  /\ gone[r.id] /= None
                  /\ \A j \in Ids : ~ Lands(r.id, j)
    /\ reply' = r
    /\ UNCHANGED <<open, byKey, rows, gone>>

Next == \/ \E t \in Tenants, i \in Ids :
             \/ \E k \in Keys, v \in Vals : Insert(t, i, k, v)
             \/ \E j \in Ids, v \in Vals : Update(t, i, j, v)
             \/ \E j \in Ids : Delete(t, i, j)
        \/ \E r \in Replies : Answer(r)

Spec == Init /\ [][Next]_vars
=============================================================================
