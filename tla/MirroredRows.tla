---------------------------- MODULE MirroredRows ----------------------------
(***************************************************************************)
(* Services that write a row of the store and its counterpart elsewhere,   *)
(* one after the other with nothing to undo the first: secrets.service     *)
(* (a secret and its value in the vault; the vault first) and              *)
(* network.service (routes and domains, and what the router serves; the    *)
(* row first).  One row and the calls about it: a secret's key may be set  *)
(* again after a Delete, the ID of a route or domain is used once.         *)
(***************************************************************************)
EXTENDS Naturals

CONSTANTS
    Contents,       \* what a route says, or the value of a secret
    None,           \* no row, or nothing outside
    Blank,          \* a row whose content its counterpart does not repeat
    Callers,
    Certs,          \* IDs of the certificates a domain may be issued
    MaxMishaps      \* bound on failures and reboots together

ASSUME MirrorAssumption ==
    /\ None \notin Contents
    /\ Blank \in Contents
    /\ None \notin Certs
    /\ MaxMishaps \in Nat

VARIABLES
    kind,           \* of the row: it does not change
    row,            \* the store's
    outside,        \* the vault's value, or what the router serves
    born,           \* a route or domain with this ID was inserted
    router,         \* SetRouter was called
    issued,         \* certificates the router issued
    recorded,       \* those the store has a row of
    call,           \* each caller's verb in flight
    cutShort,       \* history: a call ended between its two writes
    crossed,        \* history: calls that undo each other overlapped
    unrouted,       \* history: a call found no router
    gone,           \* history: the last call that wrote was a successful removal
    settled,        \* history: the last call to begin ran alone, routed, with success
    mishaps

vars == <<kind, row, outside, born, router, issued, recorded, call,
          cutShort, crossed, unrouted, gone, settled, mishaps>>

tables == <<kind, row, outside, born, router, issued, recorded>>

history == <<cutShort, crossed, unrouted, gone, settled>>

Kinds == {"secret", "route", "domain"}

Verbs == {"Set", "Delete", "Add", "Update", "Remove", "Verify", "ProvisionCert"}

Calls == [verb : Verbs \cup {"none"},
          at : {"idle", "vault", "row", "router", "issue", "record"},
          value : Contents, found : BOOLEAN, cert : Certs \cup {None}, alone : BOOLEAN]

Idle == [verb |-> "none", at |-> "idle", value |-> Blank, found |-> FALSE, cert |-> None,
         alone |-> TRUE]

TypeOK ==
    /\ kind \in Kinds
    /\ row \in Contents \cup {None}
    /\ outside \in Contents \cup {None}
    /\ {born, router, cutShort, crossed, unrouted, gone, settled} \subseteq BOOLEAN
    /\ issued \subseteq Certs /\ recorded \subseteq Certs
    /\ call \in [Callers -> Calls]
    /\ mishaps \in Nat

Init ==
    /\ kind \in Kinds
    /\ row = None /\ outside = None
    /\ born = FALSE /\ router = FALSE
    /\ issued = {} /\ recorded = {}
    /\ call = [c \in Callers |-> Idle]
    /\ cutShort = FALSE /\ crossed = FALSE /\ unrouted = FALSE
    /\ gone = FALSE /\ settled = FALSE
    /\ mishaps = 0

-----------------------------------------------------------------------------
(* Steps the verbs share.                                                  *)

Mishap == mishaps < MaxMishaps /\ mishaps' = mishaps + 1

\* Pairs of verbs that may undo each other when they overlap.
Clashes == {{"Set", "Delete"}, {"Add", "Update"}, {"Add", "Remove"},
            {"Update"}, {"Update", "Remove"}}

Busy == {d \in Callers : call[d] # Idle}

Enter(c, verb, at, value, found) ==
    /\ call[c] = Idle
    /\ call' = [d \in Callers |->
                   IF d = c THEN [verb |-> verb, at |-> at, value |-> value, found |-> found,
                                  cert |-> None, alone |-> Busy = {}]
                   ELSE IF d \in Busy THEN [call[d] EXCEPT !.alone = FALSE] ELSE Idle]
    /\ crossed' = (crossed \/ \E d \in Busy : {verb, call[d].verb} \in Clashes)
    /\ gone' = (gone /\ verb \notin {"Set", "Add"})
    /\ settled' = FALSE
    /\ UNCHANGED <<cutShort, unrouted>>

Proceed(c, at) ==
    /\ call' = [call EXCEPT ![c].at = at]
    /\ UNCHANGED history /\ mishaps' = mishaps

Succeed(c) ==
    /\ call' = [call EXCEPT ![c] = Idle]
    /\ settled' = (call[c].alone /\ call[c].verb \notin {"Verify", "ProvisionCert"})
    /\ gone' = (gone \/ call[c].verb \in {"Delete", "Remove"})
    /\ UNCHANGED <<cutShort, crossed, unrouted>> /\ mishaps' = mishaps

\* An error that nothing unusual caused: the call ends.
Refuse(c) ==
    /\ call' = [call EXCEPT ![c] = Idle]
    /\ UNCHANGED history /\ mishaps' = mishaps

\* A call to the store, vault or router that fails, or is cancelled.
Fail(c, halfway) ==
    /\ Mishap
    /\ call' = [call EXCEPT ![c] = Idle]
    /\ cutShort' = (cutShort \/ halfway)
    /\ UNCHANGED <<crossed, unrouted, gone, settled>>

\* One that fails may have taken effect.
PerhapsOutside(x) == outside' \in {outside, x}

-----------------------------------------------------------------------------
(* secrets.service                                                         *)

\* GetSecretByKey: an error counts as "there is none".
BeginSet(c, value) ==
    /\ kind = "secret"
    /\ \/ Enter(c, "Set", "vault", value, row # None) /\ mishaps' = mishaps
       \/ Enter(c, "Set", "vault", value, FALSE) /\ Mishap
    /\ UNCHANGED tables

StoreValue(c) ==
    /\ call[c].verb = "Set" /\ call[c].at = "vault"
    /\ \/ outside' = call[c].value /\ Proceed(c, "row")
       \/ PerhapsOutside(call[c].value) /\ Fail(c, outside' # outside)
    /\ UNCHANGED <<kind, row, born, router, issued, recorded>>

\* UpdateSecret refuses a row that is not there, InsertSecret one that is.
WriteSecret(c) ==
    /\ call[c].verb = "Set" /\ call[c].at = "row"
    /\ \/ call[c].found = (row # None) /\ row' = Blank /\ Succeed(c)
       \/ call[c].found # (row # None) /\ row' = row /\ Refuse(c)
       \/ row' = row /\ Fail(c, TRUE)
    /\ UNCHANGED <<kind, outside, born, router, issued, recorded>>

BeginDelete(c) ==
    /\ kind = "secret"
    /\ Enter(c, "Delete", "vault", Blank, FALSE)
    /\ UNCHANGED <<tables, mishaps>>

\* The vault refuses to delete what it does not hold.
DropValue(c) ==
    /\ call[c].verb = "Delete" /\ call[c].at = "vault"
    /\ \/ outside # None /\ outside' = None /\ Proceed(c, "row")
       \/ outside = None /\ outside' = None /\ Refuse(c)
       \/ PerhapsOutside(None) /\ Fail(c, outside' # outside)
    /\ UNCHANGED <<kind, row, born, router, issued, recorded>>

DropSecret(c) ==
    /\ call[c].verb = "Delete" /\ call[c].at = "row"
    /\ \/ row # None /\ row' = None /\ Succeed(c)
       \/ row = None /\ row' = None /\ Refuse(c)
       \/ row' = row /\ Fail(c, TRUE)
    /\ UNCHANGED <<kind, outside, born, router, issued, recorded>>

-----------------------------------------------------------------------------
(* network.service                                                         *)

\* The second write of Add, Update and Remove.  Without a router there is none.
Unrouted(c) ==
    /\ call[c].at = "router" /\ ~router
    /\ call' = [call EXCEPT ![c] = Idle]
    /\ unrouted' = TRUE
    /\ gone' = (gone \/ call[c].verb = "Remove")
    /\ UNCHANGED <<tables, cutShort, crossed, settled, mishaps>>

InsertRow(c, content) ==
    /\ ~born /\ born' = TRUE
    /\ row' = content
    /\ Enter(c, "Add", "router", content, FALSE)
    /\ UNCHANGED <<kind, outside, router, issued, recorded, mishaps>>

AddRoute(c, content) == kind = "route" /\ InsertRow(c, content)

AddDomain(c) == kind = "domain" /\ InsertRow(c, Blank)

\* Mutant of RouterAdds: the router's error is dropped, as a publish's is.
RouterAddsOrNot(c) ==
    /\ call[c].verb = "Add" /\ call[c].at = "router" /\ router
    /\ \/ outside' = call[c].value /\ Succeed(c)
       \/ PerhapsOutside(call[c].value) /\ Mishap /\ call' = [call EXCEPT ![c] = Idle]
          /\ UNCHANGED history
    /\ UNCHANGED <<kind, row, born, router, issued, recorded>>

RouterAdds(c) ==
    /\ call[c].verb = "Add" /\ call[c].at = "router" /\ router
    /\ \/ outside' = call[c].value /\ Succeed(c)
       \/ PerhapsOutside(call[c].value) /\ Fail(c, TRUE)
    /\ UNCHANGED <<kind, row, born, router, issued, recorded>>

\* GetRoute refuses a missing row, and so does UpdateRoute.
BeginUpdate(c, content) ==
    /\ kind = "route" /\ row # None
    /\ Enter(c, "Update", "row", content, TRUE)
    /\ UNCHANGED <<tables, mishaps>>

UpdateRow(c) ==
    /\ call[c].verb = "Update" /\ call[c].at = "row"
    /\ \/ row # None /\ row' = call[c].value /\ Proceed(c, "router")
       \/ row = None /\ row' = None /\ Refuse(c)
       \/ row' = row /\ Fail(c, FALSE)
    /\ UNCHANGED <<kind, outside, born, router, issued, recorded>>

\* Mutant of RouterUpdates: the router is updated only where it serves the route.
RouterUpdatesServed(c) ==
    /\ call[c].verb = "Update" /\ call[c].at = "router" /\ router
    /\ \/ outside' = (IF outside = None THEN None ELSE call[c].value) /\ Succeed(c)
       \/ PerhapsOutside(call[c].value) /\ Fail(c, TRUE)
    /\ UNCHANGED <<kind, row, born, router, issued, recorded>>

\* The router is the application's: it may accept or refuse a route it does not
\* serve.
RouterUpdates(c) ==
    /\ call[c].verb = "Update" /\ call[c].at = "router" /\ router
    /\ \/ outside' = call[c].value /\ Succeed(c)
       \/ outside = None /\ outside' = None /\ Refuse(c)
       \/ PerhapsOutside(call[c].value) /\ Fail(c, TRUE)
    /\ UNCHANGED <<kind, row, born, router, issued, recorded>>

BeginRemove(c) ==
    /\ kind # "secret" /\ row # None
    /\ Enter(c, "Remove", "row", Blank, TRUE)
    /\ UNCHANGED <<tables, mishaps>>

DropRow(c) ==
    /\ call[c].verb = "Remove" /\ call[c].at = "row"
    /\ \/ row # None /\ row' = None /\ Proceed(c, "router")
       \/ row = None /\ row' = None /\ Refuse(c)
       \/ row' = row /\ Fail(c, FALSE)
    /\ UNCHANGED <<kind, outside, born, router, issued, recorded>>

\* Mutant of RouterRemoves: the router's error is dropped.
RouterRemovesOrNot(c) ==
    /\ call[c].verb = "Remove" /\ call[c].at = "router" /\ router
    /\ PerhapsOutside(None) /\ Succeed(c)
    /\ UNCHANGED <<kind, row, born, router, issued, recorded>>

RouterRemoves(c) ==
    /\ call[c].verb = "Remove" /\ call[c].at = "router" /\ router
    /\ \/ outside' = None /\ Succeed(c)
       \/ outside = None /\ outside' = None /\ Refuse(c)
       \/ PerhapsOutside(None) /\ Fail(c, TRUE)
    /\ UNCHANGED <<kind, row, born, router, issued, recorded>>

\* Verify changes what only the store knows; ProvisionCert needs the domain and
\* a router when it starts.
BeginVerify(c) ==
    /\ kind = "domain" /\ row # None
    /\ Enter(c, "Verify", "row", Blank, TRUE)
    /\ UNCHANGED <<tables, mishaps>>

VerifyRow(c) ==
    /\ call[c].verb = "Verify" /\ call[c].at = "row"
    /\ \/ row # None /\ row' = Blank /\ Succeed(c)
       \/ row = None /\ row' = None /\ Refuse(c)
       \/ row' = row /\ Fail(c, FALSE)
    /\ UNCHANGED <<kind, outside, born, router, issued, recorded>>

BeginProvisionCert(c) ==
    /\ kind = "domain" /\ row # None /\ router
    /\ Enter(c, "ProvisionCert", "issue", Blank, TRUE)
    /\ UNCHANGED <<tables, mishaps>>

IssueCert(c) ==
    /\ call[c].at = "issue"
    /\ \E cert \in Certs \ issued :
          \/ /\ issued' = issued \cup {cert}
             /\ call' = [call EXCEPT ![c].at = "record", ![c].cert = cert]
             /\ UNCHANGED <<history, mishaps>>
          \/ /\ issued' \in {issued, issued \cup {cert}}
             /\ Fail(c, issued' # issued)
    /\ UNCHANGED <<kind, row, outside, born, router, recorded>>

RecordCert(c) ==
    /\ call[c].at = "record"
    /\ \/ recorded' = recorded \cup {call[c].cert} /\ Succeed(c)
       \/ recorded' = recorded /\ Fail(c, TRUE)
    /\ UNCHANGED <<kind, row, outside, born, router, issued>>

SetRouter ==
    /\ ~router /\ router' = TRUE
    /\ UNCHANGED <<kind, row, outside, born, issued, recorded, call, history, mishaps>>

-----------------------------------------------------------------------------

\* Where a call has made the first of its writes.
Halfway(k) ==
    \/ k.at \in {"router", "record"}
    \/ k.verb \in {"Set", "Delete"} /\ k.at = "row"

\* The tables, the vault and the router outlive the process; calls do not, nor
\* does what SetRouter set.
Reboot ==
    /\ Mishap
    /\ cutShort' = (cutShort \/ \E c \in Callers : Halfway(call[c]))
    /\ call' = [c \in Callers |-> Idle]
    /\ router' = FALSE
    /\ UNCHANGED <<kind, row, outside, born, issued, recorded,
                   crossed, unrouted, gone, settled>>

Begin(c) ==
    \/ \E v \in Contents : BeginSet(c, v) \/ AddRoute(c, v) \/ BeginUpdate(c, v)
    \/ BeginDelete(c)
    \/ AddDomain(c)
    \/ BeginRemove(c)
    \/ BeginVerify(c)
    \/ BeginProvisionCert(c)

Advance(c) ==
    \/ StoreValue(c)
    \/ WriteSecret(c)
    \/ DropValue(c)
    \/ DropSecret(c)
    \/ Unrouted(c)
    \/ RouterAdds(c)
    \/ UpdateRow(c)
    \/ RouterUpdates(c)
    \/ DropRow(c)
    \/ RouterRemoves(c)
    \/ VerifyRow(c)
    \/ IssueCert(c)
    \/ RecordCert(c)

Next ==
    \/ \E c \in Callers : Begin(c) \/ Advance(c)
    \/ SetRouter
    \/ Reboot

Spec == Init /\ [][Next]_vars

-----------------------------------------------------------------------------
(* Properties.                                                             *)

\* The row and its counterpart are both there or neither is, and a route is
\* served as it is stored.
Agree ==
    /\ row = None <=> outside = None
    /\ kind = "route" => row = outside

\* What is left when nothing is in flight has a cause: a secret without a value
\* (Inject then fails for the whole instance), a value or route nobody lists, a
\* route served with old settings, or a certificate nobody recorded means that a
\* call ended between its two writes, calls that undo each other overlapped, or
\* there was no router.  Sets that race, Removes that race and retries of what
\* failed earlier are not such causes.
DivergenceHasCause ==
    Busy = {} /\ (~Agree \/ issued # recorded) => cutShort \/ crossed \/ unrouted

\* When Delete or Remove reports success nothing is served from then on, whatever
\* failed before, unless an overlapping call undid it.
RemovalIsFinal == gone /\ ~crossed /\ ~unrouted => outside = None

\* A call that had the row to itself and succeeded leaves row and counterpart in
\* agreement, whatever mess it found.
LoneCallMends == settled => Agree

=============================================================================
