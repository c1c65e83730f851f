---------------------------- MODULE MCBootstrap ----------------------------
(* Values of Bootstrap's parameters for model checking.                    *)
EXTENDS Bootstrap

CONSTANTS acme, platform, d1, d2, dns, logs, b1, b2, mesh, ops

\* One shared datacenter and one that a tenant owns.
MCOwner == [d \in Datacenters |-> IF d = d1 THEN platform ELSE acme]

\* Both hooks ask for logs with one body, and for dns with a body each.
MCContribution ==
    [h \in Hooks |-> [d \in Datacenters |->
        [n \in Names |-> IF n = dns /\ h = ops THEN b2 ELSE b1]]]

=============================================================================
