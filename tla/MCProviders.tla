---------------------------- MODULE MCProviders ----------------------------
(* Values of Providers' parameters for model checking.                     *)
EXTENDS Providers

\* Three main services beside one init and one sidecar.
MCServices == {"api", "db", "web", "seed", "proxy"}

MCRoleOf == [s \in MCServices |-> IF s = "seed" THEN "init"
                                  ELSE IF s = "proxy" THEN "sidecar" ELSE "main"]

\* What the main services, listed as api, db and web, depend on: nothing, a
\* neighbour, one further on, both, a chain against and one along the list, and
\* each other.  The sidecar is listed first and depends on the rest.
MCGraphs ==
    {{}, {<<"api", "db">>}, {<<"api", "web">>}, {<<"api", "db">>, <<"api", "web">>},
     {<<"api", "db">>, <<"db", "web">>}, {<<"db", "api">>, <<"web", "db">>},
     {<<"web", "api">>, <<"api", "web">>}}

MCSpecs ==
    {[list |-> <<"proxy", "api", "db", "web", "seed">>,
      deps |-> [s \in MCServices |->
                  IF s = "proxy" THEN MCServices \ {"proxy"}
                  ELSE {t \in MCServices : <<s, t>> \in graph}]] : graph \in MCGraphs}

=============================================================================
