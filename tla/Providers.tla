------------------------------ MODULE Providers ------------------------------
(***************************************************************************)
(* The provider engines, call by call.  A verb of the Provider interface   *)
(* is a list of API calls on the objects of one instance; a call may fail, *)
(* with or without its effect, and the code stops there or goes on.  The   *)
(* engine is chosen in the initial state: docker, the Deployment, the      *)
(* StatefulSet, the manifest, the helm and the argo engine of kubernetes,  *)
(* or nomad.  One caller uses the verbs in any order, a failed or crashed  *)
(* one included, and in the end insists on Provision or on Deprovision     *)
(* until it succeeds.  Deploy is in DeployRelease; Status and Logs read.   *)
(***************************************************************************)
EXTENDS Naturals, Sequences, FiniteSets, SequencesExt, FiniteSetsExt

CONSTANTS Services,    \* services of the instance
          RoleOf,      \* service -> "init", "main" or "sidecar"
          Specs,       \* what may be asked of docker: an order and dependencies
          Docs,        \* documents of a rendered manifest source
          MaxMishaps,  \* bounds failed calls and crashes
          None

Verbs == {"Provision", "Deprovision", "Start", "Stop", "Restart", "Scale"}

\* A request lists every service of the instance; up to 20 of them, sort.SliceStable
\* is one insertion sort.
ASSUME ProvidersAssumption ==
    /\ IsFiniteSet(Services) /\ IsFiniteSet(Docs)
    /\ "network" \notin Services
    /\ RoleOf \in [Services -> {"init", "main", "sidecar"}]
    /\ Specs \subseteq [list: Seq(Services), deps: [Services -> SUBSET Services]]
    /\ \A s \in Specs : Range(s.list) = Services /\ Len(s.list) <= 20
    /\ MaxMishaps \in Nat
    /\ \A known \in SUBSET Docs : None /= known
    /\ \A reply \in [verb: Verbs, ok: BOOLEAN] : None /= reply

Engines == {"docker", "deployment", "statefulset", "manifests", "helm", "argo", "nomad"}
Kubernetes == {"deployment", "statefulset"}

\* What an engine keeps of one instance.  "elsewhere" is the helm release in a
\* namespace of the request's own.
ObjectsOf(e) ==
    CASE e = "docker"      -> Services \cup {"network"}
      [] e \in Kubernetes   -> {"config", "deployment", "statefulset", "service"}
      [] e = "manifests"   -> Docs
      [] e = "helm"        -> {"release", "elsewhere"}
      [] e = "argo"        -> {"application"}
      [] e = "nomad"       -> {"job"}

VARIABLES engine,
          spec,      \* the services as the request lists them
          docs,      \* the documents of the last request
          objs,      \* object -> absent, down, up or (an init service) done
          tracked,   \* refs in the manifests' tracking ConfigMap, or None
          call,      \* the verb under way and the API calls it has left
          answer,    \* of the last verb
          escaped,   \* objects the last Deprovision passed over (history)
          aim,       \* what the caller insists on
          mishaps

vars == <<engine, spec, docs, objs, tracked, call, answer, escaped, aim, mishaps>>

Present(o) == objs[o] /= "absent"

Init ==
    /\ engine \in Engines
    /\ spec \in Specs
    /\ docs = {}
    /\ objs = [o \in ObjectsOf(engine) |-> "absent"]
    /\ tracked = None
    /\ call = None
    /\ answer = None
    /\ escaped = {}
    /\ aim = "anything"
    /\ mishaps = 0

Mishap(bad) ==
    IF bad THEN mishaps < MaxMishaps /\ mishaps' = mishaps + 1
           ELSE UNCHANGED mishaps

-----------------------------------------------------------------------------
(* The lists of API calls.  An error ends the verb ("abort"), is dropped   *)
(* ("ignore"), or ends it when the call before it failed as well ("both"). *)

Do(what, o) == [do |-> what, obj |-> o, error |-> "abort"]
Try(what, o) == [do |-> what, obj |-> o, error |-> "ignore"]
DoEach(what, os) == [i \in DOMAIN os |-> Do(what, os[i])]

\* Mutant of sortByDeps: the listed order is kept.
sortByDepsNot(services, deps) == services

\* x joins the services s already in order: it moves left over the neighbours
\* that depend on it and stops at the first that does not.
Sift(s, x, deps) ==
    LET k == Max({0} \cup {j \in DOMAIN s : x \notin deps[s[j]]})
    IN  SubSeq(s, 1, k) \o <<x>> \o SubSeq(s, k + 1, Len(s))

\* sort.SliceStable under "j depends on i", an insertion sort.
sortByDeps(services, deps) ==
    LET sorted[n \in 0 .. Len(services)] ==
            IF n = 0 THEN <<>> ELSE Sift(sorted[n - 1], services[n], deps)
    IN  sorted[Len(services)]

\* classifyServices: the listed services of role r, sorted by their dependencies.
ListedAs(list, r) ==
    LET taken[n \in 0 .. Len(list)] ==
            IF n = 0 THEN <<>>
            ELSE IF RoleOf[list[n]] = r THEN Append(taken[n - 1], list[n])
            ELSE taken[n - 1]
    IN  taken[Len(list)]

OfRole(r) == sortByDeps(ListedAs(spec.list, r), spec.deps)

Listed == SetToSeq({s \in Services : Present(s)})
Restartable == LET runs(s) == RoleOf[s] /= "init" IN SelectSeq(Listed, runs)

\* Mutant of DockerProvision: the network is created without a look for it.
DockerProvisionNoInspect ==
    <<Do("create", "network")>> \o DoEach("runinit", OfRole("init"))
    \o DoEach("replace", OfRole("main") \o OfRole("sidecar"))

\* The network, the init services one after the other to completion, the rest.
DockerProvision ==
    <<Do("apply", "network")>> \o DoEach("runinit", OfRole("init"))
    \o DoEach("replace", OfRole("main") \o OfRole("sidecar"))

\* Mutant of DockerDeprovision: init services are skipped, as Stop does.
DockerDeprovisionNotInit == DoEach("delete", Restartable) \o <<Do("delete", "network")>>

\* What the label finds, then the network.
DockerDeprovision == DoEach("delete", Listed) \o <<Do("delete", "network")>>

DockerVerb(v) ==
    CASE v = "Provision"   -> DockerProvision
      [] v = "Deprovision" -> DockerDeprovision
      [] v = "Start"       -> DoEach("start", Restartable)
      [] v = "Stop"        -> DoEach("stop", Restartable)
      [] v = "Restart"     -> DoEach("start", Restartable)
      [] v = "Scale"       -> <<>>

\* Creates only: what is there already is an error.
KubeProvision(workload) ==
    <<Do("create", "config"), Do("create", workload), Do("create", "service")>>

\* Both kinds of workload are deleted; it takes two failures to make an error,
\* and the rest is deleted without a look at the answers.
KubeDeprovision ==
    <<Try("delete", "deployment"), [Do("delete", "statefulset") EXCEPT !.error = "both"],
      Try("delete", "service"), Try("delete", "config")>>

\* Start, Stop, Restart and Scale's replicas know Deployments only.
KubeVerb(workload, v) ==
    CASE v = "Provision"   -> KubeProvision(workload)
      [] v = "Deprovision" -> KubeDeprovision
      [] v = "Start"       -> <<Do("start", "deployment")>>
      [] v = "Stop"        -> <<Do("stop", "deployment")>>
      [] v = "Restart"     -> <<Do("touch", "deployment")>>
      [] v = "Scale"       -> <<Do("touch", workload), Do("start", "deployment")>>

\* Every document, then the record of them; the record is what Delete goes by.
ManifestVerb(v, request) ==
    CASE v = "Provision"   -> DoEach("apply", SetToSeq(request)) \o <<Do("track", None)>>
      [] v = "Deprovision" ->
            IF tracked = None THEN <<>>
            ELSE DoEach("delete", SetToSeq(tracked)) \o <<Do("untrack", None)>>

HelmVerb(v, request) ==
    CASE v = "Provision"   -> <<Do("install", request)>>
      [] v = "Deprovision" -> <<Do("uninstall", "release")>>

ArgoVerb(v) ==
    CASE v = "Provision"   -> <<Do("apply", "application")>>
      [] v = "Deprovision" -> <<Do("delete", "application")>>

NomadVerb(v) ==
    CASE v = "Provision"   -> <<Do("apply", "job")>>
      [] v = "Deprovision" -> <<Do("delete", "job")>>
      [] v = "Start"       -> <<Do("start", "job")>>
      [] v = "Stop"        -> <<Do("stop", "job")>>
      [] v = "Restart"     -> <<Do("touch", "job")>>
      [] v = "Scale"       -> <<Do("touch", "job")>>

\* dispatch: the source type picks the engine.
VerbsOf(e) == IF e \in {"manifests", "helm", "argo"} THEN {"Provision", "Deprovision"}
              ELSE Verbs

Calls(v, request) ==
    CASE engine = "docker"      -> DockerVerb(v)
      [] engine \in Kubernetes  -> KubeVerb(engine, v)
      [] engine = "manifests"   -> ManifestVerb(v, request)
      [] engine = "helm"        -> HelmVerb(v, request)
      [] engine = "argo"        -> ArgoVerb(v)
      [] engine = "nomad"       -> NomadVerb(v)

\* What a request may ask for.
Requests(v) ==
    CASE engine = "manifests" /\ v = "Provision" -> SUBSET Docs \ {{}}
      [] engine = "helm"                         -> {"release", "elsewhere"}
      [] OTHER                                   -> {docs}

-----------------------------------------------------------------------------
(* One API call.                                                           *)

\* The API accepts the call in the object's condition.
Accepted(c) ==
    CASE c.do \in {"create", "install"}                    -> ~ Present(c.obj)
      [] c.do \in {"start", "stop", "touch", "uninstall"}  -> Present(c.obj)
      [] OTHER                                             -> TRUE

Effect(c) ==
    CASE c.do \in {"apply", "create", "replace", "install", "start"} ->
            [objs EXCEPT ![c.obj] = "up"]
      [] c.do = "runinit"                -> [objs EXCEPT ![c.obj] = "done"]
      [] c.do = "stop"                   -> [objs EXCEPT ![c.obj] = "down"]
      [] c.do \in {"delete", "uninstall"} -> [objs EXCEPT ![c.obj] = "absent"]
      [] OTHER                           -> objs

\* A failed call may have had its effect, or stopped half-way: a container
\* removed and not created, created and not started, an init service that
\* exits with an error or not at all, a failed release.
Leftovers(c) ==
    {objs, Effect(c)} \cup
    CASE c.do \in {"replace", "runinit"} ->
            {[objs EXCEPT ![c.obj] = x] : x \in {"absent", "down", "up"}}
      [] c.do = "install" -> {[objs EXCEPT ![c.obj] = "down"]}
      [] OTHER            -> {}

\* The manifests' tracking record after its own calls.
Record(c) == IF c.do = "track" THEN docs
             ELSE IF c.do = "untrack" THEN None ELSE tracked

Ended(ok) == call' = None /\ answer' = [verb |-> call.verb, ok |-> ok]

\* Mutant of Fatal: errors of the init services are dropped.
FatalNotInit(c) == c.error = "abort" /\ c.do /= "runinit"

\* The verb returns the error of this call.
Fatal(c) == c.error = "abort" \/ (c.error = "both" /\ call.failed)

Perform(bad) ==
    /\ call /= None /\ call.todo /= <<>>
    /\ Mishap(bad)
    /\ LET c == Head(call.todo)
           error == bad \/ ~ Accepted(c)
       IN  /\ IF error
              THEN /\ objs' \in IF bad /\ Accepted(c) THEN Leftovers(c) ELSE {objs}
                   /\ tracked' \in IF bad THEN {tracked, Record(c)} ELSE {tracked}
              ELSE objs' = Effect(c) /\ tracked' = Record(c)
           /\ escaped' = IF error /\ c.error /= "abort" THEN escaped \cup {c.obj} ELSE escaped
           /\ IF error /\ Fatal(c) THEN Ended(FALSE)
              ELSE /\ call' = [call EXCEPT !.todo = Tail(@), !.failed = error]
                   /\ UNCHANGED answer
    /\ UNCHANGED <<engine, spec, docs, aim>>

Return ==
    /\ call /= None /\ call.todo = <<>>
    /\ Ended(TRUE)
    /\ UNCHANGED <<engine, spec, docs, objs, tracked, escaped, aim, mishaps>>

\* Objects that no Deprovision looks for.
Unreachable ==
    CASE engine = "manifests" -> IF tracked = None THEN Docs ELSE Docs \ tracked
      [] engine = "helm"      -> {"elsewhere"}
      [] OTHER                -> {}

Satisfied == answer = [verb |-> aim, ok |-> TRUE]

Begin(v) ==
    /\ call = None
    /\ v \in VerbsOf(engine)
    /\ aim = "anything" \/ (aim = v /\ ~ Satisfied)
    /\ \E request \in Requests(v) :
          /\ docs' = IF engine = "manifests" THEN request ELSE docs
          /\ call' = [verb |-> v, todo |-> Calls(v, request), failed |-> FALSE]
    /\ answer' = None
    /\ escaped' = IF v = "Deprovision" THEN Unreachable ELSE {}
    /\ UNCHANGED <<engine, spec, objs, tracked, aim, mishaps>>

\* The process dies inside a verb.
Crash ==
    /\ call /= None
    /\ Mishap(TRUE)
    /\ call' = None
    /\ answer' = None
    /\ UNCHANGED <<engine, spec, docs, objs, tracked, escaped, aim>>

\* From now on the caller repeats one verb until it succeeds, then rests.
Insist(v) ==
    /\ aim = "anything" /\ call = None
    /\ aim' = v
    /\ answer' = None
    /\ UNCHANGED <<engine, spec, docs, objs, tracked, call, escaped, mishaps>>

Rest == Satisfied /\ UNCHANGED vars

Step == Return \/ \E bad \in BOOLEAN : Perform(bad)

Next ==
    \/ \E v \in Verbs : Begin(v)
    \/ Step
    \/ Crash
    \/ \E v \in {"Provision", "Deprovision"} : Insist(v)
    \/ Rest

\* A verb that was called goes on, and a caller who insists calls again.
Fairness ==
    /\ WF_vars(Step)
    /\ WF_vars(aim /= "anything" /\ \E v \in Verbs : Begin(v))

Spec == Init /\ [][Next]_vars /\ Fairness

-----------------------------------------------------------------------------
Conditions == {"absent", "down", "up", "done"}

\* The type invariant: what an engine keeps are its own objects, each in some
\* condition, and a verb under way is a verb, its calls and its last answer.
TypeOK ==
    /\ engine \in Engines
    /\ spec \in Specs
    /\ docs \in SUBSET Docs
    /\ objs \in [ObjectsOf(engine) -> Conditions]
    /\ tracked \in (SUBSET Docs) \cup {None}
    /\ call /= None =>
          call = [verb |-> call.verb, todo |-> call.todo, failed |-> call.failed]

\* The whole of what the last request asked for is there.
Whole ==
    CASE engine = "docker" ->
            /\ objs["network"] = "up"
            /\ \A s \in Services :
                  objs[s] = IF RoleOf[s] = "init" THEN "done" ELSE "up"
      [] engine \in Kubernetes ->
            \A o \in {"config", engine, "service"} : objs[o] = "up"
      [] engine = "manifests" ->
            tracked = docs /\ \A d \in docs : objs[d] = "up"
      [] engine = "helm" -> \E o \in {"release", "elsewhere"} : objs[o] = "up"
      [] OTHER -> \A o \in DOMAIN objs : objs[o] = "up"

Gone == \A o \in DOMAIN objs : ~ Present(o)

\* A Provision that answers success left nothing out, whatever an earlier failed
\* or interrupted verb had left behind, init services included.
ProvisionIsWhole == answer = [verb |-> "Provision", ok |-> TRUE] => Whole

\* A Deprovision that answers success tore everything down.  On docker, argo and
\* nomad without exception; on kubernetes but for the objects whose deletion
\* failed unnoticed, manifests that were never recorded, and helm releases in
\* another namespace.
DeprovisionIsClean ==
    answer = [verb |-> "Deprovision", ok |-> TRUE] =>
        \A o \in DOMAIN objs : Present(o) => o \in escaped

Phase == [init |-> 1, main |-> 2, sidecar |-> 3]

\* The request lists a service behind those of its role that it depends on.
ListedInOrder ==
    \A i, j \in DOMAIN spec.list :
        i < j /\ RoleOf[spec.list[i]] = RoleOf[spec.list[j]] =>
            spec.list[j] \notin spec.deps[spec.list[i]]

\* docker starts the init services, then the main ones, then the sidecars.  A
\* service of a role starts before one that it depends on only if the request
\* did not list them in order, and not right before it unless each depends on
\* the other.  That is all the comparison sort does: with a third service in
\* between, it may leave one ahead of its dependency (sortByDeps).
StartsInOrder ==
    engine = "docker" /\ call /= None /\ call.verb = "Provision" =>
        \A i, j \in DOMAIN call.todo :
            i < j /\ call.todo[i].obj \in Services =>
                LET a == call.todo[i].obj
                    b == call.todo[j].obj
                IN  /\ b \in Services /\ Phase[RoleOf[a]] <= Phase[RoleOf[b]]
                    /\ RoleOf[a] = RoleOf[b] /\ b \in spec.deps[a] =>
                          ~ ListedInOrder /\ (j = i + 1 => a \in spec.deps[b])

\* A caller who repeats Provision gets the whole instance on the engines that
\* overwrite leftovers, and one who repeats Deprovision gets rid of it on the
\* engines that delete by what is there, whatever went wrong before.
RepeatingHelps ==
    /\ (aim = "Provision" /\ engine \in {"docker", "manifests", "argo", "nomad"}) ~> Whole
    /\ (aim = "Deprovision" /\ engine \in {"docker", "argo", "nomad"}) ~> Gone

=============================================================================
