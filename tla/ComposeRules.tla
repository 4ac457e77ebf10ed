---------------------------- MODULE ComposeRules ----------------------------
(***************************************************************************)
(* What a Compose document must be for a build to be deployed from it, and *)
(* what is deployed: the validation of docker_services.py and              *)
(* worker_runtime.py as operators on documents.                            *)
(*                                                                         *)
(* A document has                                                          *)
(*   names     its services                                                *)
(*   needs     the services each depends on                                *)
(*   waits     services that wait for their dependencies to be healthy     *)
(*   checked   services with a healthcheck                                 *)
(*   mounts    the sources each service mounts: volume names and paths     *)
(*   declared  volumes with a shared backend: "external" ones or drivers,  *)
(*             "named" ones                                                *)
(*   backend   the stateful endpoint in each service's environment         *)
(*   image     each service's image: "none", "own" (exclusive to the       *)
(*             build) or "other"                                           *)
(*   odd       services with a field or a value that is not supported      *)
(***************************************************************************)
EXTENDS Naturals, FiniteSets

CONSTANTS Service, Volume

\* Absolute paths: of the build's snapshot, of the workspaces of others, or
\* elsewhere; and relative ones.
Path == {"/snapshot", "/workspaces", "/elsewhere", "./relative"}
Source == Volume \cup Path

Document ==
    [names : SUBSET Service, needs : [Service -> SUBSET Service], waits : SUBSET Service, checked : SUBSET Service,
     mounts : [Service -> SUBSET Source], declared : [{"external", "named"} -> SUBSET Volume],
     backend : [Service -> {"none", "service", "outside", "variable", "missing"}],
     image : [Service -> {"none", "own", "other"}], odd : SUBSET Service]

\* A service's backend is "none", "service", "outside" or "variable", an endpoint
\* the application's environment has to give.
AppValue == {"missing", "service", "outside"}

-----------------------------------------------------------------------------
\* _compose_services, _validate_compose_structure
HasServices(d) == d.names # {}

\* _environment, _ports, _command, _healthcheck, _mode, _resources, ...
Convertible(d, s) == s \notin d.odd /\ "./relative" \notin d.mounts[s]

\* depends_on names services of the document, with a healthcheck where the
\* dependency has to be healthy
DependenciesValid(d, s) ==
    /\ d.needs[s] \subseteq d.names
    /\ s \in d.waits => d.needs[s] \subseteq d.checked

FeaturesValid(d) == \A s \in d.names : Convertible(d, s) /\ DependenciesValid(d, s)

-----------------------------------------------------------------------------
\* _deployment_order takes, round by round, the services that wait for none
\* that is left; these are left after n rounds.
Left(d) ==
    LET left[n \in 0..Cardinality(Service)] ==
          IF n = 0 THEN d.names
          ELSE {s \in left[n - 1] : ~(d.needs[s] \subseteq d.names \ left[n - 1])}
    IN left

Orderable(d) == Left(d)[Cardinality(Service)] = {}

\* the round a service is taken in
Round(d, s) == CHOOSE n \in 1..Cardinality(Service) : s \in Left(d)[n - 1] \ Left(d)[n]

ImagesNamed(d) == \A s \in d.names : d.image[s] # "none"

\* validate_compose
ComposeValid(d) == HasServices(d) /\ FeaturesValid(d) /\ Orderable(d)

-----------------------------------------------------------------------------
\* _resolve_application_environment: placeholders become the application's values
Resolvable(d, app) == app = "missing" => \A s \in d.names : d.backend[s] # "variable"
Resolved(d, app) == [d EXCEPT !.backend = [s \in Service |-> IF d.backend[s] = "variable" THEN app ELSE d.backend[s]]]

\* _validate_private_backends, of the application's environment and of each service's
PrivateBackends(d, app) == app # "outside" /\ \A s \in d.names : d.backend[s] \in {"none", "service"}

\* validate_build_compose, with the paths below the bind root in force
BuildComposeValid(d, app, allowed) ==
    /\ d.declared["external"] = {}
    /\ \A s \in d.names : d.mounts[s] \subseteq Volume \cup allowed
    /\ PrivateBackends(d, app)

\* _validate_artifact_topology
SameTopology(source, artifact) ==
    /\ artifact.names = source.names
    /\ artifact.declared = source.declared
    /\ \A s \in source.names : artifact.mounts[s] = source.mounts[s]

\* the images the artifact names are the build's, one for each service
ImagesExclusive(d) == \A s \in d.names : d.image[s] = "own"

-----------------------------------------------------------------------------
\* mutation: declared names stay what they are
PhysicalNamed(d, build, source) ==
    IF source \in d.declared["named"] THEN <<"volume", source>>
    ELSE IF source \in Volume THEN <<"volume", build, source>> ELSE <<"path", build, source>>

\* The object behind a mount.  Every volume of a build is its own, whatever
\* its declaration says (deploy); a path is one of its snapshot.
Physical(d, build, source) ==
    IF source \in Volume THEN <<"volume", build, source>> ELSE <<"path", build, source>>
=============================================================================
