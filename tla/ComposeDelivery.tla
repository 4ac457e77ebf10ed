--------------------------- MODULE ComposeDelivery ---------------------------
(***************************************************************************)
(* The Compose document of one build on its way through the worker         *)
(* (worker_runtime.py): validated before Jenkins is started, returned by   *)
(* Jenkins as an artifact that may have been changed, compared with its    *)
(* source, validated again, and deployed service by service.               *)
(***************************************************************************)
EXTENDS ComposeRules

CONSTANTS
    Build,
    Documents,          \* the documents a client may have saved
    Altered(_)          \* what Jenkins may make of a document (images apart)

\* There are finitely many services; a volume is told from a path by its name.
DocumentAssumption ==
    /\ IsFiniteSet(Service) /\ Volume \cap Path = {}
    /\ Documents \subseteq Document /\ \A d \in Documents : Altered(d) \subseteq Document

VARIABLES
    pc,        \* "start", "triggered", "returned", "deploying", "deployed", "refused"
    source,    \* the document as it was saved
    app,       \* what the application's environment has for a placeholder
    artifact,  \* the document that is deployed
    deployed,  \* the services that exist
    mounted    \* the objects they mount

vars == <<pc, source, app, artifact, deployed, mounted>>

Init ==
    /\ pc = "start" /\ source \in Documents /\ app \in AppValue
    /\ artifact = source /\ deployed = {} /\ mounted = {}

\* _start_build while VALIDATING: the adapter is not yet bound to a build, and
\* takes every workspace for its own
Accepted(d) ==
    /\ HasServices(d) /\ Resolvable(d, app)
    /\ LET r == Resolved(d, app) IN ComposeValid(r) /\ BuildComposeValid(r, app, {"/snapshot", "/workspaces"})

Trigger ==
    /\ pc = "start" /\ pc' = (IF Accepted(source) THEN "triggered" ELSE "refused")
    /\ UNCHANGED <<source, app, artifact, deployed, mounted>>

\* get_result_artifact: Jenkins names the images, and may have changed more
Return ==
    /\ pc = "triggered" /\ pc' = "returned"
    /\ \E d \in Altered(source), image \in [Service -> {"none", "own", "other"}] :
         artifact' = [d EXCEPT !.image = image]
    /\ UNCHANGED <<source, app, deployed, mounted>>

\* _complete_deployment
ArtifactAccepted(d) ==
    /\ SameTopology(source, d) /\ Resolvable(d, app)
    /\ ComposeValid(Resolved(d, app)) /\ ImagesNamed(d) /\ ImagesExclusive(d)

\* deploy_build validates what it is given without the application's environment
DeployAccepts(d) == BuildComposeValid(Resolved(d, app), "missing", {"/snapshot"}) /\ ImagesExclusive(d)

Accept ==
    /\ pc = "returned"
    /\ pc' = IF ArtifactAccepted(artifact) /\ DeployAccepts(artifact) THEN "deploying" ELSE "refused"
    /\ artifact' = Resolved(artifact, app)
    /\ UNCHANGED <<source, app, deployed, mounted>>

\* deploy, _deploy_one: by rounds, and by name within a round
Deploy(s) ==
    /\ pc = "deploying" /\ s \in artifact.names \ deployed
    /\ \A t \in artifact.names \ deployed : Round(artifact, s) <= Round(artifact, t)
    /\ IF Convertible(artifact, s) /\ artifact.image[s] # "none"
       THEN /\ deployed' = deployed \cup {s}
            /\ mounted' = mounted \cup {Physical(artifact, Build, m) : m \in artifact.mounts[s]}
            /\ UNCHANGED pc
       ELSE pc' = "refused" /\ UNCHANGED <<deployed, mounted>>
    /\ UNCHANGED <<source, app, artifact>>

Finish ==
    /\ pc = "deploying" /\ deployed = artifact.names /\ pc' = "deployed"
    /\ UNCHANGED <<source, app, artifact, deployed, mounted>>

Next == Trigger \/ Return \/ Accept \/ (\E s \in Service : Deploy(s)) \/ Finish

Spec == Init /\ [][Next]_vars

-----------------------------------------------------------------------------
(***************************************************************************)
(* Properties.                                                             *)
(***************************************************************************)

\* Only a deployment creates objects, of services of the document.
TypeOK ==
    /\ pc \in {"start", "triggered", "returned", "deploying", "deployed", "refused"}
    /\ source \in Documents /\ app \in AppValue /\ artifact \in Document
    /\ deployed # {} => pc \in {"deploying", "deployed"}
    /\ deployed \subseteq artifact.names

\* "validation errors must not leave infrastructure behind"
\* (_validate_compose_features): a document is refused while nothing of it
\* exists, never by the service that is just being deployed.
RefusedInTime == pc = "refused" => deployed = {} /\ mounted = {}

\* A build shares no storage with others and reaches no stateful backend but
\* its own services, whatever its document declares and Jenkins returned
\* (validate_build_compose, deploy).
Isolated ==
    /\ \A o \in mounted : o[2] = Build /\ (o[1] = "path" => o[3] = "/snapshot")
    /\ \A s \in deployed : artifact.backend[s] \in {"none", "service"}

\* What is deployed is what was saved: its services, with their storage
\* (_validate_artifact_topology: an artifact must not switch a database to
\* another volume).
SourceHonoured ==
    pc = "deployed" =>
      /\ deployed = source.names
      /\ mounted = UNION {{Physical(source, Build, m) : m \in source.mounts[s]} : s \in source.names}

\* A service is deployed after everything it depends on (_deployment_order).
DependenciesFirst == \A s \in deployed : artifact.needs[s] \subseteq deployed

\* No dependency, directly or through others, of a service on itself: every
\* set of services has one that needs none of the set.
Acyclic(d) == \A set \in (SUBSET d.names) \ {{}} : \E s \in set : d.needs[s] \cap set = {}

\* A document is refused for a reason: one that is free of cycles, odd fields,
\* unknown dependencies and shared storage or backends reaches Jenkins.
Sound(d) ==
    /\ d.names # {} /\ Acyclic(d) /\ d.odd \cap d.names = {}
    /\ \A s \in d.names :
         /\ d.needs[s] \subseteq d.names /\ d.mounts[s] \subseteq Volume \cup {"/snapshot", "/workspaces"}
         /\ s \in d.waits => d.needs[s] \subseteq d.checked
         /\ d.backend[s] \in IF app = "service" THEN {"none", "service", "variable"} ELSE {"none", "service"}
    /\ d.declared["external"] = {} /\ app # "outside"

RefusedForAReason == [][pc = "start" => (pc' = "triggered" <=> Sound(source))]_pc
=============================================================================
