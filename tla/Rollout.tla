------------------------------- MODULE Rollout -------------------------------
(***************************************************************************)
(* Deployment of one build to Docker Swarm (docker_services.py): the       *)
(* private volume, the private network, then its services in dependency    *)
(* order, each recorded in the build's manifest as planned before it is    *)
(* created and as present, with its native id, afterwards; a rollback of   *)
(* what the attempt created when it fails.  A worker may die between any   *)
(* two calls; the deployment is then attempted again.                      *)
(*                                                                         *)
(* An object's native id is the number of the attempt that created it      *)
(* (no attempt creates an item twice), 0 if there is no such object, and   *)
(* Foreign if the name belongs to somebody else's.  Operations of a build  *)
(* exclude each other (BuildLease).  Ports are in PortTable.               *)
(***************************************************************************)
EXTENDS Naturals, FiniteSets

CONSTANTS Service, DependsOn, MaxAttempts, MaxFaults

Foreign == MaxAttempts + 1

ServiceAssumption == IsFiniteSet(Service) /\ DependsOn \in [Service -> SUBSET Service]
AttemptAssumption == MaxAttempts \in Nat \ {0} /\ MaxFaults \in Nat

Volume == <<"volume", "data">>
Network == <<"network", "default">>
Of(kind) == {kind} \X Service
Item == Of("service") \cup Of("container") \cup Of("image") \cup {Volume, Network}

VARIABLES
    docker,    \* the native id behind each item's name
    running,   \* services whose container runs
    manifest,  \* the build's resource records
    pc, current, todo, created, attempt, intact, \* the operation at work
    faults

vars == <<docker, running, manifest, pc, current, todo, created, attempt, intact, faults>>
dockerVars == <<docker, running>>
opVars == <<current, todo, created, attempt, intact>>

ResourceState == {"none", "planned", "present", "error", "removed"}

Init ==
    /\ docker \in [Item -> {0, Foreign}]
    /\ \A i \in Item : docker[i] = Foreign => i[1] \in {"service", "network"}
    /\ running = {}
    /\ manifest = [i \in Item |-> [state |-> "none", id |-> 0]]
    /\ pc = "idle" /\ current = Volume /\ todo = {} /\ created = {} /\ attempt = 0
    /\ intact = TRUE /\ faults = 0

Exists(i) == docker[i] # 0

\* labels of this build and application: _assert_resource_owner
Owned(i) == Exists(i) /\ docker[i] # Foreign

\* a record with another native id: _assert_tracked_identity, ResourceTracker.record
Mismatch(i) == manifest[i].id \notin {0, docker[i]}

Goto(label) == pc' = label
Fault == faults < MaxFaults /\ faults' = faults + 1

(***************************************************************************)
(* _record                                                                 *)
(***************************************************************************)
Recorded(items, state) ==
    [i \in Item |-> IF i \notin items THEN manifest[i]
                    ELSE [state |-> state, id |-> IF state = "present" THEN docker[i] ELSE manifest[i].id]]

\* mutation: nothing is recorded before it exists
PlanNothing(items) == UNCHANGED manifest

Plan(items) == manifest' = Recorded(items, "planned")

-----------------------------------------------------------------------------
Deploy ==
    /\ pc = "idle" /\ attempt < MaxAttempts
    /\ attempt' = attempt + 1
    /\ todo' = Of("service") /\ created' = {} /\ intact' = TRUE
    /\ Goto("volume")
    /\ UNCHANGED <<dockerVars, manifest, current, faults>>

\* _prepare_build_volumes and _ensure_network: plan, then get or create
PlanItem ==
    /\ pc \in {"volume", "network"}
    /\ current' = IF pc = "volume" THEN Volume ELSE Network
    /\ Plan({current'})
    /\ Goto("get")
    /\ UNCHANGED <<dockerVars, todo, created, attempt, intact, faults>>

\* before the try block: an error here rolls nothing back
GetOrCreate ==
    /\ pc = "get" /\ current \in {Volume, Network}
    /\ docker' = IF Exists(current) THEN docker ELSE [docker EXCEPT ![current] = attempt]
    /\ created' = IF Exists(current) THEN created ELSE created \cup {current}
    /\ Goto(IF Exists(current) => Owned(current) /\ ~Mismatch(current) THEN "record" ELSE "failed")
    /\ UNCHANGED <<running, manifest, current, todo, attempt, intact, faults>>

Record ==
    /\ pc = "record" /\ current \in {Volume, Network}
    /\ IF Mismatch(current) THEN UNCHANGED manifest /\ Goto("failed")
       ELSE /\ manifest' = Recorded({current}, "present")
            /\ Goto(IF current = Volume THEN "network" ELSE "next")
    /\ UNCHANGED <<dockerVars, opVars, faults>>

\* _deployment_order: whatever waits for no service that is still to be deployed
DependenciesDone(i) == \A d \in DependsOn[i[2]] : <<"service", d>> \notin todo

PlanService(i) ==
    /\ pc = "next" /\ i \in todo /\ DependenciesDone(i)
    /\ current' = i
    /\ Plan({i, <<"image", i[2]>>})
    /\ Goto("service")
    /\ UNCHANGED <<dockerVars, todo, created, attempt, intact, faults>>

\* services.create, or update of a service that is known to be the build's own
CreateService ==
    /\ pc = "service"
    /\ docker' = IF Exists(current) THEN docker ELSE [docker EXCEPT ![current] = attempt]
    /\ Goto(IF Exists(current) => Owned(current) /\ ~Mismatch(current) THEN "save" ELSE "rollback")
    /\ UNCHANGED <<running, manifest, opVars, faults>>

\* a record that is refused leaves the new service out of what is rolled back
SaveService ==
    /\ pc = "save"
    /\ IF Mismatch(current) THEN Goto("rollback") /\ UNCHANGED <<manifest, created>>
       ELSE /\ manifest' = Recorded({current}, "present")
            /\ created' = IF docker[current] = attempt THEN created \cup {current} ELSE created
            /\ Goto("wait")
    /\ UNCHANGED <<dockerVars, current, todo, attempt, intact, faults>>

\* _wait_for_service_ready: ServiceReadiness
ServiceReady ==
    /\ pc = "wait" /\ current[2] \in running
    /\ manifest' = Recorded({<<"image", current[2]>>}, "present")
    /\ todo' = todo \ {current}
    /\ Goto("next")
    /\ UNCHANGED <<dockerVars, current, created, attempt, intact, faults>>

\* Docker refuses the call, its answer is lost, or the service is not ready in time
ServiceFails ==
    /\ pc \in {"service", "save", "wait"} /\ Goto("rollback")
    /\ UNCHANGED <<dockerVars, manifest, opVars, faults>>

Deployed ==
    /\ pc = "next" /\ todo = {} /\ Goto("deployed")
    /\ UNCHANGED <<dockerVars, manifest, opVars, faults>>

-----------------------------------------------------------------------------
(***************************************************************************)
(* _rollback_deployment: the services this attempt created, latest first,  *)
(* found by native id; then the network, if it is the attempt's own too.   *)
(***************************************************************************)
ToRollBack == {i \in created : i[1] = "service"}

Latest(i) == \A j \in ToRollBack : i[2] \notin DependsOn[j[2]] \/ j = i

RollBackService(i) ==
    /\ pc = "rollback" /\ i \in ToRollBack /\ Latest(i)
    /\ \/ docker' = [docker EXCEPT ![i] = 0] /\ UNCHANGED <<intact, faults>>
       \/ Fault /\ intact' = FALSE /\ UNCHANGED docker
    /\ created' = created \ {i}
    /\ UNCHANGED <<running, manifest, pc, current, todo, attempt>>

\* Docker may refuse while a container is still attached; the error is ignored
RollBackNetwork ==
    /\ pc = "rollback" /\ ToRollBack = {}
    /\ \/ /\ Network \in created /\ intact /\ \A i \in Of("service") : ~Owned(i)
          /\ docker' = [docker EXCEPT ![Network] = 0]
       \/ /\ Network \in created /\ intact => \E i \in Of("service") \cup Of("container") : Owned(i)
          /\ UNCHANGED docker
    /\ Goto("failed")
    /\ UNCHANGED <<running, manifest, opVars, faults>>

-----------------------------------------------------------------------------
(***************************************************************************)
(* Swarm: containers come and go with their service.                       *)
(***************************************************************************)
ContainerStarts(s) ==
    /\ Owned(<<"service", s>>) /\ s \notin running
    /\ docker' = [docker EXCEPT ![<<"container", s>>] = 1, ![<<"image", s>>] = 1]
    /\ running' = running \cup {s}
    /\ UNCHANGED <<manifest, pc, opVars, faults>>

\* stopped after its service is gone; Swarm may also delete what has stopped
ContainerStops(s) ==
    /\ ~Exists(<<"service", s>>) /\ Exists(<<"container", s>>)
    /\ running' = running \ {s}
    /\ docker' \in {docker, [docker EXCEPT ![<<"container", s>>] = 0]}
    /\ UNCHANGED <<manifest, pc, opVars, faults>>

Swarm == \E s \in Service : ContainerStarts(s) \/ ContainerStops(s)

\* the worker dies before the failure is saved: the deployment is attempted again
CrashDeploying ==
    /\ Fault /\ attempt < MaxAttempts
    /\ pc \in {"volume", "network", "get", "record", "next", "service", "save", "wait", "rollback", "failed"}
    /\ Goto("idle")
    /\ UNCHANGED <<dockerVars, manifest, opVars>>

Rollout ==
    \/ Deploy \/ PlanItem \/ GetOrCreate \/ Record
    \/ CreateService \/ SaveService \/ ServiceReady \/ ServiceFails \/ Deployed
    \/ RollBackNetwork \/ CrashDeploying
    \/ \E i \in Of("service") : PlanService(i) \/ RollBackService(i)
=============================================================================
