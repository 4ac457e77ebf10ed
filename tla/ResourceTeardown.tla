-------------------------- MODULE ResourceTeardown --------------------------
(***************************************************************************)
(* Cleanup of a build that has ended (BuildCleanupRunner.run with          *)
(* DockerBuildCleaner, docker_cleanup.py), on the objects and records that *)
(* Rollout leaves behind: discover what exists under the build's labels,   *)
(* remove kind by kind, verify, and report.  It may be interrupted and is  *)
(* then, or after a partial failure, run again.                            *)
(***************************************************************************)
EXTENDS Rollout

Order == <<"service", "container", "volume", "network", "image">>
Rank(i) == CHOOSE n \in 1..5 : Order[n] = i[1]

\* what the label filters of discover return
Listed == {i \in Item : Owned(i) /\ i[1] # "image"}

\* discover stops at a foreign identity: what it lists is not what is recorded,
\* or a recorded service's name belongs to somebody else
Conflicts ==
    {i \in Item : /\ i[1] \in {"service", "network", "volume"} /\ Mismatch(i)
                  /\ \/ i \in Listed
                     \/ i[1] = "service" /\ Exists(i) /\ manifest[i].state \notin {"none", "removed"}}
    \cup {i \in Of("service") : docker[i] = Foreign /\ manifest[i].state \notin {"none", "removed"}}

\* listed in the order service, network, volume, container
Before(i, j) == i \in Of("service") /\ j \notin Of("service")

Found == {i \in Listed \ Conflicts : Conflicts = {} \/ \A j \in Conflicts : Before(i, j)}

Discover == manifest' = Recorded(Found, "present")

ToRemove(records, kind) == {i \in Item : i[1] = kind /\ records[i].state \notin {"none", "removed"}}

Outcome(i, state) == manifest' = [manifest EXCEPT ![i].state = state]

-----------------------------------------------------------------------------
\* an ended build is cleaned up, and again after a partial failure
StartCleanup ==
    /\ pc \in {"deployed", "failed", "partial_failed"}
    /\ Discover
    /\ intact' = (Conflicts = {})
    /\ todo' = ToRemove(manifest', "service")
    /\ current' = <<"service", "">>
    /\ Goto("remove")
    /\ UNCHANGED <<dockerVars, created, attempt, faults>>

\* between services and containers: discover again and wait until they have stopped
NextKind ==
    /\ pc = "remove" /\ todo = {} /\ current[1] # "image"
    /\ LET kind == Order[Rank(current) + 1]
       IN /\ current' = <<kind, "">>
          /\ IF kind = "container" /\ intact
             THEN /\ Discover
                  /\ intact' = (Conflicts = {} /\ ToRemove(manifest', "container") \cap ({"container"} \X running) = {})
             ELSE UNCHANGED <<manifest, intact>>
          /\ todo' = ToRemove(manifest', kind)
    /\ UNCHANGED <<dockerVars, created, attempt, pc, faults>>

\* services and containers must be gone before what they use is removed
Quiet(i) ==
    i[1] \in {"service", "container"} \/ (intact /\ ToRemove(manifest, "service") \cup ToRemove(manifest, "container") = {})

\* in use, as Docker says: a container of a service that exists or still runs,
\* anything a container or service refers to
InUse(i) ==
    CASE i[1] = "service" -> FALSE
      [] i[1] = "container" -> Exists(<<"service", i[2]>>) \/ i[2] \in running
      [] i[1] = "image" -> Owned(<<"service", i[2]>>) \/ Exists(<<"container", i[2]>>)
      [] OTHER -> \E j \in Of("service") \cup Of("container") : Owned(j)

\* _find and assert_owner
NotOurs(i) == Exists(i) /\ (docker[i] = Foreign \/ Mismatch(i))

RemoveResource(i) ==
    /\ pc = "remove" /\ i \in todo
    /\ IF Quiet(i) /\ ~NotOurs(i) /\ (Exists(i) => ~InUse(i))
       THEN docker' = [docker EXCEPT ![i] = 0] /\ Outcome(i, "removed")
       ELSE UNCHANGED docker /\ Outcome(i, "error")
    /\ todo' = todo \ {i}
    /\ UNCHANGED <<running, current, created, attempt, intact, pc, faults>>

\* Docker refuses or does not answer
RemovalFails(i) ==
    /\ pc = "remove" /\ i \in todo /\ Fault
    /\ Outcome(i, "error")
    /\ todo' = todo \ {i}
    /\ UNCHANGED <<dockerVars, current, created, attempt, intact, pc>>

\* discover and verify_empty: whatever is listed is recorded again and counts
Remaining == {i \in Item : manifest'[i].state \notin {"none", "removed"} \/ Owned(i)}

Verify ==
    /\ pc = "remove" /\ todo = {} /\ current[1] = "image"
    /\ Discover
    /\ Goto(IF Remaining = {} /\ intact /\ Conflicts = {} THEN "cleaned" ELSE "partial_failed")
    /\ UNCHANGED <<dockerVars, opVars, faults>>

CrashCleaning ==
    /\ Fault /\ pc = "remove"
    /\ Goto("partial_failed")
    /\ UNCHANGED <<dockerVars, manifest, opVars>>

Teardown ==
    \/ StartCleanup \/ NextKind \/ Verify \/ CrashCleaning
    \/ \E i \in Item : RemoveResource(i) \/ RemovalFails(i)

Next == Rollout \/ Swarm \/ Teardown

Spec == Init /\ [][Next]_vars

\* the cleanup is asked for again and works on, and Swarm stops containers
FairSpec ==
    /\ Spec
    /\ WF_vars(StartCleanup) /\ WF_vars(NextKind) /\ WF_vars(Verify)
    /\ \A i \in Item : WF_vars(RemoveResource(i))
    /\ \A s \in Service : WF_vars(s \in running /\ ContainerStops(s))

-----------------------------------------------------------------------------
(***************************************************************************)
(* Properties.                                                             *)
(***************************************************************************)

\* Objects, records and the operation keep their types; an image is recorded
\* present, with its id, only after the service ran.
TypeOK ==
    /\ docker \in [Item -> 0..Foreign]
    /\ running \subseteq Service
    /\ manifest \in [Item -> [state : ResourceState, id : 0..MaxAttempts]]
    /\ pc \in {"idle", "volume", "network", "get", "record", "next", "service", "save", "wait",
               "rollback", "failed", "deployed", "remove", "partial_failed", "cleaned"}
    /\ todo \subseteq Item /\ created \subseteq Item
    /\ attempt \in 0..MaxAttempts /\ intact \in BOOLEAN /\ faults \in 0..MaxFaults

\* Whatever exists for this build is in its manifest and not marked removed:
\* a cleanup after a crash at any point knows what to look for.
NothingUnrecorded ==
    \A i \in Item : Owned(i) /\ i[1] # "container" =>
        manifest[i].state # "none" /\ (pc \in {"partial_failed", "cleaned"} => manifest[i].state # "removed")

\* What a service uses outlives it: no rollback and no cleanup takes the volume or
\* the network from a service of this or an earlier attempt that is still there.
UsersFirst ==
    \A i \in Of("service") : Owned(i) => Owned(Volume) /\ Owned(Network)

\* A cleanup that reports success has left nothing of the build in Docker.
CleanedLeavesNothing == pc = "cleaned" => \A i \in Item : ~Owned(i)

\* "the previous service set intact": before the build has ended, a deployment
\* removes nothing an earlier attempt has created, and nobody ever removes or
\* replaces what is not the build's own.
OthersUntouched ==
    [][\A i \in Item :
         /\ docker[i] = Foreign => docker'[i] = Foreign
         /\ pc \in {"rollback", "service", "get"} /\ i[1] \notin {"container", "image"} /\ docker[i] \in 1..(attempt - 1)
              => docker'[i] = docker[i]]_vars

\* A service is created or updated only after every service it depends on runs.
DependenciesRun ==
    [][pc = "service" /\ pc' = "save" =>
         \A d \in DependsOn[current[2]] : d \in running]_vars

\* A cleanup that has left something ends with nothing left if it is asked for again:
\* docs/api-call-flow.md:20 (partial_failed is retried by DELETE),
\* docs/build-isolation-and-cleanup-plan.md:138.  A name of somebody else's is kept.
CleanupCompletes ==
    pc \in {"failed", "partial_failed"} /\ (\A i \in Item : docker[i] # Foreign) ~> pc = "cleaned"
=============================================================================
