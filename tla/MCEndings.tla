----------------------------- MODULE MCEndings ------------------------------
(***************************************************************************)
(* What must come to an end, for TLC.  The components share no state, so a *)
(* behaviour is of one of them, chosen by `part`, under the fairness its   *)
(* module states; the others stand still.                                  *)
(*                                                                         *)
(*   lease      sessions that claim, lose and release one lease            *)
(*   static     a static check whose worker may die, and a forced re-run   *)
(*   dynamic    the dynamic check of a build, interrupted twice            *)
(*   cleanup    a build of two services, cut short and cleaned up          *)
(*   readiness  one task and its port waited for                           *)
(*   images     two workers mirror two images, one without a stable tag    *)
(*   agent      one run of the agent CLI                                   *)
(*   chains     the polling of one build                                   *)
(***************************************************************************)
EXTENDS BuildLease, Endings

CONSTANTS
    w1, w2, r1, Nobody, NoVerdict, b1, NoBuild, web, db, python, node

VARIABLES
    part,
    present, incarnation, check, tasks, run, request, gated, started, verdicts, staticFaults,
    build, row, op, calls, checkFaults,
    docker, running, records, cleanupPc, current, todo, created, attempt, intact, cleanupFaults,
    upstream, harbor, local, images, queue, syncPc, syncTodo, source, image, digest, syncs, syncFaults, beside

staticVars == <<present, incarnation, check, tasks, run, request, gated, started, verdicts, staticFaults>>
dynamicVars == <<build, row, op, calls, checkFaults>>
cleanupVars == <<docker, running, records, cleanupPc, current, todo, created, attempt, intact, cleanupFaults>>
imageVars == <<upstream, harbor, local, images, queue, syncPc, syncTodo, source, image, digest, syncs, syncFaults, beside>>
all == <<part, leaseVars, staticVars, dynamicVars, cleanupVars, waitVars, imageVars, agentVars, chainVars>>

Static == INSTANCE RouteCheck WITH
    Worker <- {w1}, Requester <- {r1}, MaxIncarnations <- 1, MaxGenerations <- 2, MaxStaticFaults <- 2

Dynamic == INSTANCE DynamicCheck WITH
    Build <- {b1}, MaxRuns <- 2, MaxGeneration <- 2, MaxFaults <- 2, faults <- checkFaults

Cleanup == INSTANCE ResourceTeardown WITH
    Service <- {db, web}, DependsOn <- [s \in {db, web} |-> IF s = web THEN {db} ELSE {}],
    MaxAttempts <- 1, MaxFaults <- 1,
    manifest <- records, pc <- cleanupPc, faults <- cleanupFaults

Images == INSTANCE BaseImages WITH
    Source <- {python, node}, Stable <- {python}, Worker <- {w1, w2},
    MaxVersion <- 1, MaxSyncs <- 2, MaxFaults <- 2,
    records <- images, pc <- syncPc, todo <- syncTodo, current <- source, faults <- syncFaults

ASSUME PartsAssumption ==
    /\ Static!VerdictAssumption /\ Static!WorkerAssumption /\ Static!RowBoundsAssumption
    /\ Dynamic!NoBuildAssumption /\ Dynamic!BoundsAssumption
    /\ Cleanup!ServiceAssumption /\ Cleanup!AttemptAssumption
    /\ Ready!ReadinessAssumption /\ Images!MirrorAssumption
    /\ Agent!RunAssumption /\ Chains!ChainsAssumption

-----------------------------------------------------------------------------
MCInit ==
    /\ part \in {"lease", "static", "dynamic", "cleanup", "readiness", "images", "agent", "chains"}
    /\ LeaseInit /\ Static!StaticInit /\ Dynamic!Init /\ Images!Init /\ Agent!Init
    /\ (part = "cleanup" \/ docker = [i \in Cleanup!Item |-> 0]) /\ Cleanup!Init
    /\ (part = "readiness" \/ updated = FALSE) /\ (part = "readiness" \/ restarts = FALSE) /\ Ready!Init
    /\ (part = "chains" \/ timer = 1) /\ Chains!Init

MCNext ==
    \/ /\ part = "lease" /\ LeaseNext
       /\ UNCHANGED <<part, staticVars, dynamicVars, cleanupVars, waitVars, imageVars, agentVars, chainVars>>
    \/ /\ part = "static" /\ Static!StaticNext
       /\ UNCHANGED <<part, leaseVars, dynamicVars, cleanupVars, waitVars, imageVars, agentVars, chainVars>>
    \/ /\ part = "dynamic" /\ Dynamic!Next
       /\ UNCHANGED <<part, leaseVars, staticVars, cleanupVars, waitVars, imageVars, agentVars, chainVars>>
    \/ /\ part = "cleanup" /\ Cleanup!Next
       /\ UNCHANGED <<part, leaseVars, staticVars, dynamicVars, waitVars, imageVars, agentVars, chainVars>>
    \/ /\ part = "readiness" /\ Ready!Next
       /\ UNCHANGED <<part, leaseVars, staticVars, dynamicVars, cleanupVars, imageVars, agentVars, chainVars>>
    \/ /\ part = "images" /\ Images!Next
       /\ UNCHANGED <<part, leaseVars, staticVars, dynamicVars, cleanupVars, waitVars, agentVars, chainVars>>
    \/ /\ part = "agent" /\ Agent!Next
       /\ UNCHANGED <<part, leaseVars, staticVars, dynamicVars, cleanupVars, waitVars, imageVars, chainVars>>
    \/ /\ part = "chains" /\ Chains!Next
       /\ UNCHANGED <<part, leaseVars, staticVars, dynamicVars, cleanupVars, waitVars, imageVars, agentVars>>

-----------------------------------------------------------------------------
(***************************************************************************)
(* The fairness the modules state; see there what in the code justifies    *)
(* it.  A cleanup is one sequential process.                               *)
(***************************************************************************)
CleanupStep ==
    \/ Cleanup!StartCleanup \/ Cleanup!NextKind \/ Cleanup!Verify
    \/ \E i \in Cleanup!Item : Cleanup!RemoveResource(i)

Fairness ==
    /\ WF_leaseVars(part = "lease" /\ Expire)
    /\ WF_staticVars(part = "static" /\ Static!WorkerStep(w1))
    /\ WF_staticVars(part = "static" /\ Static!Expire)
    /\ SF_staticVars(part = "static" /\ Static!Receive) /\ SF_staticVars(part = "static" /\ Static!recover)
    /\ WF_dynamicVars(part = "dynamic" /\ Dynamic!Step(b1)) /\ WF_dynamicVars(part = "dynamic" /\ Dynamic!Deliver(b1))
    /\ WF_dynamicVars(part = "dynamic" /\ Dynamic!Recover(b1)) /\ SF_dynamicVars(part = "dynamic" /\ Dynamic!TearDown(b1))
    /\ WF_cleanupVars(part = "cleanup" /\ CleanupStep)
    /\ \A s \in {db, web} : WF_cleanupVars(part = "cleanup" /\ s \in running /\ Cleanup!ContainerStops(s))
    /\ WF_waitVars(part = "readiness" /\ Ready!Wait) /\ WF_waitVars(part = "readiness" /\ Ready!Tick)
    /\ \A w \in {w1, w2} : WF_imageVars(part = "images" /\ Images!Step(w))
    /\ WF_agentVars(part = "agent" /\ Agent!Run)
    /\ WF_chainVars(part = "chains" /\ Chains!Pass) /\ WF_chainVars(part = "chains" /\ Chains!Recover)
    /\ WF_chainVars(part = "chains" /\ Chains!Consume) /\ WF_chainVars(part = "chains" /\ Chains!Operate)

MCSpec == MCInit /\ [][MCNext]_all /\ Fairness

-----------------------------------------------------------------------------
(***************************************************************************)
(* Properties.  The safety of waits, runs and chains is stated in Endings.  *)
(***************************************************************************)
\* Whatever dies on the way, time frees a lease, a pending static check is decided,
\* superseded or deleted, every dynamic check ends and so does the teardown of a
\* failed one; a cleanup that is asked for again after it has left something leaves
\* nothing (docs/api-call-flow.md:20); every wait, mirroring task and agent run
\* comes to its end; and so does a build, however often its polling chain is cut
\* and whether or not Jenkins ever finishes.
EveryPartEnds ==
    /\ DeadHolderIsFreed /\ Static!CheckSettles /\ Dynamic!CheckEnds /\ Cleanup!CleanupCompletes
    /\ part = "readiness" => Ready!WaitEnds
    /\ part = "images" => Images!SyncsEnd
    /\ part = "agent" => Agent!RunEnds
    /\ part = "chains" => Chains!BuildEnds
=============================================================================
