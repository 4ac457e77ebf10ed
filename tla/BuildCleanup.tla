---------------------------- MODULE BuildCleanup ----------------------------
(***************************************************************************)
(* Removing what a build owns: BuildResourceService.request_cleanup and    *)
(* recover, BuildCleanupRunner.run (build_resources.py), and the teardown  *)
(* of a failed delivery with its recovery (dynamic_checks.py teardown,     *)
(* sync_teardown, recover).  A user's request and a teardown go through    *)
(* the same two leases: one to queue the cleanup, one to run it.           *)
(***************************************************************************)
EXTENDS BuildState

\* teardown runs request and cleanup in place; a request dispatches a task
TearingDown(s) == job[s] # CleanupRequest

(***************************************************************************)
(* request_cleanup                                                         *)
(***************************************************************************)
\* the tests made before the lease is taken: nothing to do, a build that is
\* not quiescent, or on to the lease
Answered == manifest.cleanup_status \in {"queued", "running", "succeeded"}

\* a user asks; the other two answers change nothing
CleanupRequested(s) ==
    /\ At(s, "idle") /\ Ask
    /\ ~Answered /\ assert_quiescent
    /\ job' = [job EXCEPT ![s] = CleanupRequest]
    /\ Goto(s, "request_claim")
    /\ UNCHANGED <<leaseVars, rowVars, outsideVars, tasks, ticket>>

\* DynamicCheckService.teardown
Teardown(s) ==
    /\ At(s, "teardown")
    /\ Goto(s, IF ~build.teardown_required THEN "sync"
               ELSE IF Answered THEN "requested"
               ELSE IF assert_quiescent THEN "request_claim"
               ELSE "request_raises")
    /\ UNCHANGED <<leaseVars, rowVars, outsideVars, queueVars, bounds>>

\* Jenkins cannot be asked whether the build is quiescent
TeardownFails(s) ==
    /\ At(s, "teardown")
    /\ build.teardown_required /\ ~Answered
    /\ Fault
    /\ Goto(s, "request_raises")
    /\ UNCHANGED <<leaseVars, rowVars, outsideVars, queueVars>>

RequestClaim(s) ==
    /\ At(s, "request_claim")
    /\ manifest.cleanup_status \in {"not_started", "partial_failed"}
    /\ claim_build_lease(s)
    /\ Goto(s, "request_queue")
    /\ UNCHANGED <<rowVars, outsideVars, queueVars, bounds>>

RequestRefused(s) ==
    /\ At(s, "request_claim")
    /\ ~Claimable \/ manifest.cleanup_status \notin {"not_started", "partial_failed"}
    /\ Goto(s, IF Answered THEN "requested" ELSE "request_raises")
    /\ UNCHANGED <<leaseVars, rowVars, outsideVars, queueVars, bounds>>

\* the filtered update to QUEUED; cleanup_generation + 1 makes every earlier
\* requester's generation stale, which is all a generation is compared for
RequestQueue(s) ==
    /\ At(s, "request_queue")
    /\ IF guard(s)
       THEN /\ manifest' = [manifest EXCEPT !.cleanup_status = "queued"]
            /\ ticket' = {s}
            /\ Goto(s, "request_release")
       ELSE UNCHANGED <<manifest, ticket>> /\ Goto(s, "request_abort")
    /\ UNCHANGED <<leaseVars, build, outsideVars, tasks, job, bounds>>

RequestRelease(s) ==
    /\ pc[s] \in {"request_release", "request_abort"}
    /\ release_build_lease(s)
    /\ Goto(s, IF At(s, "request_abort") THEN "request_raises"
               ELSE IF TearingDown(s) THEN "requested"
               ELSE "request_dispatch")
    /\ UNCHANGED <<rowVars, outsideVars, queueVars, bounds>>

RequestDispatch(s) ==
    /\ At(s, "request_dispatch")
    /\ EndJobSending(s, {CleanupTask})
    /\ UNCHANGED <<leaseVars, rowVars, outsideVars, bounds>>

\* the broker refuses: back to PARTIAL_FAILED if this request is still the
\* queued one
RequestDispatchFails(s) ==
    /\ At(s, "request_dispatch")
    /\ Fault
    /\ manifest' = IF manifest.cleanup_status = "queued" /\ s \in ticket
                   THEN [manifest EXCEPT !.cleanup_status = "partial_failed"]
                   ELSE manifest
    /\ \E sent \in {{}, {CleanupTask}} : EndJobSending(s, sent)
    /\ UNCHANGED <<leaseVars, build, outsideVars>>

\* the request was answered: a teardown notes it and runs the cleanup itself
Requested(s) ==
    /\ At(s, "requested")
    /\ IF TearingDown(s)
       THEN /\ build' = [build EXCEPT !.teardown_status = "running"]
            /\ Goto(s, "run")
            /\ UNCHANGED queueVars
       ELSE UNCHANGED build /\ EndJob(s)
    /\ UNCHANGED <<leaseVars, manifest, outsideVars, bounds>>

\* request or run raised: the API answers 409, a teardown stays required
RequestRaises(s) ==
    /\ At(s, "request_raises")
    /\ build' = IF TearingDown(s)
                THEN [build EXCEPT !.teardown_required = TRUE,
                                   !.teardown_status = "partial_failed"]
                ELSE build
    /\ EndJob(s)
    /\ UNCHANGED <<leaseVars, manifest, outsideVars, bounds>>

-----------------------------------------------------------------------------
(***************************************************************************)
(* cleanup_build: BuildCleanupRunner.run, then sync_teardown               *)
(***************************************************************************)
DeliverCleanup(s) ==
    /\ At(s, "idle")
    /\ CleanupTask \in tasks
    /\ tasks' = tasks \ {CleanupTask}
    /\ job' = [job EXCEPT ![s] = CleanupTask]
    /\ Goto(s, "run")
    /\ UNCHANGED <<leaseVars, rowVars, outsideVars, ticket, bounds>>

RunClaim(s) ==
    /\ At(s, "run")
    /\ manifest.cleanup_status \in {"queued", "running"}
    /\ claim_build_lease(s)
    /\ Goto(s, "run_mark")
    /\ UNCHANGED <<rowVars, outsideVars, queueVars, bounds>>

RunRefused(s) ==
    /\ At(s, "run")
    /\ ~Claimable \/ manifest.cleanup_status \notin {"queued", "running"}
    /\ Goto(s, "sync")
    /\ UNCHANGED <<leaseVars, rowVars, outsideVars, queueVars, bounds>>

\* the filtered update to RUNNING; its result is not looked at
RunMark(s) ==
    /\ At(s, "run_mark")
    /\ manifest' = IF guard(s)
                   THEN [manifest EXCEPT !.cleanup_status = "running"]
                   ELSE manifest
    /\ Goto(s, "quiesce")
    /\ UNCHANGED <<leaseVars, build, outsideVars, queueVars, bounds>>

\* assert_quiescent once more, now under the lease; asking Jenkins may fail
Quiesce(s) ==
    /\ At(s, "quiesce")
    /\ \/ /\ assert_quiescent
          /\ Goto(s, "remove_service")
          /\ UNCHANGED <<manifest, bounds>>
       \/ /\ IF assert_quiescent THEN Fault ELSE UNCHANGED bounds
          /\ manifest' = IF guard(s)
                         THEN [manifest EXCEPT !.cleanup_status = "partial_failed"]
                         ELSE manifest
          /\ Goto(s, "run_release")
    /\ UNCHANGED <<leaseVars, build, outsideVars, queueVars>>

(***************************************************************************)
(* The loop over the kinds, in the runner's order.  Per resource: guard,   *)
(* remove it, tracker.update(REMOVED).  Other kinds than services are only *)
(* removed when no service is left.                                        *)
(***************************************************************************)
RemoveLabel == [service |-> "remove_service", workspace |-> "remove_workspace",
                image |-> "remove_image"]
AfterRemoval == [service |-> "remove_workspace", workspace |-> "remove_image",
                 image |-> "verdict"]

Removable(kind) == kind = "service" \/ ~Tracked("service")

Remove(s, kind) ==
    /\ At(s, RemoveLabel[kind])
    /\ CASE Tracked(kind) /\ ~guard(s) ->
              UNCHANGED <<manifest, live>> /\ Goto(s, "run_raises")
         [] Tracked(kind) /\ guard(s) /\ Removable(kind) ->
              /\ manifest' = [manifest EXCEPT !.resources[kind] = "removed"]
              /\ live' = live \ {kind}
              /\ Goto(s, AfterRemoval[kind])
         [] OTHER ->
              UNCHANGED <<manifest, live>> /\ Goto(s, AfterRemoval[kind])
    /\ UNCHANGED <<leaseVars, build, jenkins, queueVars, bounds>>

\* the external call fails, with or without effect: the resource stays tracked
RemoveFails(s, kind) ==
    /\ At(s, RemoveLabel[kind])
    /\ Tracked(kind) /\ guard(s) /\ Removable(kind)
    /\ Fault
    /\ live' \in {live, live \ {kind}}
    /\ Goto(s, AfterRemoval[kind])
    /\ UNCHANGED <<leaseVars, rowVars, jenkins, queueVars>>

\* mutation: only services count
NoServiceLeft == "service" \notin live /\ ~Tracked("service")

\* nothing left and discovery, verification without errors; the write is
\* filtered by owner and RUNNING, and raises when it matches nothing
NothingLeft == "service" \notin live /\ \A kind \in Kind : ~Tracked(kind)

Verdict(s) ==
    /\ At(s, "verdict")
    /\ IF guard(s) /\ manifest.cleanup_status = "running"
       THEN /\ \E status \in {"succeeded", "partial_failed"} :
                 /\ manifest' = [manifest EXCEPT !.cleanup_status = status]
                 /\ status = "succeeded" => NothingLeft
                 /\ IF status = "partial_failed" /\ NothingLeft
                    THEN Fault ELSE UNCHANGED bounds
            /\ Goto(s, "run_release")
       ELSE UNCHANGED <<manifest, bounds>> /\ Goto(s, "run_raises")
    /\ UNCHANGED <<leaseVars, build, outsideVars, queueVars>>

\* an exception out of run fails a teardown, whose write of the build follows
\* the sync of cleanup_build's finally clause at once; a cleanup task only syncs
RunRelease(s) ==
    /\ pc[s] \in {"run_release", "run_raises"}
    /\ release_build_lease(s)
    /\ Goto(s, IF At(s, "run_raises") /\ job[s] # CleanupTask
               THEN "request_raises" ELSE "sync")
    /\ UNCHANGED <<rowVars, outsideVars, queueVars, bounds>>

(***************************************************************************)
(* sync_teardown reads the manifest and then writes the build, both        *)
(* without a lease                                                         *)
(***************************************************************************)
SyncLabel == [not_started |-> "sync_pending", queued |-> "sync_pending",
              running |-> "sync_running", succeeded |-> "sync_succeeded",
              partial_failed |-> "sync_partial_failed"]
SyncStatus == [sync_pending |-> "pending", sync_running |-> "running",
               sync_succeeded |-> "succeeded",
               sync_partial_failed |-> "partial_failed"]

Sync(s) ==
    /\ At(s, "sync")
    /\ IF ~build.teardown_required /\ build.teardown_status = "none"
       THEN EndJob(s)
       ELSE Goto(s, SyncLabel[manifest.cleanup_status]) /\ UNCHANGED queueVars
    /\ UNCHANGED <<leaseVars, rowVars, outsideVars, bounds>>

\* mutation: only a partial failure keeps the teardown required
SyncForgets(s) ==
    /\ pc[s] \in DOMAIN SyncStatus
    /\ build' = [build EXCEPT !.teardown_status = SyncStatus[pc[s]],
                              !.teardown_required = At(s, "sync_partial_failed")]
    /\ EndJob(s)
    /\ UNCHANGED <<leaseVars, manifest, outsideVars, bounds>>

SyncWrite(s) ==
    /\ pc[s] \in DOMAIN SyncStatus
    /\ build' = [build EXCEPT !.teardown_status = SyncStatus[pc[s]],
                              !.teardown_required = ~At(s, "sync_succeeded")]
    /\ EndJob(s)
    /\ UNCHANGED <<leaseVars, manifest, outsideVars, bounds>>

-----------------------------------------------------------------------------
(***************************************************************************)
(* The beat ticks recover_cleanups and recover_route_checks                *)
(***************************************************************************)
\* mutation: an interrupted cleanup is not taken up again
RecoverQueuedOnly(s) ==
    /\ At(s, "idle") /\ ~Backlogged
    /\ manifest.cleanup_status = "queued"
    /\ ~LeaseBusy
    /\ tasks' = tasks \cup {CleanupTask}
    /\ UNCHANGED <<leaseVars, rowVars, outsideVars, job, ticket, pc, bounds>>

RecoverCleanup(s) ==
    /\ At(s, "idle") /\ ~Backlogged
    /\ manifest.cleanup_status \in {"queued", "running"}
    /\ ~LeaseBusy
    /\ tasks' = tasks \cup {CleanupTask}
    /\ UNCHANGED <<leaseVars, rowVars, outsideVars, job, ticket, pc, bounds>>

RecoverDynamic(s) ==
    /\ At(s, "idle") /\ ~Backlogged
    /\ ~LeaseBusy
    /\ ~build.teardown_required
    /\ build.dynamic_status \in {"queued", "running"}
    /\ build.status = "deploying"
    /\ tasks' = tasks \cup {DynamicTask(build.dynamic_run_id)}
    /\ UNCHANGED <<leaseVars, rowVars, outsideVars, job, ticket, pc, bounds>>

RecoverTeardown(s) ==
    /\ At(s, "idle")
    /\ ~LeaseBusy
    /\ build.teardown_required
    /\ job' = [job EXCEPT ![s] = Tick]
    /\ Goto(s, IF build.dynamic_status = "failed" THEN "recover_claim" ELSE "teardown")
    /\ UNCHANGED <<leaseVars, rowVars, outsideVars, tasks, ticket, bounds>>

RecoverClaim(s) ==
    /\ At(s, "recover_claim")
    /\ manifest.cleanup_status \in {"not_started", "partial_failed"}
    /\ claim_build_lease(s)
    /\ Goto(s, "recover_fail")
    /\ UNCHANGED <<rowVars, outsideVars, queueVars, bounds>>

\* tracker is None: `continue` with the next build
RecoverRefused(s) ==
    /\ At(s, "recover_claim")
    /\ ~Claimable \/ manifest.cleanup_status \notin {"not_started", "partial_failed"}
    /\ EndJob(s)
    /\ UNCHANGED <<leaseVars, rowVars, outsideVars, bounds>>

\* a crash between _finish's two writes left the build deploying
RecoverFail(s) ==
    /\ At(s, "recover_fail")
    /\ build' = IF guard(s) /\ build.dynamic_status = "failed" /\ build.status = "deploying"
                THEN FailedBuild(build) ELSE build
    /\ Goto(s, IF guard(s) THEN "recover_release" ELSE "abort")
    /\ UNCHANGED <<leaseVars, manifest, outsideVars, queueVars, bounds>>

RecoverRelease(s) ==
    /\ At(s, "recover_release")
    /\ release_build_lease(s)
    /\ Goto(s, "teardown")
    /\ UNCHANGED <<rowVars, outsideVars, queueVars, bounds>>

=============================================================================
