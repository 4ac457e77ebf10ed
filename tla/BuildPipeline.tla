--------------------------- MODULE BuildPipeline ---------------------------
(***************************************************************************)
(* The delivery of one build: BuildService.queue_build (services.py) and   *)
(* the worker operations start_build, poll_build and dynamic_route_check   *)
(* with everything they call (worker_runtime.py, dynamic_checks.py), run   *)
(* by sessions that crash, are redelivered and race each other.            *)
(*                                                                         *)
(* A session that has passed tracker.guard() performs the effect behind it *)
(* in a later step wherever the effect is visible to others and not itself *)
(* filtered by the lease owner: what it read may be stale by then.         *)
(***************************************************************************)
EXTENDS BuildState

(***************************************************************************)
(* queue_build: the API creates the rows, snapshots the workspace under a  *)
(* lease, and dispatches the start message.                                *)
(***************************************************************************)
QueueClaim(s) ==
    /\ At(s, "queue_claim")
    /\ manifest.cleanup_status = "not_started"
    /\ claim_build_lease(s)
    /\ Goto(s, "track_workspace")
    /\ UNCHANGED <<rowVars, outsideVars, queueVars, bounds>>

QueueRefused(s) ==
    /\ At(s, "queue_claim")
    /\ ~Claimable \/ manifest.cleanup_status # "not_started"
    /\ EndJob(s)
    /\ UNCHANGED <<leaseVars, rowVars, outsideVars, bounds>>

\* tracker.record("workspace", PLANNED) before anything is copied
TrackWorkspace(s) ==
    /\ At(s, "track_workspace")
    /\ IF guard(s)
       THEN manifest' = Track("workspace") /\ Goto(s, "snapshot")
       ELSE UNCHANGED manifest /\ Goto(s, "abort")
    /\ UNCHANGED <<leaseVars, build, outsideVars, queueVars, bounds>>

\* workspace.snapshot, then tracker.guard(); a WorkspaceError fails the build
Snapshot(s) ==
    /\ At(s, "snapshot")
    /\ \/ /\ live' = live \cup {"workspace"}
          /\ Goto(s, IF guard(s) THEN "inputs_ready" ELSE "abort")
       \/ /\ live' \in {live, live \cup {"workspace"}}
          /\ Goto(s, IF guard(s) THEN "queue_fail" ELSE "abort")
    /\ UNCHANGED <<leaseVars, rowVars, jenkins, queueVars, bounds>>

QueueFail(s) ==
    /\ At(s, "queue_fail")
    /\ build' = FailedBuild(build)
    /\ Goto(s, "abort")
    /\ UNCHANGED <<leaseVars, manifest, outsideVars, queueVars, bounds>>

InputsReady(s) ==
    /\ At(s, "inputs_ready")
    /\ build' = [build EXCEPT !.inputs_ready = TRUE]
    /\ Goto(s, "queue_release")
    /\ UNCHANGED <<leaseVars, manifest, outsideVars, queueVars, bounds>>

QueueRelease(s) ==
    /\ At(s, "queue_release")
    /\ release_build_lease(s)
    /\ Goto(s, "dispatch")
    /\ UNCHANGED <<rowVars, outsideVars, queueVars, bounds>>

Dispatch(s) ==
    /\ At(s, "dispatch")
    /\ EndJobSending(s, {StartTask})
    /\ UNCHANGED <<leaseVars, rowVars, outsideVars, bounds>>

\* send_task raises, whether or not the broker kept the message: the build is
\* failed without any lease
DispatchFails(s) ==
    /\ At(s, "dispatch")
    /\ Fault
    /\ \E sent \in {{}, {StartTask}} : EndJobSending(s, sent)
    /\ build' = FailedBuild(build)
    /\ UNCHANGED <<leaseVars, manifest, outsideVars>>

\* an exception leaves the `with` block of queue_build or of a recovery tick
Abort(s) ==
    /\ At(s, "abort")
    /\ release_build_lease(s)
    /\ EndJob(s)
    /\ UNCHANGED <<rowVars, outsideVars, bounds>>

-----------------------------------------------------------------------------
(***************************************************************************)
(* _run_build_operation: start_build, poll_build and dynamic_route_check   *)
(***************************************************************************)
Operation(m) == m[1] \in {"start", "poll", "dynamic"}

\* terminal build, inputs still being prepared, or the lease is refused
Refused ==
    \/ build.status \in TERMINAL_BUILD_STATUSES
    \/ ~build.inputs_ready
    \/ manifest.cleanup_status # "not_started"
    \/ ~Claimable

\* _teardown_if_required
TeardownDue == build.teardown_required /\ ~LeaseBusy

DeliverOperation(s, m) ==
    /\ At(s, "idle")
    /\ m \in tasks /\ Operation(m)
    /\ ~Refused
    /\ claim_build_lease(s)
    /\ job' = [job EXCEPT ![s] = m]
    /\ tasks' = tasks \ {m}
    /\ Goto(s, m[1])
    /\ UNCHANGED <<rowVars, outsideVars, ticket, bounds>>

\* a refused message is dropped; only the finally clause runs
DeliverRefused(s, m) ==
    /\ At(s, "idle")
    /\ m \in tasks /\ Operation(m)
    /\ Refused
    /\ tasks' = tasks \ {m}
    /\ IF TeardownDue
       THEN job' = [job EXCEPT ![s] = m] /\ Goto(s, "teardown")
       ELSE UNCHANGED <<job, pc>>
    /\ UNCHANGED <<leaseVars, rowVars, outsideVars, ticket, bounds>>

\* the operation returned, or raised ResourceConflict: leave the lease block
Done(s) ==
    /\ At(s, "done")
    /\ release_build_lease(s)
    /\ Goto(s, "after")
    /\ UNCHANGED <<rowVars, outsideVars, queueVars, bounds>>

After(s) ==
    /\ At(s, "after")
    /\ IF TeardownDue
       THEN Goto(s, "teardown") /\ UNCHANGED queueVars
       ELSE EndJob(s)
    /\ UNCHANGED <<leaseVars, rowVars, outsideVars, bounds>>

(***************************************************************************)
(* _start_build                                                            *)
(***************************************************************************)
TriggerOrBuild ==
    IF build.jenkins_queue_url THEN "to_building" ELSE "trigger_check"

StartBuild(s) ==
    /\ At(s, "start")
    /\ Goto(s, IF build.status \in TERMINAL_BUILD_STATUSES \/ ~guard(s) THEN "done"
               ELSE CASE build.status = "queued" -> "to_validating"
                      [] build.status = "validating" -> "validate"
                      [] build.status = "triggering" -> TriggerOrBuild
                      [] OTHER -> "schedule_first")
    /\ UNCHANGED <<leaseVars, rowVars, outsideVars, queueVars, bounds>>

ToValidating(s) == Transition(s, "to_validating", "validating", "validate")

\* compose, environment and GitLab reference are validated, then guarded
Validate(s) ==
    /\ At(s, "validate")
    /\ \/ Goto(s, IF guard(s) THEN "to_triggering" ELSE "done")
       \/ Goto(s, "fail")
    /\ UNCHANGED <<leaseVars, rowVars, outsideVars, queueVars, bounds>>

ToTriggering(s) == Transition(s, "to_triggering", "triggering", TriggerOrBuild)

\* mutation: a pending trigger is not noticed
TriggerUnchecked(s) ==
    /\ At(s, "trigger_check")
    /\ IF guard(s)
       THEN manifest' = Track("image") /\ Goto(s, "gate")
       ELSE UNCHANGED manifest /\ Goto(s, "fail")
    /\ UNCHANGED <<leaseVars, build, outsideVars, queueVars, bounds>>

\* an earlier trigger whose outcome is unknown fails the build; otherwise the
\* images Jenkins may push are recorded before it can push them
TriggerCheck(s) ==
    /\ At(s, "trigger_check")
    /\ IF guard(s) /\ ~manifest.jenkins_trigger_pending
       THEN manifest' = Track("image") /\ Goto(s, "gate")
       ELSE UNCHANGED manifest /\ Goto(s, "fail")
    /\ UNCHANGED <<leaseVars, build, outsideVars, queueVars, bounds>>

\* verify_build_gate on a fresh read of the build, then tracker.guard()
Gate(s) ==
    /\ At(s, "gate")
    /\ \/ Goto(s, IF guard(s) THEN "mark_pending" ELSE "fail")
       \/ Goto(s, "fail")
    /\ UNCHANGED <<leaseVars, rowVars, outsideVars, queueVars, bounds>>

\* the filtered update; its result is not looked at
MarkPending(s) ==
    /\ At(s, "mark_pending")
    /\ manifest' = IF guard(s)
                   THEN [manifest EXCEPT !.jenkins_trigger_pending = TRUE]
                   ELSE manifest
    /\ Goto(s, "trigger")
    /\ UNCHANGED <<leaseVars, build, outsideVars, queueVars, bounds>>

\* jenkins.trigger_build: accepted and answered; accepted, the answer lost or
\* without a queue location; known not to have started; nobody knows
TriggerAccepted ==
    jenkins' = [state |-> IF jenkins.state = "absent"
                          THEN "queued" ELSE jenkins.state,
                triggers |-> jenkins.triggers + 1]

TriggerBuild(s) ==
    /\ At(s, "trigger")
    /\ \/ TriggerAccepted /\ Goto(s, "triggered") /\ UNCHANGED bounds
       \/ TriggerAccepted /\ Goto(s, "fail") /\ Fault
       \/ UNCHANGED jenkins /\ Goto(s, "not_started") /\ UNCHANGED bounds
       \/ UNCHANGED jenkins /\ Goto(s, "fail") /\ Fault
    /\ UNCHANGED <<leaseVars, rowVars, live, queueVars>>

\* JenkinsNotStartedError: tracker.guard(), clear the mark, raise
NotStarted(s) ==
    /\ At(s, "not_started")
    /\ manifest' = IF guard(s)
                   THEN [manifest EXCEPT !.jenkins_trigger_pending = FALSE]
                   ELSE manifest
    /\ Goto(s, "fail")
    /\ UNCHANGED <<leaseVars, build, outsideVars, queueVars, bounds>>

Triggered(s) ==
    /\ At(s, "triggered")
    /\ Goto(s, IF guard(s) THEN "store_queue_url" ELSE "fail")
    /\ UNCHANGED <<leaseVars, rowVars, outsideVars, queueVars, bounds>>

StoreQueueUrl(s) ==
    /\ At(s, "store_queue_url")
    /\ build' = [build EXCEPT !.jenkins_queue_url = TRUE]
    /\ Goto(s, "clear_pending")
    /\ UNCHANGED <<leaseVars, manifest, outsideVars, queueVars, bounds>>

\* the filtered update, then _guard_operation before the transition
ClearPending(s) ==
    /\ At(s, "clear_pending")
    /\ manifest' = IF guard(s)
                   THEN [manifest EXCEPT !.jenkins_trigger_pending = FALSE]
                   ELSE manifest
    /\ Goto(s, IF guard(s) THEN "to_building" ELSE "fail")
    /\ UNCHANGED <<leaseVars, build, outsideVars, queueVars, bounds>>

ToBuilding(s) == Transition(s, "to_building", "building", "schedule_first")

\* _schedule_poll: a refused guard or a broker error fails the operation
SchedulePoll(s, attempt) ==
    \/ /\ guard(s)
       /\ tasks' = tasks \cup {PollTask(attempt)}
       /\ Goto(s, "done")
       /\ UNCHANGED bounds
    \/ /\ IF guard(s) THEN Fault ELSE UNCHANGED bounds
       /\ Goto(s, "fail")
       /\ UNCHANGED tasks

\* _schedule_poll(build_id, 0)
ScheduleFirst(s) ==
    /\ At(s, "schedule_first")
    /\ SchedulePoll(s, 0)
    /\ UNCHANGED <<leaseVars, rowVars, outsideVars, job, ticket>>

-----------------------------------------------------------------------------
(***************************************************************************)
(* _poll_build                                                             *)
(***************************************************************************)
PollBuild(s) ==
    /\ At(s, "poll")
    /\ Goto(s,
         IF build.status \in TERMINAL_BUILD_STATUSES \/ ~guard(s) THEN "done"
         ELSE IF build.status = "deploying" THEN "resume"
         ELSE IF job[s][2] >= MaxPolls THEN "fail_build"
         ELSE IF build.status \in {"queued", "validating", "triggering"} THEN "start"
         ELSE IF ~build.jenkins_queue_url THEN "fail"
         ELSE IF ~build.jenkins_build_number THEN "get_queue_item"
         ELSE "get_build")
    /\ UNCHANGED <<leaseVars, rowVars, outsideVars, queueVars, bounds>>

\* a Jenkins call of a poll raises: the build fails although Jenkins goes on
JenkinsCallFails(s) ==
    /\ pc[s] \in {"get_queue_item", "get_build"}
    /\ Fault
    /\ Goto(s, "fail")
    /\ UNCHANGED <<leaseVars, rowVars, outsideVars, queueVars>>

GetQueueItem(s) ==
    /\ At(s, "get_queue_item")
    /\ IF ~guard(s) \/ jenkins.state = "cancelled"
       THEN UNCHANGED build /\ Goto(s, "fail")
       ELSE IF jenkins.state = "queued"
       THEN /\ build' = [build EXCEPT !.last_polled_at = "fresh"]
            /\ Goto(s, "schedule_next")
       ELSE /\ build' = [build EXCEPT !.jenkins_build_number = TRUE,
                                      !.last_polled_at = "fresh"]
            /\ Goto(s, "get_build")
    /\ UNCHANGED <<leaseVars, manifest, outsideVars, queueVars, bounds>>

GetBuild(s) ==
    /\ At(s, "get_build")
    /\ IF ~guard(s)
       THEN UNCHANGED build /\ Goto(s, "fail")
       ELSE /\ build' = [build EXCEPT !.last_polled_at = "fresh"]
            /\ Goto(s, CASE jenkins.state = "succeeded" -> "artifact"
                         [] jenkins.state = "running" -> "schedule_next"
                         [] OTHER -> "fail")
    /\ UNCHANGED <<leaseVars, manifest, outsideVars, queueVars, bounds>>

\* _schedule_poll(build_id, attempt + 1)
ScheduleNext(s) ==
    /\ At(s, "schedule_next")
    /\ SchedulePoll(s, job[s][2] + 1)
    /\ UNCHANGED <<leaseVars, rowVars, outsideVars, job, ticket>>

(***************************************************************************)
(* _complete_deployment and _resume_deployment                             *)
(***************************************************************************)
\* the result artifact is fetched and validated, its images recorded
Artifact(s) ==
    /\ At(s, "artifact")
    /\ \/ guard(s) /\ manifest' = Track("image") /\ Goto(s, "to_deploying")
       \/ UNCHANGED manifest /\ Goto(s, "fail")
    /\ UNCHANGED <<leaseVars, build, outsideVars, queueVars, bounds>>

ToDeploying(s) == Transition(s, "to_deploying", "deploying", "track_service")

\* mutation: services are created without a record
CreateUntracked(s) ==
    /\ At(s, "track_service")
    /\ Goto(s, IF guard(s) THEN "create_service" ELSE "fail")
    /\ UNCHANGED <<leaseVars, rowVars, outsideVars, queueVars, bounds>>

\* deploy_build records every Docker object before creating it ...
TrackService(s) ==
    /\ At(s, "track_service")
    /\ IF guard(s)
       THEN manifest' = Track("service") /\ Goto(s, "create_service")
       ELSE UNCHANGED manifest /\ Goto(s, "fail")
    /\ UNCHANGED <<leaseVars, build, outsideVars, queueVars, bounds>>

\* ... and may fail with or without having created it
CreateService(s) ==
    /\ At(s, "create_service")
    /\ \/ live' = live \cup {"service"} /\ Goto(s, "save_services")
       \/ live' \in {live, live \cup {"service"}} /\ Goto(s, "fail")
    /\ UNCHANGED <<leaseVars, rowVars, jenkins, queueVars, bounds>>

\* save_service for every record and service_ids, then _probe_public_ports
SaveServices(s) ==
    /\ At(s, "save_services")
    /\ IF guard(s)
       THEN /\ build' = [build EXCEPT !.service_ids = TRUE]
            /\ Goto(s, "dynamic_execute") \/ Goto(s, "fail")
       ELSE UNCHANGED build /\ Goto(s, "fail")
    /\ UNCHANGED <<leaseVars, manifest, outsideVars, queueVars, bounds>>

ResumeDeployment(s) ==
    /\ At(s, "resume")
    /\ Goto(s, IF build.service_ids \/ build.dynamic_status # "pending"
               THEN "dynamic_execute"
               ELSE IF build.jenkins_build_number THEN "artifact" ELSE "fail")
    /\ UNCHANGED <<leaseVars, rowVars, outsideVars, queueVars, bounds>>

-----------------------------------------------------------------------------
(***************************************************************************)
(* dynamic_route_check, DynamicCheckService.execute and                    *)
(* _complete_dynamic_deployment; what happens between "running" and the    *)
(* verdict is module DynamicCheck's.                                       *)
(***************************************************************************)
DynamicRouteCheck(s) ==
    /\ At(s, "dynamic")
    /\ Goto(s, IF build.dynamic_run_id = job[s][2] /\ build.status = "deploying"
               THEN "dynamic_execute" ELSE "done")
    /\ UNCHANGED <<leaseVars, rowVars, outsideVars, queueVars, bounds>>

DynamicExecute(s) ==
    /\ At(s, "dynamic_execute")
    /\ LET settled == build.dynamic_status \in {"succeeded", "failed"}
           start == guard(s) /\ ~settled /\ build.status = "deploying"
       IN  /\ build' = IF start
                       THEN [build EXCEPT !.dynamic_status = "running",
                                !.dynamic_run_id = IF @ = 0 THEN 1 ELSE @]
                       ELSE build
           /\ Goto(s, IF start THEN "dynamic_verdict"
                      ELSE IF ~guard(s) \/ ~settled THEN "fail"
                      ELSE IF build.dynamic_status = "failed" /\ build.status = "deploying"
                      THEN "dynamic_fail" ELSE "dynamic_done")
    /\ UNCHANGED <<leaseVars, manifest, outsideVars, queueVars, bounds>>

\* _finish(passed): the result first, with the order to tear down
DynamicVerdict(s) ==
    /\ At(s, "dynamic_verdict")
    /\ IF guard(s)
       THEN \/ /\ build' = [build EXCEPT !.dynamic_status = "succeeded"]
               /\ Goto(s, "dynamic_done")
            \/ /\ build' = [build EXCEPT !.dynamic_status = "failed",
                                         !.teardown_required = TRUE,
                                         !.teardown_status = "pending"]
               /\ Goto(s, "dynamic_fail")
       ELSE UNCHANGED build /\ Goto(s, "fail")
    /\ UNCHANGED <<leaseVars, manifest, outsideVars, queueVars, bounds>>

\* ... and the build status after it
DynamicFail(s) ==
    /\ At(s, "dynamic_fail")
    /\ build' = IF guard(s) THEN FailedBuild(build) ELSE build
    /\ Goto(s, IF guard(s) THEN "dynamic_done" ELSE "fail")
    /\ UNCHANGED <<leaseVars, manifest, outsideVars, queueVars, bounds>>

DynamicDone(s) ==
    /\ At(s, "dynamic_done")
    /\ Goto(s, IF /\ guard(s)
                  /\ build.status \notin TERMINAL_BUILD_STATUSES
                  /\ build.dynamic_status = "succeeded"
                  /\ ~build.teardown_required
               THEN "to_succeeded" ELSE "done")
    /\ UNCHANGED <<leaseVars, rowVars, outsideVars, queueVars, bounds>>

ToSucceeded(s) == Transition(s, "to_succeeded", "succeeded", "done")

-----------------------------------------------------------------------------
(***************************************************************************)
(* DynamicCheckService.submit: a user asks to check a delivered build      *)
(* again.  The first tests run before the lease is taken.                  *)
(***************************************************************************)
RecheckRequested(s) ==
    /\ At(s, "idle") /\ Ask
    /\ build.status \in {"deploying", "succeeded"}
    /\ manifest.cleanup_status = "not_started"
    /\ ~build.teardown_required
    /\ build.service_ids
    /\ job' = [job EXCEPT ![s] = RecheckRequest]
    /\ Goto(s, "recheck_claim")
    /\ UNCHANGED <<leaseVars, rowVars, outsideVars, tasks, ticket>>

RecheckClaim(s) ==
    /\ At(s, "recheck_claim")
    /\ manifest.cleanup_status = "not_started"
    /\ claim_build_lease(s)
    /\ Goto(s, "recheck")
    /\ UNCHANGED <<rowVars, outsideVars, queueVars, bounds>>

RecheckRefused(s) ==
    /\ At(s, "recheck_claim")
    /\ ~Claimable \/ manifest.cleanup_status # "not_started"
    /\ EndJob(s)
    /\ UNCHANGED <<leaseVars, rowVars, outsideVars, bounds>>

\* a fresh read under the lease, then one compare-and-set that reopens the
\* build for a new run
CanRecheck(s) ==
    /\ build.dynamic_status \notin {"queued", "running"}
    /\ build.status \in {"deploying", "succeeded"}
    /\ ~build.teardown_required
    /\ guard(s)

\* mutation: the delivered build is not reopened
RecheckKeepsStatus(s) ==
    /\ At(s, "recheck")
    /\ IF CanRecheck(s)
       THEN /\ build' = [build EXCEPT !.dynamic_status = "queued",
                                      !.dynamic_run_id = @ + 1]
            /\ Goto(s, "recheck_release") \/ Goto(s, "abort")
       ELSE UNCHANGED build /\ Goto(s, "abort")
    /\ UNCHANGED <<leaseVars, manifest, outsideVars, queueVars, bounds>>

Recheck(s) ==
    /\ At(s, "recheck")
    /\ IF CanRecheck(s)
       THEN /\ build' = [build EXCEPT !.status = "deploying",
                                      !.dynamic_status = "queued",
                                      !.dynamic_run_id = @ + 1]
            \* _claim_result raises when the static check was superseded
            /\ Goto(s, "recheck_release") \/ Goto(s, "abort")
       ELSE UNCHANGED build /\ Goto(s, "abort")
    /\ UNCHANGED <<leaseVars, manifest, outsideVars, queueVars, bounds>>

RecheckRelease(s) ==
    /\ At(s, "recheck_release")
    /\ release_build_lease(s)
    /\ Goto(s, "recheck_dispatch")
    /\ UNCHANGED <<rowVars, outsideVars, queueVars, bounds>>

\* a failed dispatch leaves the saved run to recover_route_checks
RecheckDispatch(s) ==
    /\ At(s, "recheck_dispatch")
    /\ \/ EndJobSending(s, {DynamicTask(build.dynamic_run_id)}) /\ UNCHANGED bounds
       \/ EndJob(s) /\ Fault
    /\ UNCHANGED <<leaseVars, rowVars, outsideVars>>

-----------------------------------------------------------------------------
(***************************************************************************)
(* _fail: a lost lease ends the operation; a build that fails while        *)
(* deploying is marked for teardown before its status changes.             *)
(***************************************************************************)
Fail(s) ==
    /\ At(s, "fail")
    /\ Goto(s, IF ~guard(s) THEN "done"
               ELSE IF build.status = "deploying" THEN "fail_deploying"
               ELSE "fail_build")
    /\ UNCHANGED <<leaseVars, rowVars, outsideVars, queueVars, bounds>>

FailDeploying(s) ==
    /\ At(s, "fail_deploying")
    /\ build' = [build EXCEPT !.dynamic_status = "failed",
                              !.teardown_required = TRUE,
                              !.teardown_status = "pending"]
    /\ Goto(s, "fail_build")
    /\ UNCHANGED <<leaseVars, manifest, outsideVars, queueVars, bounds>>

FailBuild(s) ==
    /\ At(s, "fail_build")
    /\ build' = FailedBuild(build)
    /\ Goto(s, "done")
    /\ UNCHANGED <<leaseVars, manifest, outsideVars, queueVars, bounds>>

-----------------------------------------------------------------------------
(***************************************************************************)
(* recover_builds, as it treats this build.  The tick reschedules builds   *)
(* without a lease; one whose snapshot was never finished it fails.        *)
(***************************************************************************)
\* mutation: only builds a worker has seen are recovered
RecoverSeen(s) ==
    /\ At(s, "idle") /\ ~Backlogged
    /\ build.inputs_ready
    /\ build.status \in {"validating", "triggering"}
    /\ tasks' = tasks \cup {StartTask}
    /\ UNCHANGED <<leaseVars, rowVars, outsideVars, job, ticket, pc, bounds>>

RecoverStart(s) ==
    /\ At(s, "idle") /\ ~Backlogged
    /\ build.inputs_ready
    /\ build.status \in {"queued", "validating", "triggering"}
    /\ tasks' = tasks \cup {StartTask}
    /\ UNCHANGED <<leaseVars, rowVars, outsideVars, job, ticket, pc, bounds>>

RecoverPoll(s) ==
    /\ At(s, "idle") /\ ~Backlogged
    /\ build.inputs_ready
    /\ build.status \in {"building", "deploying"}
    /\ build.last_polled_at # "fresh"
    /\ tasks' = tasks \cup {PollTask(0)}
    /\ UNCHANGED <<leaseVars, rowVars, outsideVars, job, ticket, pc, bounds>>

\* older than an hour and still not ready
RecoverInputs(s) ==
    /\ At(s, "idle")
    /\ ~build.inputs_ready
    /\ build.status \notin TERMINAL_BUILD_STATUSES
    /\ manifest.cleanup_status = "not_started"
    /\ claim_build_lease(s)
    /\ job' = [job EXCEPT ![s] = Tick]
    /\ Goto(s, "recover_inputs")
    /\ UNCHANGED <<rowVars, outsideVars, tasks, ticket, bounds>>

RecoverInputsFail(s) ==
    /\ At(s, "recover_inputs")
    /\ build' = IF ~build.inputs_ready /\ guard(s) THEN FailedBuild(build) ELSE build
    /\ Goto(s, "abort")
    /\ UNCHANGED <<leaseVars, manifest, outsideVars, queueVars, bounds>>

=============================================================================
