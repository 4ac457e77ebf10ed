--------------------------- MODULE BuildDelivery ---------------------------
(***************************************************************************)
(* One build from creation to removal: the pipeline, rechecks, cleanup,    *)
(* teardown and recovery ticks of BuildPipeline and BuildCleanup, run by   *)
(* workers and API threads over the shared rows, with Jenkins, the clock   *)
(* and crashes as the environment.                                         *)
(***************************************************************************)
EXTENDS BuildPipeline, BuildCleanup

\* queue_build has just created the build row and its manifest
Init ==
    /\ LeaseInit
    /\ build = [status |-> "queued", inputs_ready |-> FALSE,
                jenkins_queue_url |-> FALSE, jenkins_build_number |-> FALSE,
                last_polled_at |-> "never", service_ids |-> FALSE,
                dynamic_status |-> "pending", dynamic_run_id |-> 0,
                teardown_required |-> FALSE, teardown_status |-> "none"]
    /\ manifest = [cleanup_status |-> "not_started",
                   jenkins_trigger_pending |-> FALSE,
                   resources |-> [kind \in Kind |-> "none"]]
    /\ tasks = {}
    /\ jenkins = [state |-> "absent", triggers |-> 0]
    /\ live = {}
    /\ \E a \in Api :
          /\ pc = [s \in Session |-> IF s = a THEN "queue_claim" ELSE "idle"]
          /\ job = [s \in Session |-> IF s = a THEN QueueRequest ELSE NoJob]
    /\ ticket = {}
    /\ faults = 0
    /\ requests = 0

-----------------------------------------------------------------------------
(***************************************************************************)
(* The environment                                                         *)
(***************************************************************************)
\* the queue item is given an executor or cancelled; the run ends, and may
\* have pushed its images even when it failed
JenkinsStep ==
    /\ \/ /\ jenkins.state = "queued"
          /\ \E state \in {"running", "cancelled"} :
                jenkins' = [jenkins EXCEPT !.state = state]
          /\ UNCHANGED live
       \/ /\ jenkins.state = "running"
          /\ \/ /\ jenkins' = [jenkins EXCEPT !.state = "succeeded"]
                /\ live' = live \cup {"image"}
             \/ /\ jenkins' = [jenkins EXCEPT !.state = "failed"]
                /\ live' \in {live, live \cup {"image"}}
    /\ UNCHANGED <<leaseVars, rowVars, queueVars, pc, bounds>>

\* the recovery window stale_after passes since the last poll, which only
\* matters to a build that may still be polled
PollAges ==
    /\ build.status \in {"building", "deploying"}
    /\ build.last_polled_at = "fresh"
    /\ build' = [build EXCEPT !.last_polled_at = "stale"]
    /\ UNCHANGED <<leaseVars, manifest, outsideVars, queueVars, pc, bounds>>

\* a lease runs out; under a live holder that is a fault
LeaseExpires ==
    /\ Expire
    /\ IF lease.owner \in holding THEN Fault ELSE UNCHANGED bounds
    /\ UNCHANGED <<rowVars, outsideVars, queueVars, pc>>

\* a process dies at any point; its unacknowledged message returns
Crash(s) ==
    /\ pc[s] # "idle"
    /\ Fault
    /\ IF s \in holding THEN HolderDies(s) ELSE UNCHANGED leaseVars
    /\ Goto(s, "idle")
    /\ job' = [job EXCEPT ![s] = NoJob]
    /\ tasks' = tasks \cup ({job[s]} \cap Task)
    /\ ticket' = ticket \ {s}
    /\ UNCHANGED <<rowVars, outsideVars>>

\* the visibility timeout: a message is offered again while it is handled
Redeliver(s) ==
    /\ job[s] \in Task
    /\ Fault
    /\ tasks' = tasks \cup {job[s]}
    /\ UNCHANGED <<leaseVars, rowVars, outsideVars, job, ticket, pc>>

-----------------------------------------------------------------------------
\* a session goes on with what it is doing
QueueStep(s) ==
    \/ QueueClaim(s) \/ QueueRefused(s) \/ TrackWorkspace(s) \/ Snapshot(s)
    \/ QueueFail(s) \/ InputsReady(s) \/ QueueRelease(s) \/ Dispatch(s)
    \/ DispatchFails(s) \/ Abort(s)

StartStep(s) ==
    \/ StartBuild(s) \/ ToValidating(s) \/ Validate(s) \/ ToTriggering(s)
    \/ TriggerCheck(s) \/ Gate(s) \/ MarkPending(s) \/ TriggerBuild(s)
    \/ NotStarted(s) \/ Triggered(s) \/ StoreQueueUrl(s) \/ ClearPending(s)
    \/ ToBuilding(s) \/ ScheduleFirst(s)

PollStep(s) ==
    \/ PollBuild(s) \/ JenkinsCallFails(s) \/ GetQueueItem(s) \/ GetBuild(s)
    \/ ScheduleNext(s) \/ Artifact(s) \/ ToDeploying(s) \/ TrackService(s)
    \/ CreateService(s) \/ SaveServices(s) \/ ResumeDeployment(s)

DynamicStep(s) ==
    \/ DynamicRouteCheck(s) \/ DynamicExecute(s) \/ DynamicVerdict(s)
    \/ DynamicFail(s) \/ DynamicDone(s) \/ ToSucceeded(s)

EndStep(s) ==
    Fail(s) \/ FailDeploying(s) \/ FailBuild(s) \/ Done(s) \/ After(s)

RecheckStep(s) ==
    \/ RecheckClaim(s) \/ RecheckRefused(s) \/ Recheck(s)
    \/ RecheckRelease(s) \/ RecheckDispatch(s)

RequestStep(s) ==
    \/ Teardown(s) \/ TeardownFails(s) \/ RequestClaim(s) \/ RequestRefused(s)
    \/ RequestQueue(s) \/ RequestRelease(s) \/ RequestDispatch(s)
    \/ RequestDispatchFails(s) \/ Requested(s) \/ RequestRaises(s)

RunStep(s) ==
    \/ RunClaim(s) \/ RunRefused(s) \/ RunMark(s) \/ Quiesce(s)
    \/ \E kind \in Kind : Remove(s, kind) \/ RemoveFails(s, kind)
    \/ Verdict(s) \/ RunRelease(s) \/ Sync(s) \/ SyncWrite(s)

RecoverStep(s) ==
    \/ RecoverInputsFail(s) \/ RecoverClaim(s) \/ RecoverRefused(s)
    \/ RecoverFail(s) \/ RecoverRelease(s)

Step(s) ==
    \/ QueueStep(s) \/ StartStep(s) \/ PollStep(s) \/ DynamicStep(s)
    \/ EndStep(s) \/ RecheckStep(s) \/ RequestStep(s) \/ RunStep(s)
    \/ RecoverStep(s)

\* an idle worker takes a message
Deliver(w) == 
    \/ \E m \in tasks : DeliverOperation(w, m) \/ DeliverRefused(w, m)
    \/ DeliverCleanup(w)

\* the three beat ticks, as they treat this build
RecoverBuilds(w) == RecoverStart(w) \/ RecoverPoll(w) \/ RecoverInputs(w)
RecoverRouteChecks(w) == RecoverDynamic(w) \/ RecoverTeardown(w)

Next ==
    \/ \E s \in Session : Step(s) \/ Crash(s) \/ Redeliver(s)
    \/ \E w \in Worker : \/ Deliver(w)
                         \/ RecoverBuilds(w)
                         \/ RecoverCleanup(w)
                         \/ RecoverRouteChecks(w)
    \/ \E a \in Api : CleanupRequested(a) \/ RecheckRequested(a)
    \/ JenkinsStep
    \/ PollAges
    \/ LeaseExpires

Spec == Init /\ [][Next]_vars

(***************************************************************************)
(* Processes that have started something go on unless they crash, messages *)
(* are eventually received (the broker's queue is FIFO), beat keeps        *)
(* ticking, Jenkins runs end, time passes.  Users need not ask anything.   *)
(***************************************************************************)
Fairness ==
    /\ \A s \in Session : WF_vars(Step(s))
    /\ SF_vars(\E w \in Worker : Deliver(w))
    /\ SF_vars(\E w \in Worker : RecoverBuilds(w))
    /\ SF_vars(\E w \in Worker : RecoverCleanup(w))
    /\ SF_vars(\E w \in Worker : RecoverRouteChecks(w))
    /\ WF_vars(JenkinsStep)
    /\ WF_vars(PollAges)
    /\ WF_vars(LeaseExpires)

FairSpec == Spec /\ Fairness

-----------------------------------------------------------------------------
(***************************************************************************)
(* Properties                                                              *)
(***************************************************************************)

Label ==
    {"idle", "queue_claim", "track_workspace", "snapshot", "queue_fail",
     "inputs_ready", "queue_release", "dispatch", "abort",
     "start", "to_validating", "validate", "to_triggering", "trigger_check",
     "gate", "mark_pending", "trigger", "not_started", "triggered",
     "store_queue_url", "clear_pending", "to_building", "schedule_first",
     "poll", "get_queue_item", "get_build", "schedule_next", "artifact",
     "to_deploying", "track_service", "create_service", "save_services",
     "resume", "dynamic", "dynamic_execute", "dynamic_verdict",
     "dynamic_fail", "dynamic_done", "to_succeeded",
     "fail", "fail_deploying", "fail_build", "done", "after",
     "recheck_claim", "recheck", "recheck_release", "recheck_dispatch",
     "teardown", "request_claim", "request_queue",
     "request_release", "request_abort", "request_dispatch", "requested",
     "request_raises", "run", "run_mark", "quiesce", "remove_service",
     "remove_workspace", "remove_image", "verdict", "run_release",
     "run_raises", "sync", "sync_pending", "sync_running", "sync_succeeded",
     "sync_partial_failed", "recover_inputs", "recover_claim",
     "recover_fail", "recover_release"}

Jenkins ==
    [state : {"absent", "queued", "running", "succeeded", "failed", "cancelled"},
     triggers : Nat]

TypeOK ==
    /\ LeaseTypeOK
    /\ build \in BuildJob
    /\ manifest \in BuildResources
    /\ tasks \subseteq Task
    /\ jenkins \in Jenkins
    /\ live \subseteq Kind
    /\ pc \in [Session -> Label]
    /\ job \in [Session -> Job]
    /\ ticket \subseteq Session
    /\ faults \in 0..MaxFaults
    /\ requests \in 0..MaxRequests

\* Jenkins is triggered at most once for a build, whatever crashes, messages
\* and recovery ticks do (_start_build and jenkins_trigger_pending).
AtMostOneTrigger == jenkins.triggers <= 1

Removing(s) == pc[s] \in {"remove_service", "remove_workspace",
                          "remove_image", "verdict"}

\* While a cleanup removes resources no Jenkins run of the build is queued or
\* running that could still push images (assert_quiescent under the lease).
NoRemovalWhileJenkinsRuns == \A s \in Session : Removing(s) => ~JenkinsActive

\* ... and the build can no longer deploy, be rechecked or succeed.
RemovalOnlyOfTerminal ==
    \A s \in Session : Removing(s) => build.status \in TERMINAL_BUILD_STATUSES

\* Whatever exists outside the database is in the manifest: every kind is
\* recorded before it is created, so a crash leaves nothing untracked.
NothingUntracked == \A kind \in live : Tracked(kind)

\* A cleanup reported as succeeded has left nothing behind, and nothing of
\* the build appears afterwards.
CleanupLeavesNothing ==
    manifest.cleanup_status = "succeeded" => live = {} /\ ~JenkinsActive

\* A build reported as succeeded has its services running and passed its
\* latest route check, until a cleanup is accepted.
SucceededIsRunning ==
    build.status = "succeeded" /\ manifest.cleanup_status = "not_started" =>
        /\ "service" \in live
        /\ build.dynamic_status = "succeeded"
        /\ ~build.teardown_required

\* A delivery that failed while deploying stays marked for teardown until a
\* cleanup has succeeded: neither a crash between the two writes of _fail and
\* _finish, nor a racing sync_teardown, recheck or request loses the mark.
TeardownNotForgotten ==
    build.dynamic_status = "failed" =>
        build.teardown_required \/ manifest.cleanup_status = "succeeded"

\* Terminal statuses are final, except that a recheck reopens a succeeded
\* build for a new dynamic run.
TerminalIsFinal ==
    [][build.status \in TERMINAL_BUILD_STATUSES /\ build'.status # build.status =>
          /\ build.status = "succeeded"
          /\ build'.status = "deploying"
          /\ build'.dynamic_run_id > build.dynamic_run_id]_vars

\* No terminal status is ever left: what docs/architecture.md says of
\* succeeded and failed, and submit does not keep: README, section 4.
TerminalNeverLeft ==
    [][build.status \in TERMINAL_BUILD_STATUSES =>
          build'.status = build.status]_vars

\* Only terminal builds are cleaned up: what docs/api-reference.md promises
\* of DELETE, and the order of test and lease in request_cleanup does not.
CleanupOnlyOfTerminal ==
    manifest.cleanup_status # "not_started" =>
        build.status \in TERMINAL_BUILD_STATUSES

\* Every build ends as succeeded or failed, whatever crashes and gets lost:
\* recover_builds takes up what no message will.
Settles == <>(build.status \in TERMINAL_BUILD_STATUSES)

\* A teardown that is required is eventually carried out: by the operation
\* that failed, or by recover_cleanups and recover_route_checks.
TeardownDone == build.teardown_required ~> manifest.cleanup_status = "succeeded"

\* ... and the build stops asking for one, which is what docs/route-checks.md
\* leaves to beat and recover does not do once the cleanup has succeeded.
TeardownSettles == build.teardown_required ~> ~build.teardown_required

=============================================================================
