----------------------------- MODULE BuildState -----------------------------
(***************************************************************************)
(* The durable and external state one build lives in, and the steps every  *)
(* operation on it is made of.                                             *)
(*                                                                         *)
(*   build     the BuildJob row (MongoDB collection builds)                *)
(*   manifest  the BuildResources row, whose lease fields are in BuildLease*)
(*   tasks     the messages in the Celery broker that no worker has yet.   *)
(*             Acks are late: a message a worker has is in its job, returns*)
(*             to the broker if the worker dies, and may be delivered again*)
(*             while it works (visibility timeout)                         *)
(*   jenkins   the remote job: how often it was triggered, how it is doing *)
(*   live      what exists outside the database for this build             *)
(*   pc, job   where each session stands, and the message or request it    *)
(*             works for                                                   *)
(*   ticket    the session whose cleanup request has the manifest's current*)
(*             cleanup_generation                                          *)
(*   faults    how much has gone wrong so far                              *)
(*   requests  how much users have asked for so far                        *)
(*                                                                         *)
(* Builds share no rows except the port table and the aggregate check row, *)
(* which are not part of this model, so one build is enough.               *)
(***************************************************************************)
EXTENDS BuildLease, Naturals, FiniteSets

CONSTANTS
    Worker,         \* Celery worker processes
    Api,            \* API request threads
    MaxPolls,       \* settings.celery_max_poll_attempts
    MaxFaults,      \* bound: crashes, lost answers, failed calls
    MaxRequests,    \* bound: rechecks and cleanups users ask for
    MaxBacklog      \* bound: messages waiting before beat adds more

ASSUME ProcessAssumption == Session = Worker \cup Api
ASSUME BoundAssumption ==
    /\ MaxPolls \in Nat /\ MaxFaults \in Nat
    /\ MaxRequests \in Nat /\ MaxBacklog \in Nat

VARIABLES
    build, manifest, tasks, jenkins, live, pc, job, ticket, faults, requests

rowVars == <<build, manifest>>
outsideVars == <<jenkins, live>>
queueVars == <<tasks, job, ticket>>
bounds == <<faults, requests>>
vars == <<leaseVars, rowVars, outsideVars, queueVars, pc, bounds>>

(***************************************************************************)
(* models.py                                                               *)
(***************************************************************************)
BuildStatus == {"queued", "validating", "triggering", "building",
                "deploying", "succeeded", "failed"}
TERMINAL_BUILD_STATUSES == {"succeeded", "failed"}
CleanupStatus == {"not_started", "queued", "running",
                  "succeeded", "partial_failed"}
DynamicStatus == {"pending", "queued", "running", "succeeded", "failed"}
TeardownStatus == {"none", "pending", "running", "succeeded", "partial_failed"}

\* The resource kinds the delivery steps tell apart: what the API snapshots,
\* what Jenkins pushes to Harbor, what the deployment creates in Docker
Kind == {"workspace", "image", "service"}
\* ResourceState: absent from the manifest, PLANNED/PRESENT/ERROR, REMOVED
ResourceState == {"none", "tracked", "removed"}

BuildJob ==
    [status : BuildStatus, inputs_ready : BOOLEAN,
     jenkins_queue_url : BOOLEAN, jenkins_build_number : BOOLEAN,
     last_polled_at : {"never", "fresh", "stale"}, service_ids : BOOLEAN,
     dynamic_status : DynamicStatus, dynamic_run_id : Nat,
     teardown_required : BOOLEAN, teardown_status : TeardownStatus]

BuildResources ==
    [cleanup_status : CleanupStatus, jenkins_trigger_pending : BOOLEAN,
     resources : [Kind -> ResourceState]]

\* services.py ALLOWED_BUILD_TRANSITIONS (nothing moves a build to cancelled)
ALLOWED_BUILD_TRANSITIONS ==
    [queued     |-> {"validating", "failed"},
     validating |-> {"triggering", "failed"},
     triggering |-> {"building", "failed"},
     building   |-> {"deploying", "failed"},
     deploying  |-> {"succeeded", "failed"},
     succeeded  |-> {},
     failed     |-> {}]

\* Celery messages ...
StartTask == <<"start", 0>>
PollTask(n) == <<"poll", n>>
DynamicTask(run) == <<"dynamic", run>>
CleanupTask == <<"cleanup", 0>>
Task == {"start", "poll", "dynamic", "cleanup"} \X Nat
\* ... and the work that is not redelivered: API requests and beat ticks
QueueRequest == <<"queue", 0>>
CleanupRequest == <<"request", 0>>
RecheckRequest == <<"recheck", 0>>
Tick == <<"tick", 0>>
NoJob == <<"none", 0>>
Job == Task \cup ({"queue", "request", "recheck", "tick", "none"} \X {0})

-----------------------------------------------------------------------------
(***************************************************************************)
(* Steps.  A session's pc names what it does next.                         *)
(***************************************************************************)
At(s, label) == pc[s] = label
Goto(s, label) == pc' = [pc EXCEPT ![s] = label]

\* the session's handler sends messages and ends: its own message, if it had
\* one, is acknowledged and gone
EndJobSending(s, messages) ==
    /\ Goto(s, "idle")
    /\ job' = [job EXCEPT ![s] = NoJob]
    /\ tasks' = tasks \cup messages
    /\ ticket' = ticket \ {s}

EndJob(s) == EndJobSending(s, {})

\* something outside the program goes wrong once more
Fault ==
    faults < MaxFaults /\ faults' = faults + 1 /\ UNCHANGED requests

\* a user asks for something once more
Ask ==
    requests < MaxRequests /\ requests' = requests + 1 /\ UNCHANGED faults

\* beat's messages, sent without a lease
Backlogged == Cardinality(tasks) >= MaxBacklog

(***************************************************************************)
(* BuildService.transition: a compare-and-set on the status just read.     *)
(***************************************************************************)
CanTransition(target) ==
    build.status = target \/ target \in ALLOWED_BUILD_TRANSITIONS[build.status]

\* from: transition(target), then on to next; an illegal move raises and the
\* operation's handler fails the build
Transition(s, from, target, next) ==
    /\ At(s, from)
    /\ build' = IF CanTransition(target)
                THEN [build EXCEPT !.status = target] ELSE build
    /\ Goto(s, IF CanTransition(target) THEN next ELSE "fail")
    /\ UNCHANGED <<leaseVars, manifest, outsideVars, queueVars, bounds>>

\* mutation: terminal builds are failed too
FailsAnyBuild(b) == [b EXCEPT !.status = "failed"]

\* BuildService.fail on the build row b: terminal builds stay as they are
FailedBuild(b) ==
    IF b.status \in TERMINAL_BUILD_STATUSES
    THEN b ELSE [b EXCEPT !.status = "failed"]

(***************************************************************************)
(* ResourceTracker.record: fenced by the lease owner                       *)
(***************************************************************************)
Track(kind) == [manifest EXCEPT !.resources[kind] = "tracked"]
Tracked(kind) == manifest.resources[kind] = "tracked"

(***************************************************************************)
(* BuildResourceService.assert_quiescent                                   *)
(***************************************************************************)
JenkinsActive == jenkins.state \in {"queued", "running"}

\* mutation: Jenkins is not asked
QuiescentWithoutJenkins == build.status \in TERMINAL_BUILD_STATUSES

\* mutation: the build's status is not looked at
QuiescentAnyStatus ==
    /\ manifest.jenkins_trigger_pending => build.jenkins_queue_url
    /\ build.jenkins_queue_url \/ build.jenkins_build_number => ~JenkinsActive

assert_quiescent ==
    /\ build.status \in TERMINAL_BUILD_STATUSES
    /\ manifest.jenkins_trigger_pending => build.jenkins_queue_url
    /\ build.jenkins_queue_url \/ build.jenkins_build_number => ~JenkinsActive

=============================================================================
