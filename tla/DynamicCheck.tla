---------------------------- MODULE DynamicCheck ----------------------------
(***************************************************************************)
(* The dynamic route check of a deployed build (dynamic_checks.py, and the *)
(* failure report of worker_runtime.py): one probe, on failure one call of *)
(* the Debug Agent and one retry, each reserved in the build's row before  *)
(* it is made; and the check row that all builds of one static check share *)
(* as an aggregate.                                                        *)
(*                                                                         *)
(* A build's operations hold its lease (BuildLease), so a build has at most*)
(* one of them; op[b] is the one that holds it.  Every write is guarded:   *)
(* an operation that loses the lease goes no further, except that a call   *)
(* it was about to make is still made (Lapse).  Whatever was interrupted is*)
(* delivered again while the build is deploying.  Bounds: MaxRuns runs per *)
(* build, MaxGeneration forced static checks, MaxFaults.                   *)
(***************************************************************************)
EXTENDS Naturals

CONSTANTS Build, NoBuild, MaxRuns, MaxGeneration, MaxFaults

ASSUME NoBuildAssumption == NoBuild \notin Build
ASSUME BoundsAssumption == MaxRuns \in Nat \ {0} /\ MaxGeneration \in Nat \ {0} /\ MaxFaults \in Nat

VARIABLES
    build,   \* the fields of a BuildJob this check reads and writes
    row,     \* the shared RouteCheckResult: generation, claim, verdict
    op,      \* the operation that holds a build's lease
    calls,   \* what the current run of a build has really called
    faults

vars == <<build, row, op, calls, faults>>

Call == {"initial", "agent", "retry"}
Claim == [generation : 1..MaxGeneration, build : Build \cup {NoBuild}, run : 0..MaxRuns]
Unclaimed(g) == [generation |-> g, build |-> NoBuild, run |-> 0]
Idle == [pc |-> "idle", seen |-> Unclaimed(1), passed |-> FALSE]
NoCalls == [made |-> [c \in Call |-> 0], passed |-> FALSE]

\* The builds, the aggregate row and the operations keep their types, also when
\* a run is superseded, interrupted or reported by another operation.
TypeOK ==
    /\ build \in [Build ->
         [status : {"none", "deploying", "succeeded", "failed"},
          dynamic : {"pending", "queued", "running", "succeeded", "failed"},
          run : 0..MaxRuns, generation : 0..MaxGeneration, teardown : BOOLEAN,
          started : SUBSET Call, initial : {"none", "passed", "failed"}, payload : BOOLEAN]]
    /\ row \in [claim : Claim, verdict : {"open", "succeeded", "failed"}]
    /\ op \in [Build ->
         [pc : {"idle", "start", "claim", "recheck", "swap", "reswap", "begin", "next",
                "initial", "agent", "retry", "finish", "fail", "sync", "refail",
                "resync", "deliver", "report", "reported", "publish", "expose"},
          seen : Claim, passed : BOOLEAN]]
    /\ calls \in [Build -> [made : [Call -> Nat], passed : BOOLEAN]]
    /\ faults \in 0..MaxFaults

Init ==
    /\ build = [b \in Build |-> [status |-> "none", dynamic |-> "pending", run |-> 0, generation |-> 0,
                                 teardown |-> FALSE, started |-> {}, initial |-> "none", payload |-> FALSE]]
    /\ row = [claim |-> Unclaimed(1), verdict |-> "open"]
    /\ op = [b \in Build |-> Idle]
    /\ calls = [b \in Build |-> NoCalls]
    /\ faults = 0

At(b, pc) == op[b].pc = pc /\ UNCHANGED faults
Goto(b, pc) == op' = [op EXCEPT ![b] = [Idle EXCEPT !.pc = pc]]
Finish(b, passed) == op' = [op EXCEPT ![b] = [Idle EXCEPT !.pc = "finish", !.passed = passed]]

\* what the row says while the current run of b holds it
Own(b) == [generation |-> build[b].generation, build |-> b, run |-> build[b].run]
Frozen(b) == row.claim.generation = build[b].generation

\* mutation: whatever is no longer pending counts as decided
DecidedOnceQueued(b) == build[b].dynamic # "pending"

Decided(b) == build[b].dynamic \in {"succeeded", "failed"}

-----------------------------------------------------------------------------
(***************************************************************************)
(* A build is deployed with the check's current generation frozen into it; *)
(* its check starts, and starts again after an interruption.               *)
(***************************************************************************)
QueueBuild(b) ==
    /\ build[b].status = "none"
    /\ build' = [build EXCEPT ![b].status = "deploying", ![b].generation = row.claim.generation]
    /\ UNCHANGED <<row, op, calls, faults>>

ForceCheck ==
    /\ row.claim.generation < MaxGeneration
    /\ row' = [claim |-> Unclaimed(row.claim.generation + 1), verdict |-> "open"]
    /\ UNCHANGED <<build, op, calls, faults>>

Deliver(b) ==
    /\ At(b, "idle") /\ build[b].status = "deploying"
    /\ Goto(b, "start")
    /\ UNCHANGED <<build, row, calls>>

\* submit: an explicit recheck, by an API request holding the lease
Recheck(b) ==
    /\ At(b, "idle") /\ build[b].run < MaxRuns
    /\ build[b].status \in {"deploying", "succeeded"} /\ ~build[b].teardown /\ Frozen(b)
    /\ build[b].dynamic \notin {"queued", "running"}
    /\ build' = [build EXCEPT ![b].status = "deploying", ![b].dynamic = "queued", ![b].run = @ + 1,
                    ![b].started = {}, ![b].initial = "none", ![b].payload = FALSE]
    /\ calls' = [calls EXCEPT ![b] = NoCalls]
    /\ Goto(b, "recheck")
    /\ UNCHANGED row

\* execute, entered with the row just read
Execute(b) ==
    /\ At(b, "start")
    /\ IF Decided(b)
       THEN /\ Goto(b, IF build[b].dynamic = "failed" THEN "refail" ELSE "resync")
            /\ UNCHANGED build
       ELSE /\ Goto(b, "claim")
            /\ build' = [build EXCEPT ![b].run = IF @ = 0 THEN 1 ELSE @]
    /\ UNCHANGED <<row, calls>>

\* the services never became ready: the operation fails before the check runs
DeploymentFails(b) ==
    /\ At(b, "start") /\ build[b].dynamic = "pending"
    /\ Goto(b, "report")
    /\ UNCHANGED <<build, row, calls>>

-----------------------------------------------------------------------------
(***************************************************************************)
(* _claim_result: a read and a compare-and-set of the shared row.          *)
(***************************************************************************)
\* its own row, or the first claim of a fresh run
MayTake(b) ==
    \/ row.claim = Own(b)
    \/ op[b].pc = "recheck" \/ build[b].dynamic = "pending"

\* in execute a superseded static check fails the build, in submit the request
ClaimRefused(b) == IF op[b].pc \in {"claim", "swap"} THEN Finish(b, FALSE) ELSE Goto(b, "idle")
Claimed(b) == Goto(b, IF op[b].pc \in {"claim", "swap"} THEN "begin" ELSE "idle")

ClaimRead(b) ==
    /\ \E pc \in {"claim", "recheck"} : At(b, pc)
    /\ IF ~Frozen(b) THEN ClaimRefused(b)
       ELSE IF ~MayTake(b) THEN Claimed(b)
       ELSE op' = [op EXCEPT ![b].pc = IF @ = "claim" THEN "swap" ELSE "reswap", ![b].seen = row.claim]
    /\ UNCHANGED <<build, row, calls>>

\* mutation: the filter of the update leaves out the generation
MatchesAnyGeneration(b) ==
    /\ row.claim.build = op[b].seen.build
    /\ row.claim.run = op[b].seen.run

\* update_route_check's filter: the row is still as this operation has read it
Matches(b) == row.claim = op[b].seen

Take(b, verdict) ==
    row' = IF Matches(b)
           THEN [claim |-> [row.claim EXCEPT !.build = b, !.run = build[b].run], verdict |-> verdict]
           ELSE row

ClaimWrite(b) ==
    /\ \E pc \in {"swap", "reswap"} : At(b, pc)
    /\ Take(b, "open")
    /\ IF Matches(b) \/ Frozen(b) THEN Claimed(b) ELSE ClaimRefused(b)
    /\ UNCHANGED <<build, calls>>

-----------------------------------------------------------------------------
(***************************************************************************)
(* The calls.  What may not be repeated is reserved first.                 *)
(***************************************************************************)
Begin(b) ==
    /\ At(b, "begin")
    /\ build' = [build EXCEPT ![b].dynamic = "running"]
    /\ Goto(b, "next")
    /\ UNCHANGED <<row, calls>>

\* the call this run has to make next, unless its first probe passed
Needs(b) ==
    IF build[b].initial = "none" THEN "initial" ELSE IF build[b].payload THEN "retry" ELSE "agent"

\* mutation: the reservation is not saved
ReserveUnsaved(b) ==
    /\ At(b, "next") /\ build[b].initial # "passed" /\ Needs(b) \notin build[b].started
    /\ Goto(b, Needs(b))
    /\ UNCHANGED <<build, row, calls>>

Reserve(b) ==
    /\ At(b, "next") /\ build[b].initial # "passed" /\ Needs(b) \notin build[b].started
    /\ build' = [build EXCEPT ![b].started = @ \cup {Needs(b)}]
    /\ Goto(b, Needs(b))
    /\ UNCHANGED <<row, calls>>

\* the payload, the logs or the role cannot be used: the exception handler ends the run
Unusable(b) ==
    /\ At(b, "next")
    /\ Finish(b, FALSE)
    /\ UNCHANGED <<build, row, calls>>

\* reserved by an earlier execution that never saved what came of it
Interrupted(b) ==
    /\ At(b, "next") /\ build[b].initial # "passed" /\ Needs(b) \in build[b].started
    /\ Finish(b, FALSE)
    /\ UNCHANGED <<build, row, calls>>

Passed(b) ==
    /\ At(b, "next") /\ build[b].initial = "passed"
    /\ Finish(b, TRUE)
    /\ UNCHANGED <<build, row, calls>>

Made(b, c, passed) ==
    calls' = [calls EXCEPT ![b].made[c] = @ + 1, ![b].passed = @ \/ passed]

Probe(b, passed) ==
    /\ At(b, "initial") /\ Made(b, "initial", passed)
    /\ build' = [build EXCEPT ![b].initial = IF passed THEN "passed" ELSE "failed"]
    /\ Goto(b, "next")
    /\ UNCHANGED row

\* the Debug Agent offers a request that differs in no criterion, or nothing usable
Debug(b, offered) ==
    /\ At(b, "agent") /\ Made(b, "agent", FALSE)
    /\ build' = [build EXCEPT ![b].payload = offered]
    /\ IF offered THEN Goto(b, "next") ELSE Finish(b, FALSE)
    /\ UNCHANGED row

Retry(b, passed) ==
    /\ At(b, "retry") /\ Made(b, "retry", passed)
    /\ Finish(b, passed)
    /\ UNCHANGED <<build, row>>

-----------------------------------------------------------------------------
(***************************************************************************)
(* _finish, and what follows it.                                           *)
(***************************************************************************)
Failed(b) == [build EXCEPT ![b].dynamic = "failed", ![b].teardown = TRUE]

\* mutation: the verdict of the call is not looked at
SaveAnyVerdict(b) ==
    /\ At(b, "finish")
    /\ build' = [build EXCEPT ![b].dynamic = "succeeded"]
    /\ Goto(b, "sync")
    /\ UNCHANGED <<row, calls>>

SaveVerdict(b) ==
    /\ At(b, "finish")
    /\ build' = IF op[b].passed THEN [build EXCEPT ![b].dynamic = "succeeded"] ELSE Failed(b)
    /\ Goto(b, IF op[b].passed THEN "sync" ELSE "fail")
    /\ UNCHANGED <<row, calls>>

\* BuildService.fail
FailBuild(b) ==
    /\ \E pc \in {"fail", "refail"} : At(b, pc)
    /\ build' = [build EXCEPT ![b].status = "failed"]
    /\ Goto(b, IF op[b].pc = "fail" THEN "sync" ELSE "resync")
    /\ UNCHANGED <<row, calls>>

Owns(b) == row.claim = Own(b)

\* _sync_result: only the run that holds the row writes its verdict
Sync(b) ==
    /\ \E pc \in {"sync", "resync"} : At(b, pc)
    /\ row' = IF Owns(b) THEN [row EXCEPT !.verdict = build[b].dynamic] ELSE row
    /\ Goto(b, IF build[b].dynamic = "succeeded" THEN "deliver" ELSE "idle")
    /\ UNCHANGED <<build, calls>>

\* _complete_dynamic_deployment
Succeed(b) ==
    /\ At(b, "deliver")
    /\ build' = [build EXCEPT ![b].status = "succeeded"]
    /\ Goto(b, "idle")
    /\ UNCHANGED <<row, calls>>

-----------------------------------------------------------------------------
(***************************************************************************)
(* WorkerRuntime._fail of a deploying build: the row, the status, then the *)
(* aggregate whoever holds it.                                             *)
(***************************************************************************)
Report(b) ==
    /\ At(b, "report")
    /\ build' = Failed(b)
    /\ Goto(b, "reported")
    /\ UNCHANGED <<row, calls>>

ReportStatus(b) ==
    /\ At(b, "reported")
    /\ build' = [build EXCEPT ![b].status = "failed"]
    /\ Goto(b, "publish")
    /\ UNCHANGED <<row, calls>>

Publish(b) ==
    /\ At(b, "publish")
    /\ op' = [op EXCEPT ![b].pc = IF Frozen(b) THEN "expose" ELSE "idle", ![b].seen = row.claim]
    /\ UNCHANGED <<build, row, calls>>

Expose(b) ==
    /\ At(b, "expose")
    /\ Take(b, "failed")
    /\ Goto(b, "idle")
    /\ UNCHANGED <<build, calls>>

-----------------------------------------------------------------------------
\* recover: an interrupted failure is completed before its teardown
Recover(b) ==
    /\ At(b, "idle") /\ build[b].teardown
    /\ Goto(b, IF build[b].status = "deploying" THEN "refail" ELSE "resync")
    /\ UNCHANGED <<build, row, calls>>

\* teardown, by the beat or at the end of any operation on a failed build
TearDown(b) ==
    /\ At(b, "idle") /\ build[b].teardown /\ build[b].status = "failed"
    /\ build' = [build EXCEPT ![b].teardown = FALSE]
    /\ UNCHANGED <<row, op, calls>>

Fault == faults < MaxFaults /\ faults' = faults + 1

\* the worker dies or loses the lease; its next call is made or not
Lapse(b) ==
    /\ Fault /\ op[b].pc # "idle"
    /\ Goto(b, "idle")
    /\ \/ UNCHANGED calls
       \/ op[b].pc \in Call /\ \E passed \in BOOLEAN : Made(b, op[b].pc, passed)
    /\ UNCHANGED <<build, row>>

\* writing the aggregate raises: inside execute's handler that fails the run,
\* outside it the operation
SyncRaises(b) ==
    /\ Fault
    /\ \/ op[b].pc = "sync" /\ Finish(b, FALSE)
       \/ op[b].pc \in {"resync", "deliver"}
          /\ Goto(b, IF build[b].status = "deploying" THEN "report" ELSE "idle")
    /\ UNCHANGED <<build, row, calls>>

Step(b) ==
    \/ Execute(b) \/ DeploymentFails(b) \/ ClaimRead(b) \/ ClaimWrite(b) \/ Begin(b)
    \/ Reserve(b) \/ Unusable(b) \/ Interrupted(b) \/ Passed(b)
    \/ \E passed \in BOOLEAN : Probe(b, passed) \/ Debug(b, passed) \/ Retry(b, passed)
    \/ SaveVerdict(b) \/ FailBuild(b) \/ Sync(b) \/ Succeed(b)
    \/ Report(b) \/ ReportStatus(b) \/ Publish(b) \/ Expose(b)

Next ==
    \/ ForceCheck
    \/ \E b \in Build :
          \/ QueueBuild(b) \/ Recheck(b) \/ Deliver(b) \/ Recover(b) \/ TearDown(b)
          \/ Step(b) \/ Lapse(b) \/ SyncRaises(b)

Spec == Init /\ [][Next]_vars

\* a lost operation is delivered again, and the beat never stops
FairSpec ==
    /\ Spec
    /\ \A b \in Build : WF_vars(Step(b)) /\ WF_vars(Deliver(b)) /\ WF_vars(Recover(b))
                        /\ SF_vars(TearDown(b))

-----------------------------------------------------------------------------
(***************************************************************************)
(* Properties.                                                             *)
(***************************************************************************)

\* "a crashed worker must never repeat an uncertain Debug Agent call or consume
\* a second retry" (dynamic_checks.py:5-6), and never a second first probe:
\* whatever is lost and delivered again, a run makes each call at most once.
AtMostOnce == \A b \in Build : \A c \in Call : calls[b].made[c] <= 1

\* A build is delivered only if a probe of its current run has really passed:
\* no earlier run, interrupted call or other build's result counts, and a
\* recheck takes the old delivery back.
DeliveryEarned ==
    \A b \in Build :
        /\ build[b].status = "succeeded" => build[b].dynamic = "succeeded"
        /\ build[b].dynamic = "succeeded" => calls[b].passed

\* The aggregate says of the run it names only what that run has found, and
\* names no run of an older generation than its own.
AggregateHonest ==
    \A b \in Build : row.claim.build = b =>
        /\ row.claim.generation = build[b].generation
        /\ row.claim = Own(b) /\ row.verdict = "succeeded" => calls[b].passed
        /\ row.claim = Own(b) /\ row.verdict = "failed" => build[b].dynamic = "failed"

\* "a delayed delivery after another build has already claimed this shared
\* aggregate" (dynamic_checks.py:124): a run that has begun its calls takes the
\* row from nobody, except to report that its deployment failed.
NoReclaim ==
    \A b \in Build :
        row'.claim = Own(b) /\ row.claim # Own(b) /\ build[b].started # {} => op[b].pc = "expose"

\* No step takes the row like that, and every step leaves it honest.
AggregateSafe == [][NoReclaim /\ AggregateHonest']_vars

\* An interrupted failure is reported in the aggregate before the teardown that
\* forgets it (tests/test_dynamic_checks.py:899).  The code
\* does not keep this: README, section 4.
FailureReported ==
    \A b \in Build :
        build[b].status = "failed" /\ ~build[b].teardown /\ row.claim = Own(b) => row.verdict = "failed"

\* Every check comes to an end, and so does the teardown of a failed one.
CheckEnds ==
    \A b \in Build :
        /\ build[b].status = "deploying" ~> build[b].status \in {"succeeded", "failed"}
        /\ build[b].teardown ~> ~build[b].teardown
=============================================================================
