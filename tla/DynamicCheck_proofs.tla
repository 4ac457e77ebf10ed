------------------------ MODULE DynamicCheck_proofs ------------------------
(***************************************************************************)
(* A run of the dynamic check makes each call at most once, and a build is *)
(* delivered only after a probe of its current run has passed: for any     *)
(* number of builds, rechecks, forced static checks and faults.            *)
(*                                                                         *)
(* Both follow from what the saved row says of the calls made: what was    *)
(* made is reserved, and what is about to be made is reserved and has not  *)
(* been made.                                                              *)
(*                                                                         *)
(* The row that the builds of one static check share stays honest, and no  *)
(* delayed run takes it: that follows from what an operation has read of   *)
(* the row before it writes it.                                            *)
(***************************************************************************)
EXTENDS DynamicCheck, TLAPS

\* Calls are reserved before they are made, and reserved once.
Reserved(b) ==
    /\ \A c \in Call :
          calls[b].made[c] \in {0, 1} /\ (calls[b].made[c] = 1 => c \in build[b].started)
    /\ op[b].pc \in Call => op[b].pc \in build[b].started /\ calls[b].made[op[b].pc] = 0

\* Whatever claims a success, in the row or in an operation, rests on a probe.
Earned(b) ==
    /\ build[b].initial = "passed" => calls[b].passed
    /\ op[b].pc = "finish" /\ op[b].passed => calls[b].passed
    /\ build[b].dynamic = "succeeded" => calls[b].passed
    /\ op[b].pc = "deliver" => build[b].dynamic = "succeeded"
    /\ build[b].status = "succeeded" => build[b].dynamic = "succeeded"

\* A failed run awaits its teardown, and only such a run; what is written to
\* the aggregate is a verdict.
Calling == {"claim", "swap", "begin", "next", "initial", "agent", "retry"}
Judged(b) ==
    /\ build[b].teardown => build[b].dynamic = "failed"
    /\ op[b].pc \in Calling \/ (op[b].pc = "finish" /\ op[b].passed) => ~build[b].teardown
    /\ op[b].pc \in {"fail", "refail", "sync", "resync"} => build[b].dynamic \in {"succeeded", "failed"}

\* An operation that may still decide works on a build that is not delivered.
Deciding == {"start", "claim", "swap", "begin", "next", "initial", "agent", "retry", "finish",
             "fail", "sync", "refail", "report", "reported"}
Undelivered(b) == op[b].pc \in Deciding => build[b].status # "succeeded"

BuildRow ==
    [status : {"none", "deploying", "succeeded", "failed"},
     dynamic : {"pending", "queued", "running", "succeeded", "failed"},
     run : 0..MaxRuns, generation : 0..MaxGeneration, teardown : BOOLEAN,
     started : SUBSET Call, initial : {"none", "passed", "failed"}, payload : BOOLEAN]
Position ==
    {"idle", "start", "claim", "recheck", "swap", "reswap", "begin", "next",
     "initial", "agent", "retry", "finish", "fail", "sync", "refail",
     "resync", "deliver", "report", "reported", "publish", "expose"}
Operation == [pc : Position, seen : Claim, passed : BOOLEAN]
SharedRow == [claim : Claim, verdict : {"open", "succeeded", "failed"}]
Calls == [made : [Call -> Nat], passed : BOOLEAN]

Typed ==
    /\ build \in [Build -> BuildRow]
    /\ row \in SharedRow
    /\ op \in [Build -> Operation]
    /\ calls \in [Build -> Calls]
    /\ faults \in 0..MaxFaults

Local(b) == Reserved(b) /\ Earned(b) /\ Judged(b) /\ Undelivered(b)
IInv == Typed /\ \A b \in Build : Local(b)

LEMMA TypedTypeOK == Typed <=> TypeOK
  BY DEF Typed, TypeOK, BuildRow, SharedRow, Operation, Position, Calls

LEMMA IdleTyped ==
    /\ Idle \in Operation /\ Unclaimed(1) \in Claim
    /\ NoCalls \in Calls
  BY BoundsAssumption, NoBuildAssumption DEF Idle, Operation, Position, Unclaimed, Claim, NoCalls, Calls, Call

\* A step of build b's operation leaves the rest of the builds alone.
Alone(b) ==
    \A c \in Build \ {b} : build'[c] = build[c] /\ op'[c] = op[c] /\ calls'[c] = calls[c]

LEMMA OthersKept ==
    ASSUME IInv, NEW b \in Build, Alone(b), Typed', Local(b)'
    PROVE  IInv'
  BY DEF IInv, Typed, Alone, Local, Reserved, Earned, Judged, Calling, Undelivered

\* Where an operation goes.
LEMMA Going ==
    ASSUME op \in [Build -> Operation], NEW b \in Build, NEW pc \in Position, Goto(b, pc)
    PROVE  /\ op' \in [Build -> Operation]
           /\ op'[b].pc = pc
           /\ \A c \in Build \ {b} : op'[c] = op[c]
<1>1. [Idle EXCEPT !.pc = pc] \in Operation /\ [Idle EXCEPT !.pc = pc].pc = pc
  BY IdleTyped DEF Operation
<1> QED
  BY <1>1 DEF Goto

LEMMA Finishing ==
    ASSUME op \in [Build -> Operation], NEW b \in Build, NEW passed \in BOOLEAN, Finish(b, passed)
    PROVE  /\ op' \in [Build -> Operation]
           /\ op'[b].pc = "finish" /\ op'[b].passed = passed
           /\ \A c \in Build \ {b} : op'[c] = op[c]
<1>1. /\ [Idle EXCEPT !.pc = "finish", !.passed = passed] \in Operation
      /\ [Idle EXCEPT !.pc = "finish", !.passed = passed].pc = "finish"
      /\ [Idle EXCEPT !.pc = "finish", !.passed = passed].passed = passed
  BY IdleTyped DEF Operation, Position
<1> QED
  BY <1>1 DEF Finish

\* The fields that operations write.
LEMMA RowWrites ==
    ASSUME NEW r \in BuildRow
    PROVE  /\ \A g \in 0..MaxGeneration : [r EXCEPT !.status = "deploying", !.generation = g] \in BuildRow
           /\ \A n \in 0..MaxRuns :
                 /\ [r EXCEPT !.run = n] \in BuildRow
                 /\ [r EXCEPT !.status = "deploying", !.dynamic = "queued", !.run = n, !.started = {},
                              !.initial = "none", !.payload = FALSE] \in BuildRow
           /\ [r EXCEPT !.teardown = FALSE] \in BuildRow
           /\ [r EXCEPT !.dynamic = "running"] \in BuildRow
           /\ \A c \in Call : [r EXCEPT !.started = @ \cup {c}] \in BuildRow
           /\ \A i \in {"passed", "failed"} : [r EXCEPT !.initial = i] \in BuildRow
           /\ \A q \in BOOLEAN : [r EXCEPT !.payload = q] \in BuildRow
           /\ [r EXCEPT !.dynamic = "succeeded"] \in BuildRow
           /\ [r EXCEPT !.dynamic = "failed", !.teardown = TRUE] \in BuildRow
           /\ \A s \in {"failed", "succeeded"} : [r EXCEPT !.status = s] \in BuildRow
  BY DEF BuildRow

\* A build's row, replaced by another one.
LEMMA Rewriting ==
    ASSUME build \in [Build -> BuildRow], NEW b \in Build, NEW r \in BuildRow,
           build' = [build EXCEPT ![b] = r]
    PROVE  /\ build' \in [Build -> BuildRow]
           /\ build'[b] = r
           /\ \A c \in Build \ {b} : build'[c] = build[c]
  OBVIOUS

\* A call that is made.
LEMMA Making ==
    ASSUME calls \in [Build -> Calls], NEW b \in Build, NEW c \in Call, NEW passed \in BOOLEAN,
           Made(b, c, passed)
    PROVE  /\ calls' \in [Build -> Calls]
           /\ calls'[b].made[c] = calls[b].made[c] + 1
           /\ \A d \in Call \ {c} : calls'[b].made[d] = calls[b].made[d]
           /\ calls'[b].passed = (calls[b].passed \/ passed)
           /\ \A d \in Build \ {b} : calls'[d] = calls[d]
<1> DEFINE m == [calls[b].made EXCEPT ![c] = @ + 1]
           q == calls[b].passed \/ passed
           r == [calls[b] EXCEPT !.made = m, !.passed = q]
<1>1. calls' = [calls EXCEPT ![b] = r]
  BY DEF Made
<1>2. m \in [Call -> Nat] /\ q \in BOOLEAN
  BY DEF Calls
<1>3. r \in Calls /\ r.made = m /\ r.passed = q
  BY <1>2 DEF Calls
<1> QED
  BY <1>1, <1>3 DEF Calls

\* A write of the aggregate row.
LEMMA Taking ==
    ASSUME Typed, NEW b \in Build, NEW verdict \in {"open", "succeeded", "failed"}, Take(b, verdict)
    PROVE  row' \in SharedRow
<1> DEFINE n == build[b].run
           c == [row.claim EXCEPT !.build = b, !.run = n]
<1>1. n \in 0..MaxRuns
  BY DEF Typed, BuildRow
<1>2. c \in Claim
  BY <1>1 DEF Typed, SharedRow, Claim
<1>3. row' = row \/ row' = [claim |-> c, verdict |-> verdict]
  BY DEF Take
<1> QED
  BY <1>2, <1>3 DEF Typed, SharedRow

\* A saved verdict.
LEMMA SyncTyped ==
    ASSUME Typed, NEW b \in Build, Sync(b), 
           build[b].dynamic \in {"succeeded", "failed"}
    PROVE  row' \in SharedRow
<1> DEFINE v == build[b].dynamic
<1>1. row' = row \/ row' = [row EXCEPT !.verdict = v]
  BY DEF Sync
<1> QED
  BY <1>1 DEF Typed, SharedRow

LEMMA OpenStep ==
    ASSUME IInv, NEW b \in Build,
           QueueBuild(b) \/ Deliver(b) \/ Recheck(b) \/ Recover(b) \/ TearDown(b)
    PROVE  Typed' /\ Alone(b) /\ Local(b)'
<1>0. Typed /\ Local(b)
  BY DEF IInv
<1> USE DEF Typed, Calls, Call, Alone, Local, Reserved, Earned, Judged, Calling, Undelivered, Deciding, Position
<1>1. CASE QueueBuild(b)
  <2> DEFINE g == row.claim.generation
             r == [build[b] EXCEPT !.status = "deploying", !.generation = g]
  <2>1. /\ build' = [build EXCEPT ![b] = r]
        /\ UNCHANGED <<row, op, calls, faults>> /\ build[b].status = "none"
    BY <1>1 DEF QueueBuild
  <2>2. g \in 0..MaxGeneration
    BY <1>0, BoundsAssumption DEF Claim, SharedRow
  <2>3. r \in BuildRow
    BY <1>0, <2>2, RowWrites
  <2>4. Typed' /\ Alone(b)
    BY <1>0, <2>1, <2>3, Rewriting
  <2> QED
    BY <1>0, <2>1, <2>3, <2>4, Rewriting DEF BuildRow
<1>2. CASE Deliver(b)
  <2>1. /\ UNCHANGED <<build, row, calls, faults>> /\ Goto(b, "start") /\ build[b].status = "deploying"
    BY <1>2 DEF Deliver, At
  <2> QED
    BY <1>0, <2>1, Going
<1>3. CASE Recheck(b)
  <2> DEFINE n == build[b].run + 1
             r == [build[b] EXCEPT !.status = "deploying", !.dynamic = "queued", !.run = n,
                                   !.started = {}, !.initial = "none", !.payload = FALSE]
  <2>1. /\ UNCHANGED <<row, faults>> /\ Goto(b, "recheck") /\ calls' = [calls EXCEPT ![b] = NoCalls]
        /\ build[b].run < MaxRuns
        /\ ~build[b].teardown /\ build' = [build EXCEPT ![b] = r]
    BY <1>3 DEF Recheck, At
  <2>2. n \in 0..MaxRuns
    BY <1>0, <2>1, BoundsAssumption DEF BuildRow
  <2>3. r \in BuildRow /\ calls' \in [Build -> Calls]
    BY <1>0, <2>1, <2>2, IdleTyped, RowWrites
  <2>4. Typed' /\ Alone(b)
    BY <1>0, <2>1, <2>3, Going, Rewriting
  <2>5. /\ build'[b].status = "deploying" /\ build'[b].dynamic = "queued" /\ build'[b].started = {}
        /\ build'[b].initial = "none" /\ ~build'[b].teardown
    BY <1>0, <2>1, <2>3, Rewriting DEF BuildRow
  <2>6. op'[b].pc = "recheck" /\ \A c \in Call : calls'[b].made[c] = 0
    BY <1>0, <2>1, Going DEF NoCalls
  <2> QED
    BY <2>4, <2>5, <2>6
<1>4. CASE Recover(b)
  <2>1. /\ UNCHANGED <<build, row, calls, faults>> /\ build[b].teardown
        /\ \/ Goto(b, "refail") /\ build[b].status = "deploying"
           \/ Goto(b, "resync")
    BY <1>4 DEF Recover, At
  <2>2. CASE Goto(b, "refail") /\ build[b].status = "deploying"
    BY <1>0, <2>1, <2>2, Going
  <2>3. CASE Goto(b, "resync")
    BY <1>0, <2>1, <2>3, Going
  <2> QED
    BY <2>1, <2>2, <2>3
<1>5. CASE TearDown(b)
  <2> DEFINE r == [build[b] EXCEPT !.teardown = FALSE]
  <2>1. UNCHANGED <<row, op, calls, faults>> /\ build' = [build EXCEPT ![b] = r]
    BY <1>5 DEF TearDown, At
  <2>2. r \in BuildRow
    <3>1. build[b] \in BuildRow
      BY <1>0
    <3> QED
      BY <3>1 DEF BuildRow
  <2> QED
    BY SMTT(60), <1>0, <2>1, <2>2, Rewriting DEF BuildRow
<1> QED
  BY <1>1, <1>2, <1>3, <1>4, <1>5

\* execute and the claim of the aggregate row.
LEMMA ClaimStep ==
    ASSUME IInv, NEW b \in Build,
           Execute(b) \/ DeploymentFails(b) \/ ClaimRead(b) \/ ClaimWrite(b)
    PROVE  Typed' /\ Alone(b) /\ Local(b)'
<1>0. Typed /\ Local(b)
  BY DEF IInv
<1> USE DEF Typed, Calls, Call, Alone, Local, Reserved, Earned, Judged, Calling, Undelivered, Deciding, Position
<1>1. CASE Execute(b)
  <2> DEFINE n == IF build[b].run = 0 THEN 1 ELSE build[b].run
             r == [build[b] EXCEPT !.run = n]
  <2>1. /\ UNCHANGED <<row, calls, faults>> /\ op[b].pc = "start"
        /\ \/ UNCHANGED build /\ Decided(b) /\ (Goto(b, "refail") \/ Goto(b, "resync"))
           \/ build' = [build EXCEPT ![b] = r] /\ ~Decided(b) /\ Goto(b, "claim")
    BY <1>1 DEF Execute, At
  <2>2. n \in 0..MaxRuns
    BY <1>0, BoundsAssumption DEF BuildRow
  <2>3. r \in BuildRow
    BY <1>0, <2>2, RowWrites
  <2>4. CASE UNCHANGED build /\ Decided(b) /\ Goto(b, "refail")
    BY <1>0, <2>1, <2>4, Going DEF Decided
  <2>5. CASE UNCHANGED build /\ Decided(b) /\ Goto(b, "resync")
    BY <1>0, <2>1, <2>5, Going DEF Decided
  <2>6. CASE build' = [build EXCEPT ![b] = r] /\ ~Decided(b) /\ Goto(b, "claim")
    <3>1. Typed' /\ Alone(b)
      BY <1>0, <2>1, <2>3, <2>6, Going, Rewriting
    <3>2. build'[b].started = build[b].started /\ build'[b].status = build[b].status
          /\ build'[b].initial = build[b].initial /\ build'[b].dynamic = build[b].dynamic
          /\ build'[b].teardown = build[b].teardown
      BY <1>0, <2>3, <2>6, Rewriting DEF BuildRow
    <3> QED
      BY <1>0, <2>1, <2>6, <3>1, <3>2, Going DEF Decided
  <2> QED
    BY <2>1, <2>4, <2>5, <2>6
<1>2. CASE DeploymentFails(b)
  <2>1. UNCHANGED <<build, row, calls, faults>> /\ Goto(b, "report") /\ op[b].pc = "start"
    BY <1>2 DEF DeploymentFails, At
  <2> QED
    BY <1>0, <2>1, Going
<1>3. ASSUME Claimed(b) \/ ClaimRefused(b), op[b].pc \in {"claim", "swap", "recheck", "reswap"},
             UNCHANGED <<build, calls, faults>>, row' \in SharedRow
      PROVE  Typed' /\ Alone(b) /\ Local(b)'
  <2>1. \/ Goto(b, "idle")
        \/ op[b].pc \in {"claim", "swap"} /\ Goto(b, "begin")
        \/ op[b].pc \in {"claim", "swap"} /\ Finish(b, FALSE)
    BY <1>3 DEF Claimed, ClaimRefused
  <2> QED
    BY <1>0, <1>3, <2>1, Going, Finishing
<1>4. CASE ClaimRead(b)
  <2>1. /\ UNCHANGED <<build, row, calls, faults>> /\ op[b].pc \in {"claim", "recheck"}
        /\ \/ Claimed(b) \/ ClaimRefused(b)
           \/ op' = [op EXCEPT ![b].pc = IF @ = "claim" THEN "swap" ELSE "reswap", ![b].seen = row.claim]
    BY <1>4 DEF ClaimRead, At
  <2>2. CASE Claimed(b) \/ ClaimRefused(b)
    BY <1>0, <1>3, <2>1, <2>2
  <2>3. CASE op' = [op EXCEPT ![b].pc = IF @ = "claim" THEN "swap" ELSE "reswap", ![b].seen = row.claim]
    <3> DEFINE o == [op[b] EXCEPT !.pc = IF @ = "claim" THEN "swap" ELSE "reswap", !.seen = row.claim]
    <3>1. op' = [op EXCEPT ![b] = o]
      BY <2>3
    <3>2. o \in Operation /\ o.pc \in {"swap", "reswap"} /\ (o.pc = "swap" => op[b].pc = "claim")
      BY ZenonT(60), <1>0, <2>1 DEF Operation, SharedRow
    <3> QED
      BY <1>0, <2>1, <3>1, <3>2
  <2> QED
    BY <2>1, <2>2, <2>3
<1>5. CASE ClaimWrite(b)
  <2>1. /\ UNCHANGED <<build, calls, faults>> /\ op[b].pc \in {"swap", "reswap"}
        /\ Take(b, "open") /\ (Claimed(b) \/ ClaimRefused(b))
    BY <1>5 DEF ClaimWrite, At
  <2>2. row' \in SharedRow
    BY <1>0, <2>1, Taking
  <2> QED
    BY <1>3, <2>1, <2>2
<1> QED
  BY <1>1, <1>2, <1>4, <1>5

\* The calls and their reservations.
LEMMA CallStep ==
    ASSUME IInv, NEW b \in Build,
           \/ Begin(b) \/ Reserve(b) \/ Unusable(b) \/ Interrupted(b) \/ Passed(b)
           \/ \E passed \in BOOLEAN : Probe(b, passed) \/ Debug(b, passed) \/ Retry(b, passed)
    PROVE  Typed' /\ Alone(b) /\ Local(b)'
<1>0. Typed /\ Local(b)
  BY DEF IInv
<1> USE DEF Typed, Calls, Call, Alone, Local, Reserved, Earned, Judged, Calling, Undelivered, Deciding, Position
<1>1. CASE Begin(b)
  <2> DEFINE r == [build[b] EXCEPT !.dynamic = "running"]
  <2>1. /\ UNCHANGED <<row, calls, faults>> /\ Goto(b, "next") /\ build' = [build EXCEPT ![b] = r]
        /\ op[b].pc = "begin"
    BY <1>1 DEF Begin, At
  <2>2. r \in BuildRow
    BY <1>0, RowWrites
  <2>3. Typed' /\ Alone(b)
    BY <1>0, <2>1, <2>2, Going, Rewriting
  <2>4. build'[b].started = build[b].started /\ build'[b].status = build[b].status
        /\ build'[b].initial = build[b].initial /\ build'[b].dynamic = "running"
        /\ build'[b].teardown = build[b].teardown
    BY <1>0, <2>1, <2>2, Rewriting DEF BuildRow
  <2> QED
    BY <1>0, <2>1, <2>3, <2>4, Going
<1>2. CASE Reserve(b)
  <2> DEFINE c == Needs(b)
             r == [build[b] EXCEPT !.started = @ \cup {c}]
  <2>1. /\ UNCHANGED <<row, calls, faults>> /\ Goto(b, c) /\ build' = [build EXCEPT ![b] = r]
        /\ op[b].pc = "next" /\ c \notin build[b].started
    BY <1>2 DEF Reserve, At
  <2>2. c \in Call /\ c \in Position
    BY DEF Needs
  <2>3. r \in BuildRow
    BY <1>0, <2>2, RowWrites
  <2>4. calls[b].made[c] = 0
    BY <1>0, <2>1, <2>2
  <2>5. op' \in [Build -> Operation] /\ op'[b].pc = c /\ \A d \in Build \ {b} : op'[d] = op[d]
    BY <1>0, <2>1, <2>2, Going
  <2>6. Typed' /\ Alone(b)
    BY <1>0, <2>1, <2>3, <2>5, Rewriting
  <2>7. build'[b].started = build[b].started \cup {c} /\ build'[b].status = build[b].status
        /\ build'[b].initial = build[b].initial /\ build'[b].dynamic = build[b].dynamic
        /\ build'[b].teardown = build[b].teardown
    BY <1>0, <2>1, <2>3, Rewriting DEF BuildRow
  <2>8. Reserved(b)'
    BY <1>0, <2>1, <2>2, <2>4, <2>5, <2>7
  <2> QED
    BY <1>0, <2>1, <2>2, <2>5, <2>6, <2>7, <2>8
<1>3. CASE Unusable(b) \/ Interrupted(b) \/ Passed(b)
  <2>1. /\ UNCHANGED <<build, row, calls, faults>> /\ op[b].pc = "next"
        /\ \/ Finish(b, FALSE)
           \/ Finish(b, TRUE) /\ build[b].initial = "passed"
    BY <1>3 DEF Unusable, Interrupted, Passed, At
  <2> QED
    BY <1>0, <2>1, Finishing
<1>4. ASSUME NEW passed \in BOOLEAN, Probe(b, passed)
      PROVE  Typed' /\ Alone(b) /\ Local(b)'
  <2> DEFINE i == IF passed THEN "passed" ELSE "failed"
             r == [build[b] EXCEPT !.initial = i]
  <2>1. /\ UNCHANGED <<row, faults>> /\ Goto(b, "next") /\ build' = [build EXCEPT ![b] = r]
        /\ op[b].pc = "initial" /\ Made(b, "initial", passed)
    BY <1>4 DEF Probe, At
  <2>2. r \in BuildRow
    BY <1>0, RowWrites
  <2>3. Typed' /\ Alone(b)
    BY <1>0, <2>1, <2>2, Going, Rewriting, Making
  <2>4. build'[b].started = build[b].started /\ build'[b].status = build[b].status
        /\ build'[b].initial = i /\ build'[b].dynamic = build[b].dynamic
        /\ build'[b].teardown = build[b].teardown
    BY <1>0, <2>1, <2>2, Rewriting DEF BuildRow
  <2>5. /\ op'[b].pc = "next"
        /\ calls'[b].made["initial"] = 1 /\ "initial" \in build[b].started
        /\ \A d \in Call \ {"initial"} : calls'[b].made[d] = calls[b].made[d]
        /\ calls'[b].passed = (calls[b].passed \/ passed)
    BY <1>0, <2>1, Going, Making
  <2>6. Reserved(b)'
    BY <1>0, <2>4, <2>5
  <2> QED
    BY <1>0, <2>1, <2>3, <2>4, <2>5, <2>6
<1>5. ASSUME NEW offered \in BOOLEAN, Debug(b, offered)
      PROVE  Typed' /\ Alone(b) /\ Local(b)'
  <2> DEFINE r == [build[b] EXCEPT !.payload = offered]
  <2>1. /\ UNCHANGED <<row, faults>> /\ build' = [build EXCEPT ![b] = r]
        /\ op[b].pc = "agent" /\ Made(b, "agent", FALSE)
        /\ Goto(b, "next") \/ Finish(b, FALSE)
    BY <1>5 DEF Debug, At
  <2>2. r \in BuildRow
    BY <1>0, RowWrites
  <2>3. /\ op' \in [Build -> Operation] /\ \A c \in Build \ {b} : op'[c] = op[c]
        /\ op'[b].pc = "next" \/ (op'[b].pc = "finish" /\ ~op'[b].passed)
    <3>1. CASE Goto(b, "next")
      BY <1>0, <3>1, Going
    <3>2. CASE Finish(b, FALSE)
      BY <1>0, <3>2, Finishing
    <3> QED
      BY <2>1, <3>1, <3>2
  <2>a. Typed' /\ Alone(b)
    BY ZenonT(60), <1>0, <2>1, <2>2, <2>3, Rewriting, Making
  <2>4. build'[b].started = build[b].started /\ build'[b].status = build[b].status
        /\ build'[b].initial = build[b].initial /\ build'[b].dynamic = build[b].dynamic
        /\ build'[b].teardown = build[b].teardown
    BY <1>0, <2>1, <2>2, Rewriting DEF BuildRow
  <2>b. FALSE \in BOOLEAN /\ "agent" \in Call
    OBVIOUS
  <2>c. calls'[b].passed = (calls[b].passed \/ FALSE)
    BY <1>0, <2>1, <2>b, Making
  <2>d. /\ calls'[b].made["agent"] = calls[b].made["agent"] + 1
        /\ \A d \in Call \ {"agent"} : calls'[b].made[d] = calls[b].made[d]
    BY <1>0, <2>1, <2>b, Making
  <2>5. /\ calls'[b].made["agent"] = 1 /\ "agent" \in build[b].started
        /\ \A d \in Call \ {"agent"} : calls'[b].made[d] = calls[b].made[d]
        /\ calls[b].passed => calls'[b].passed
    BY <1>0, <2>1, <2>c, <2>d
  <2>6. Reserved(b)'
    BY <1>0, <2>3, <2>4, <2>5
  <2> QED
    BY <1>0, <2>1, <2>3, <2>a, <2>4, <2>5, <2>6
<1>6. ASSUME NEW passed \in BOOLEAN, Retry(b, passed)
      PROVE  Typed' /\ Alone(b) /\ Local(b)'
  <2>1. /\ UNCHANGED <<build, row, faults>> /\ Finish(b, passed)
        /\ op[b].pc = "retry" /\ Made(b, "retry", passed)
    BY <1>6 DEF Retry, At
  <2> QED
    BY <1>0, <2>1, Finishing, Making
<1> QED
  BY <1>1, <1>2, <1>3, <1>4, <1>5, <1>6

\* The verdict, and the ways a check ends.
LEMMA VerdictStep ==
    ASSUME IInv, NEW b \in Build,
           \/ SaveVerdict(b) \/ FailBuild(b) \/ Sync(b) \/ Succeed(b)
           \/ Report(b) \/ ReportStatus(b) \/ Publish(b) \/ Expose(b)
    PROVE  Typed' /\ Alone(b) /\ Local(b)'
<1>0. Typed /\ Local(b)
  BY DEF IInv
<1> USE DEF Typed, Calls, Call, Alone, Local, Reserved, Earned, Judged, Calling, Undelivered, Deciding, Position
<1> DEFINE good == [build[b] EXCEPT !.dynamic = "succeeded"]
           bad == [build[b] EXCEPT !.dynamic = "failed", !.teardown = TRUE]
           ended == [build[b] EXCEPT !.status = "failed"]
           done == [build[b] EXCEPT !.status = "succeeded"]
<1>a. good \in BuildRow /\ bad \in BuildRow /\ ended \in BuildRow /\ done \in BuildRow
  BY <1>0, RowWrites
<1>b. /\ good.dynamic = "succeeded" /\ bad.dynamic = "failed" /\ bad.teardown
      /\ good.teardown = build[b].teardown
      /\ ended.dynamic = build[b].dynamic /\ done.dynamic = build[b].dynamic
      /\ ended.teardown = build[b].teardown /\ done.teardown = build[b].teardown
      /\ good.status = build[b].status /\ bad.status = build[b].status
      /\ ended.status = "failed" /\ done.status = "succeeded"
      /\ \A r \in {good, bad, ended, done} :
            r.started = build[b].started /\ r.initial = build[b].initial
  BY <1>0 DEF BuildRow
<1> HIDE DEF good, bad, ended, done
<1>1. CASE SaveVerdict(b)
  <2>1. /\ UNCHANGED <<row, calls, faults>> /\ op[b].pc = "finish"
        /\ \/ op[b].passed /\ build' = [build EXCEPT ![b] = good] /\ Goto(b, "sync")
           \/ build' = [build EXCEPT ![b] = bad] /\ Goto(b, "fail")
    BY <1>1 DEF SaveVerdict, Failed, At, good, bad
  <2>2. CASE op[b].passed /\ build' = [build EXCEPT ![b] = good] /\ Goto(b, "sync")
    BY <1>0, <1>a, <1>b, <2>1, <2>2, Going, Rewriting
  <2>3. CASE build' = [build EXCEPT ![b] = bad] /\ Goto(b, "fail")
    BY <1>0, <1>a, <1>b, <2>1, <2>3, Going, Rewriting
  <2> QED
    BY <2>1, <2>2, <2>3
<1>2. CASE FailBuild(b) \/ ReportStatus(b)
  <2>1. /\ UNCHANGED <<row, calls, faults>> /\ op[b].pc \in {"fail", "refail", "reported"}
        /\ build' = [build EXCEPT ![b] = ended]
        /\ Goto(b, "sync") \/ Goto(b, "resync") \/ Goto(b, "publish")
    BY <1>2 DEF FailBuild, ReportStatus, At, ended
  <2>2. /\ op' \in [Build -> Operation] /\ \A c \in Build \ {b} : op'[c] = op[c]
        /\ op'[b].pc \in {"sync", "resync", "publish"}
        /\ op'[b].pc \in {"sync", "resync"} => op[b].pc \in {"fail", "refail"}
    BY <1>0, <1>2, <2>1, Going DEF FailBuild, ReportStatus, At
  <2>3. Typed' /\ Alone(b)
    BY <1>0, <1>a, <2>1, <2>2, Rewriting
  <2> QED
    BY <1>0, <1>a, <1>b, <2>1, <2>2, <2>3, Rewriting
<1>3. CASE Sync(b)
  <2>1. /\ UNCHANGED <<build, calls, faults>>
        /\ row' \in {row, [row EXCEPT !.verdict = build[b].dynamic]} /\ op[b].pc \in {"sync", "resync"}
        /\ (Goto(b, "deliver") /\ build[b].dynamic = "succeeded") \/ Goto(b, "idle")
    BY <1>3 DEF Sync, At
  <2>2. row' \in SharedRow
    BY <1>0, <1>3, <2>1, SyncTyped
  <2> QED
    BY <1>0, <2>1, <2>2, Going
<1>4. CASE Succeed(b)
  <2>1. /\ UNCHANGED <<row, calls, faults>> /\ op[b].pc = "deliver"
        /\ build' = [build EXCEPT ![b] = done] /\ Goto(b, "idle")
    BY <1>4 DEF Succeed, At, done
  <2> QED
    BY <1>0, <1>a, <1>b, <2>1, Going, Rewriting
<1>5. CASE Report(b)
  <2>1. /\ UNCHANGED <<row, calls, faults>> /\ op[b].pc = "report"
        /\ build' = [build EXCEPT ![b] = bad] /\ Goto(b, "reported")
    BY <1>5 DEF Report, Failed, At, bad
  <2> QED
    BY <1>0, <1>a, <1>b, <2>1, Going, Rewriting
<1>6. CASE Publish(b)
  <2> DEFINE o == [op[b] EXCEPT !.pc = IF Frozen(b) THEN "expose" ELSE "idle", !.seen = row.claim]
  <2>1. UNCHANGED <<build, row, calls, faults>> /\ op' = [op EXCEPT ![b] = o]
    BY <1>6 DEF Publish, At
  <2>2. o \in Operation /\ o.pc \in {"expose", "idle"}
    BY ZenonT(60), <1>0 DEF Operation, SharedRow
  <2> QED
    BY <1>0, <2>1, <2>2
<1>7. CASE Expose(b)
  <2>1. UNCHANGED <<build, calls, faults>> /\ Take(b, "failed") /\ Goto(b, "idle")
    BY <1>7 DEF Expose, At
  <2>2. row' \in SharedRow
    BY <1>0, <2>1, Taking
  <2> QED
    BY <1>0, <2>1, <2>2, Going
<1> QED
  BY <1>1, <1>2, <1>3, <1>4, <1>5, <1>6, <1>7

\* A worker that is lost, its call made or not, and a write that raises.
LEMMA FaultStep ==
    ASSUME IInv, NEW b \in Build, Lapse(b) \/ SyncRaises(b)
    PROVE  Typed' /\ Alone(b) /\ Local(b)'
<1>0. Typed /\ Local(b) /\ faults' \in 0..MaxFaults
  <2>1. faults < MaxFaults /\ faults' = faults + 1 /\ faults \in 0..MaxFaults
    BY DEF IInv, Typed, Lapse, SyncRaises, Fault
  <2> QED
    BY <2>1, BoundsAssumption DEF IInv
<1> USE DEF Typed, Calls, Call, Alone, Local, Reserved, Earned, Judged, Calling, Undelivered, Deciding, Position
<1>1. CASE Lapse(b)
  <2>1. /\ UNCHANGED <<build, row>> /\ Goto(b, "idle")
        /\ \/ UNCHANGED calls
           \/ op[b].pc \in Call /\ \E passed \in BOOLEAN : Made(b, op[b].pc, passed)
    BY <1>1 DEF Lapse
  <2>2. CASE UNCHANGED calls
    BY <1>0, <2>1, <2>2, Going
  <2>3. ASSUME NEW passed \in BOOLEAN, op[b].pc \in Call, Made(b, op[b].pc, passed)
        PROVE  Typed' /\ Alone(b) /\ Local(b)'
    BY <1>0, <2>1, <2>3, Going, Making
  <2> QED
    BY <2>1, <2>2, <2>3
<1>2. CASE SyncRaises(b)
  <2>1. /\ UNCHANGED <<build, row, calls>>
        /\ \/ op[b].pc = "sync" /\ Finish(b, FALSE)
           \/ Goto(b, "report") /\ build[b].status = "deploying"
           \/ Goto(b, "idle")
    BY <1>2 DEF SyncRaises
  <2> QED
    BY <1>0, <2>1, Going, Finishing
<1> QED
  BY <1>1, <1>2

LEMMA Invariance == Spec => []IInv
<1>1. Init => IInv
  <2> SUFFICES ASSUME Init PROVE IInv
    OBVIOUS
  <2>1. Typed
    BY BoundsAssumption, NoBuildAssumption, IdleTyped
       DEF Init, Typed, BuildRow, SharedRow, Claim, Unclaimed
  <2>2. ASSUME NEW b \in Build
        PROVE  Local(b)
    BY DEF Init, Local, Reserved, Earned, Judged, Calling, Undelivered, Deciding, Idle, NoCalls, Call
  <2> QED
    BY <2>1, <2>2 DEF IInv
<1>2. IInv /\ [Next]_vars => IInv'
  <2> SUFFICES ASSUME IInv, [Next]_vars PROVE IInv'
    OBVIOUS
  <2>1. CASE ForceCheck
    <3> DEFINE g == row.claim.generation + 1
    <3>1. UNCHANGED <<build, op, calls, faults>> /\ row' = [claim |-> Unclaimed(g), verdict |-> "open"]
      BY <2>1 DEF ForceCheck
    <3>2. g \in 1..MaxGeneration
      <4>1. row.claim.generation \in 1..MaxGeneration /\ row.claim.generation < MaxGeneration
        BY <2>1 DEF ForceCheck, IInv, Typed, SharedRow, Claim
      <4> QED
        BY <4>1, BoundsAssumption
    <3>3. row' \in SharedRow
      BY <3>1, <3>2, BoundsAssumption DEF SharedRow, Claim, Unclaimed
    <3> QED
      BY <3>1, <3>3 DEF IInv, Typed, Local, Reserved, Earned, Judged, Calling, Undelivered
  <2>2. ASSUME NEW b \in Build,
               \/ QueueBuild(b) \/ Recheck(b) \/ Deliver(b) \/ Recover(b) \/ TearDown(b)
               \/ Step(b) \/ Lapse(b) \/ SyncRaises(b)
        PROVE  IInv'
    <3>1. Typed' /\ Alone(b) /\ Local(b)'
      BY <2>2, OpenStep, ClaimStep, CallStep, VerdictStep, FaultStep DEF Step
    <3> QED
      BY <3>1, OthersKept
  <2>3. CASE UNCHANGED vars
    BY <2>3 DEF vars, IInv, Typed, Local, Reserved, Earned, Judged, Calling, Undelivered
  <2> QED
    BY <2>1, <2>2, <2>3 DEF Next
<1> QED
  BY <1>1, <1>2, PTL DEF Spec

-----------------------------------------------------------------------------
(***************************************************************************)
(* The aggregate.  What a run may write to the shared row follows from     *)
(* where its operation is: a claim that is about to be written was read    *)
(* when the row was the run's own or before the run made any call, and a   *)
(* failure is reported only of a run that has failed.                      *)
(***************************************************************************)

\* A row that names a build names a run the build has reached, of the static
\* check it was deployed with, and gives that run's verdict.
RowPart(b) ==
    row.claim.build = b =>
        /\ row.claim.generation = build[b].generation
        /\ row.claim.run <= build[b].run
        /\ row.claim.run = build[b].run /\ row.verdict = "succeeded" => calls[b].passed
        /\ row.claim.run = build[b].run /\ row.verdict = "failed" => build[b].dynamic = "failed"

\* A build that is not deployed takes no part in any of this.
Fresh(b) ==
    build[b].status = "none" => row.claim.build # b /\ op[b].pc = "idle" /\ ~build[b].teardown

\* Where an operation is says how far its run is decided ...
Stage(b) ==
    /\ build[b].dynamic = "pending" => build[b].started = {}
    /\ op[b].pc \in {"recheck", "reswap"} => build[b].started = {}
    /\ op[b].pc \in Calling \/ (op[b].pc = "finish" /\ op[b].passed) =>
          build[b].dynamic \notin {"succeeded", "failed"}
    /\ op[b].pc \in {"next"} \cup Call => build[b].dynamic = "running"
    /\ op[b].pc \in {"reported", "publish", "expose"} => build[b].dynamic = "failed"

\* ... and what it has read of the row before it writes it.
Seen(b) ==
    /\ op[b].pc \in {"swap", "reswap", "expose"} => op[b].seen.generation = build[b].generation
    /\ op[b].pc \in {"swap", "reswap"} => op[b].seen = Own(b) \/ build[b].started = {}

Aggregated(b) == RowPart(b) /\ Fresh(b) /\ Stage(b) /\ Seen(b)

\* A step of build b's operation writes the row only of its own run.
RowIsOwn(b) == row' = row \/ row'.claim.build = b

LEMMA OthersAggregated ==
    ASSUME Typed, NEW b \in Build, Alone(b), RowIsOwn(b), NEW c \in Build \ {b}, Aggregated(c)
    PROVE  Aggregated(c)'
<1>1. build'[c] = build[c] /\ op'[c] = op[c] /\ calls'[c] = calls[c]
  BY DEF Alone
<1>2. row'.claim.build = c => row' = row
  BY DEF RowIsOwn
<1>3. RowPart(c)'
  BY <1>1, <1>2 DEF Aggregated, RowPart
<1>4. Fresh(c)' /\ Stage(c)' /\ Seen(c)'
  BY <1>1, <1>2 DEF Aggregated, Fresh, Stage, Seen, Own
<1> QED
  BY <1>3, <1>4 DEF Aggregated

\* The row still gives a run's verdict when the run only gets on.
LEMMA RowStays ==
    ASSUME Typed, NEW b \in Build, Aggregated(b), row' = row,
           build'[b].generation = build[b].generation, build'[b].run = build[b].run,
           calls[b].passed => calls'[b].passed,
           build[b].dynamic = "failed" => build'[b].dynamic = "failed"
    PROVE  RowPart(b)' /\ RowIsOwn(b)
  BY DEF Aggregated, RowPart, RowIsOwn

\* What an operation reads of the row, it has read.
LEMMA Reading ==
    ASSUME Typed, NEW b \in Build, NEW pc \in Position,
           op' = [op EXCEPT ![b].pc = pc, ![b].seen = row.claim]
    PROVE  op'[b].pc = pc /\ op'[b].seen = row.claim
<1> DEFINE o == [op[b] EXCEPT !.pc = pc, !.seen = row.claim]
<1>1. op' = [op EXCEPT ![b] = o]
  OBVIOUS
<1>2. o.pc = pc /\ o.seen = row.claim
  BY DEF Typed, Operation
<1> QED
  BY <1>1, <1>2 DEF Typed

\* Steps that change no row: messages, reads, calls and interruptions.
LEMMA QuietAggregate ==
    ASSUME IInv, NEW b \in Build, Aggregated(b), UNCHANGED <<build, row>>,
           calls[b].passed => calls'[b].passed,
           Stage(b)', Seen(b)',
           build[b].status # "none"
    PROVE  Aggregated(b)' /\ RowIsOwn(b)
<1>1. RowPart(b)' /\ RowIsOwn(b)
  BY RowStays DEF IInv
<1>2. Fresh(b)'
  BY DEF Fresh
<1> QED
  BY <1>1, <1>2 DEF Aggregated

\* Operations are at work only on builds that are deployed.
LEMMA AtWork ==
    ASSUME NEW b \in Build, Aggregated(b), op[b].pc # "idle"
    PROVE  build[b].status # "none"
  BY DEF Aggregated, Fresh

LEMMA QuietSteps ==
    ASSUME IInv, NEW b \in Build, Aggregated(b),
           \/ Deliver(b) \/ Recover(b) \/ DeploymentFails(b) \/ Unusable(b) \/ Interrupted(b)
           \/ Passed(b) \/ \E passed \in BOOLEAN : Retry(b, passed)
           \/ Lapse(b) \/ SyncRaises(b)
    PROVE  Aggregated(b)' /\ RowIsOwn(b)
<1>0. Typed /\ Stage(b)
  BY DEF IInv, Aggregated
<1>1. UNCHANGED <<build, row>> /\ op \in [Build -> Operation] /\ calls \in [Build -> Calls]
  BY DEF Deliver, Recover, DeploymentFails, Unusable, Interrupted, Passed, Retry, Lapse, SyncRaises,
         IInv, Typed
<1> USE DEF Stage, Seen, Calling, Call, Position
<1>2. CASE Deliver(b)
  <2>1. op'[b].pc = "start" /\ UNCHANGED calls /\ build[b].status = "deploying"
    BY <1>1, <1>2, Going DEF Deliver, At
  <2> QED
    BY <1>0, <1>1, <2>1, QuietAggregate
<1>3. CASE Recover(b)
  <2>1. op'[b].pc \in {"refail", "resync"} /\ UNCHANGED calls /\ build[b].teardown
    <3>1. CASE build[b].status = "deploying"
      BY <1>1, <1>3, <3>1, Going DEF Recover, At
    <3>2. CASE build[b].status # "deploying"
      BY <1>1, <1>3, <3>2, Going DEF Recover, At
    <3> QED
      BY <3>1, <3>2
  <2>2. build[b].status # "none"
    BY <2>1 DEF Aggregated, Fresh
  <2> QED
    BY <1>0, <1>1, <2>1, <2>2, QuietAggregate
<1>4. CASE DeploymentFails(b)
  <2>1. op'[b].pc = "report" /\ UNCHANGED calls /\ op[b].pc = "start"
    BY <1>1, <1>4, Going DEF DeploymentFails, At
  <2> QED
    BY <1>0, <1>1, <2>1, AtWork, QuietAggregate
<1>5. CASE Unusable(b) \/ Interrupted(b) \/ Passed(b)
  <2>1. op'[b].pc = "finish" /\ UNCHANGED calls /\ op[b].pc = "next"
    BY <1>1, <1>5, Finishing DEF Unusable, Interrupted, Passed, At
  <2> QED
    BY <1>0, <1>1, <2>1, AtWork, QuietAggregate
<1>6. ASSUME NEW passed \in BOOLEAN, Retry(b, passed)
      PROVE  Aggregated(b)' /\ RowIsOwn(b)
  <2>1. op'[b].pc = "finish" /\ op[b].pc = "retry"
    BY <1>1, <1>6, Finishing DEF Retry, At
  <2>2. calls[b].passed => calls'[b].passed
    BY <1>1, <1>6, Making DEF Retry
  <2> QED
    BY <1>0, <1>1, <2>1, <2>2, AtWork, QuietAggregate
<1>7. CASE Lapse(b)
  <2>1. op'[b].pc = "idle" /\ op[b].pc # "idle"
    BY <1>1, <1>7, Going DEF Lapse
  <2>2. calls[b].passed => calls'[b].passed
    BY <1>1, <1>7, Making DEF Lapse
  <2> QED
    BY <1>0, <1>1, <2>1, <2>2, AtWork, QuietAggregate
<1>8. CASE SyncRaises(b)
  <2>1. \/ Finish(b, FALSE) \/ Goto(b, "report") \/ Goto(b, "idle")
    BY <1>8 DEF SyncRaises
  <2>2. UNCHANGED calls /\ op[b].pc # "idle"
    BY <1>8 DEF SyncRaises
  <2>3. op'[b].pc \in {"report", "idle"} \/ (op'[b].pc = "finish" /\ ~op'[b].passed)
    BY <1>1, <2>1, Going, Finishing
  <2> QED
    BY <1>0, <1>1, <2>2, <2>3, AtWork, QuietAggregate
<1> QED
  BY <1>2, <1>3, <1>4, <1>5, <1>6, <1>7, <1>8

\* What is read of the row, before its claim or to report a failure.
LEMMA ReadSteps ==
    ASSUME IInv, NEW b \in Build, Aggregated(b), ClaimRead(b) \/ Publish(b)
    PROVE  Aggregated(b)' /\ RowIsOwn(b)
<1>0. Typed /\ Stage(b)
  BY DEF IInv, Aggregated
<1>1. UNCHANGED <<build, row, calls>> /\ op \in [Build -> Operation]
  BY DEF ClaimRead, Publish, IInv, Typed
<1>2. op[b].pc \in {"claim", "recheck", "publish"} /\ build[b].status # "none"
  BY AtWork DEF ClaimRead, Publish, At
<1> USE DEF Stage, Seen, Calling, Call, Position
<1>3. CASE Publish(b)
  <2> DEFINE q == IF Frozen(b) THEN "expose" ELSE "idle"
  <2>1. op' = [op EXCEPT ![b].pc = q, ![b].seen = row.claim] /\ op[b].pc = "publish"
    BY <1>3 DEF Publish, At
  <2>a. q \in Position
    OBVIOUS
  <2> HIDE DEF q
  <2>2. op'[b].pc = q /\ op'[b].seen = row.claim
    BY <1>0, <2>1, <2>a, Reading
  <2> USE DEF q
  <2> QED
    BY <1>0, <1>1, <1>2, <2>1, <2>2, QuietAggregate DEF Frozen
<1>4. ASSUME ClaimRead(b), Claimed(b) \/ ClaimRefused(b)
      PROVE  Aggregated(b)' /\ RowIsOwn(b)
  <2>1. op[b].pc \in {"claim", "recheck"}
    BY <1>4 DEF ClaimRead, At
  <2>2. \/ op[b].pc = "claim" /\ (Goto(b, "begin") \/ Finish(b, FALSE))
        \/ Goto(b, "idle")
    BY <1>4, <2>1 DEF Claimed, ClaimRefused
  <2>3. \/ op[b].pc = "claim" /\ op'[b].pc = "begin"
        \/ op'[b].pc = "finish" /\ ~op'[b].passed
        \/ op'[b].pc = "idle"
    BY <1>1, <2>2, Going, Finishing
  <2> QED
    BY <1>0, <1>1, <1>2, <2>3, QuietAggregate
<1>5. ASSUME ClaimRead(b), Frozen(b), MayTake(b),
             op' = [op EXCEPT ![b].pc = IF @ = "claim" THEN "swap" ELSE "reswap", ![b].seen = row.claim]
      PROVE  Aggregated(b)' /\ RowIsOwn(b)
  <2> DEFINE q == IF op[b].pc = "claim" THEN "swap" ELSE "reswap"
  <2>1. op' = [op EXCEPT ![b].pc = q, ![b].seen = row.claim] /\ op[b].pc \in {"claim", "recheck"}
    BY <1>5 DEF ClaimRead, At
  <2>a. q \in Position
    OBVIOUS
  <2> HIDE DEF q
  <2>2. op'[b].pc = q /\ op'[b].seen = row.claim
    BY <1>0, <2>1, <2>a, Reading
  <2> USE DEF q
  <2>3. Own(b)' = Own(b)
    BY <1>1 DEF Own
  <2>4. Seen(b)'
    BY <1>0, <1>1, <1>5, <2>2, <2>3 DEF Frozen, MayTake
  <2>5. Stage(b)'
    BY <1>0, <1>1, <2>1, <2>2
  <2> QED
    BY <1>1, <1>2, <2>4, <2>5, QuietAggregate
<1> QED
  BY <1>3, <1>4, <1>5 DEF ClaimRead

\* Steps that write the build's row: its run gets on, and only a new run makes
\* a failed one anything else.
LEMMA WriteAggregate ==
    ASSUME IInv, NEW b \in Build, Aggregated(b), UNCHANGED row,
           build'[b].generation = build[b].generation, build'[b].run = build[b].run,
           calls[b].passed => calls'[b].passed,
           build[b].dynamic = "failed" => build'[b].dynamic = "failed",
           build'[b].status # "none", Stage(b)', Seen(b)'
    PROVE  Aggregated(b)' /\ RowIsOwn(b)
<1>1. RowPart(b)' /\ RowIsOwn(b)
  BY RowStays DEF IInv
<1>2. Fresh(b)'
  BY DEF Fresh
<1> QED
  BY <1>1, <1>2 DEF Aggregated

LEMMA CallWrites ==
    ASSUME IInv, NEW b \in Build, Aggregated(b),
           \/ Begin(b) \/ Reserve(b)
           \/ \E passed \in BOOLEAN : Probe(b, passed) \/ Debug(b, passed)
    PROVE  Aggregated(b)' /\ RowIsOwn(b)
<1>0. Typed /\ Stage(b) /\ build[b] \in BuildRow
  BY DEF IInv, Typed, Aggregated
<1>1. build \in [Build -> BuildRow] /\ op \in [Build -> Operation] /\ calls \in [Build -> Calls]
  BY DEF IInv, Typed
<1> USE DEF Stage, Seen, Calling, Call, Position
<1>2. CASE Begin(b)
  <2> DEFINE r == [build[b] EXCEPT !.dynamic = "running"]
  <2>1. /\ UNCHANGED <<row, calls>> /\ op[b].pc = "begin" /\ op'[b].pc = "next"
        /\ build' = [build EXCEPT ![b] = r]
    BY <1>1, <1>2, Going DEF Begin, At
  <2>2. /\ build'[b].generation = build[b].generation /\ build'[b].run = build[b].run
        /\ build'[b].dynamic = "running" /\ build'[b].status = build[b].status
    BY <1>0, <1>1, <2>1 DEF BuildRow
  <2> QED
    BY <1>0, <2>1, <2>2, AtWork, WriteAggregate
<1>3. CASE Reserve(b)
  <2> DEFINE c == Needs(b)
             r == [build[b] EXCEPT !.started = @ \cup {c}]
  <2>1. c \in Call /\ c \in Position
    BY DEF Needs
  <2>2. /\ UNCHANGED <<row, calls>> /\ op[b].pc = "next" /\ op'[b].pc = c
        /\ build' = [build EXCEPT ![b] = r]
    BY <1>1, <1>3, <2>1, Going DEF Reserve, At
  <2>3. /\ build'[b].generation = build[b].generation /\ build'[b].run = build[b].run
        /\ build'[b].dynamic = build[b].dynamic /\ build'[b].status = build[b].status
    BY <1>0, <1>1, <2>2 DEF BuildRow
  <2> QED
    BY <1>0, <2>1, <2>2, <2>3, AtWork, WriteAggregate
<1>4. ASSUME NEW passed \in BOOLEAN, Probe(b, passed)
      PROVE  Aggregated(b)' /\ RowIsOwn(b)
  <2> DEFINE i == IF passed THEN "passed" ELSE "failed"
             r == [build[b] EXCEPT !.initial = i]
  <2>1. /\ UNCHANGED row /\ op[b].pc = "initial" /\ op'[b].pc = "next"
        /\ build' = [build EXCEPT ![b] = r] /\ Made(b, "initial", passed)
    BY <1>1, <1>4, Going DEF Probe, At
  <2>2. /\ build'[b].generation = build[b].generation /\ build'[b].run = build[b].run
        /\ build'[b].dynamic = build[b].dynamic /\ build'[b].status = build[b].status
        /\ build'[b].started = build[b].started
    BY <1>0, <1>1, <2>1 DEF BuildRow
  <2>3. calls[b].passed => calls'[b].passed
    BY <1>1, <2>1, Making
  <2> QED
    BY <1>0, <2>1, <2>2, <2>3, AtWork, WriteAggregate
<1>5. ASSUME NEW offered \in BOOLEAN, Debug(b, offered)
      PROVE  Aggregated(b)' /\ RowIsOwn(b)
  <2> DEFINE r == [build[b] EXCEPT !.payload = offered]
  <2>1. /\ UNCHANGED row /\ op[b].pc = "agent" /\ (Goto(b, "next") \/ Finish(b, FALSE))
        /\ build' = [build EXCEPT ![b] = r] /\ Made(b, "agent", FALSE)
    BY <1>5 DEF Debug, At
  <2>2. op'[b].pc = "next" \/ (op'[b].pc = "finish" /\ ~op'[b].passed)
    <3>1. CASE Goto(b, "next")
      BY <1>1, <3>1, Going
    <3>2. CASE Finish(b, FALSE)
      BY <1>1, <3>2, Finishing
    <3> QED
      BY <2>1, <3>1, <3>2
  <2>3. /\ build'[b].generation = build[b].generation /\ build'[b].run = build[b].run
        /\ build'[b].dynamic = build[b].dynamic /\ build'[b].status = build[b].status
        /\ build'[b].started = build[b].started
    BY <1>0, <1>1, <2>1 DEF BuildRow
  <2>4. calls[b].passed => calls'[b].passed
    <3>1. FALSE \in BOOLEAN /\ "agent" \in Call
      OBVIOUS
    <3> QED
      BY <1>1, <2>1, <3>1, Making
  <2> QED
    BY <1>0, <2>1, <2>2, <2>3, <2>4, AtWork, WriteAggregate
<1> QED
  BY <1>2, <1>3, <1>4, <1>5

LEMMA VerdictWrites ==
    ASSUME IInv, NEW b \in Build, Aggregated(b),
           SaveVerdict(b) \/ FailBuild(b) \/ Succeed(b) \/ Report(b) \/ ReportStatus(b) \/ TearDown(b)
    PROVE  Aggregated(b)' /\ RowIsOwn(b)
<1>0. Typed /\ Stage(b) /\ Fresh(b) /\ build[b] \in BuildRow
  BY DEF IInv, Typed, Aggregated
<1>1. build \in [Build -> BuildRow] /\ op \in [Build -> Operation]
  BY DEF IInv, Typed
<1> DEFINE good == [build[b] EXCEPT !.dynamic = "succeeded"]
           bad == [build[b] EXCEPT !.dynamic = "failed", !.teardown = TRUE]
           gone == [build[b] EXCEPT !.teardown = FALSE]
           ended(s) == [build[b] EXCEPT !.status = s]
           Same(r) == /\ r.generation = build[b].generation /\ r.run = build[b].run
                      /\ r.started = build[b].started
<1>2. /\ Same(good) /\ good.dynamic = "succeeded" /\ good.status = build[b].status
      /\ Same(bad) /\ bad.dynamic = "failed" /\ bad.status = build[b].status
      /\ Same(gone) /\ gone.dynamic = build[b].dynamic /\ gone.status = build[b].status
      /\ \A s \in {"succeeded", "failed"} :
            Same(ended(s)) /\ ended(s).dynamic = build[b].dynamic /\ ended(s).status = s
  BY <1>0 DEF BuildRow
<1>3. \A r : build' = [build EXCEPT ![b] = r] => build'[b] = r
  BY <1>1
<1> HIDE DEF good, bad, gone, ended
<1> USE DEF Stage, Seen, Calling, Call, Position
<1>4. CASE SaveVerdict(b)
  <2>1. /\ UNCHANGED <<row, calls>> /\ op[b].pc = "finish"
        /\ \/ op[b].passed /\ build' = [build EXCEPT ![b] = good] /\ Goto(b, "sync")
           \/ build' = [build EXCEPT ![b] = bad] /\ Goto(b, "fail")
    BY <1>4 DEF SaveVerdict, Failed, At, good, bad
  <2>2. CASE op[b].passed /\ build' = [build EXCEPT ![b] = good] /\ Goto(b, "sync")
    <3>1. op'[b].pc = "sync" /\ build'[b] = good
      BY <1>1, <1>3, <2>2, Going
    <3> QED
      BY <1>0, <1>2, <2>1, <2>2, <3>1, AtWork, WriteAggregate
  <2>3. CASE build' = [build EXCEPT ![b] = bad] /\ Goto(b, "fail")
    <3>1. op'[b].pc = "fail" /\ build'[b] = bad
      BY <1>1, <1>3, <2>3, Going
    <3> QED
      BY <1>0, <1>2, <2>1, <2>3, <3>1, AtWork, WriteAggregate
  <2> QED
    BY <2>1, <2>2, <2>3
<1>5. CASE FailBuild(b) \/ ReportStatus(b)
  <2>1. /\ UNCHANGED <<row, calls>> /\ op[b].pc \in {"fail", "refail", "reported"}
        /\ build' = [build EXCEPT ![b] = ended("failed")]
        /\ \/ Goto(b, "sync") \/ Goto(b, "resync")
           \/ op[b].pc = "reported" /\ Goto(b, "publish")
    BY <1>5 DEF FailBuild, ReportStatus, At, ended
  <2>2. \/ op'[b].pc \in {"sync", "resync"}
        \/ op[b].pc = "reported" /\ op'[b].pc = "publish"
    BY <1>1, <2>1, Going
  <2>3. build'[b] = ended("failed")
    BY <1>3, <2>1
  <2> QED
    BY <1>0, <1>2, <2>1, <2>2, <2>3, WriteAggregate
<1>6. CASE Succeed(b)
  <2>1. /\ UNCHANGED <<row, calls>> /\ op'[b].pc = "idle"
        /\ build' = [build EXCEPT ![b] = ended("succeeded")]
    BY <1>1, <1>6, Going DEF Succeed, At, ended
  <2>2. build'[b] = ended("succeeded")
    BY <1>3, <2>1
  <2> QED
    BY <1>0, <1>2, <2>1, <2>2, WriteAggregate
<1>7. CASE Report(b)
  <2>1. /\ UNCHANGED <<row, calls>> /\ op[b].pc = "report" /\ op'[b].pc = "reported"
        /\ build' = [build EXCEPT ![b] = bad]
    BY <1>1, <1>7, Going DEF Report, Failed, At, bad
  <2>2. build'[b] = bad
    BY <1>3, <2>1
  <2> QED
    BY <1>0, <1>2, <2>1, <2>2, AtWork, WriteAggregate
<1>8. CASE TearDown(b)
  <2>1. /\ UNCHANGED <<row, op, calls>> /\ build[b].teardown /\ op[b].pc = "idle"
        /\ build' = [build EXCEPT ![b] = gone]
    BY <1>8 DEF TearDown, At, gone
  <2>2. build'[b] = gone /\ build[b].status # "none"
    BY <1>0, <1>3, <2>1 DEF Fresh
  <2> QED
    BY <1>0, <1>2, <2>1, <2>2, WriteAggregate
<1> QED
  BY <1>4, <1>5, <1>6, <1>7, <1>8

\* A build that is deployed, and a run that begins: the row cannot name them.
LEMMA RunWrites ==
    ASSUME IInv, NEW b \in Build, Aggregated(b), QueueBuild(b) \/ Recheck(b) \/ Execute(b)
    PROVE  Aggregated(b)' /\ RowIsOwn(b)
<1>0. Typed /\ RowPart(b) /\ Fresh(b) /\ Stage(b) /\ Seen(b) /\ build[b] \in BuildRow
  BY DEF IInv, Typed, Aggregated
<1>1. /\ build \in [Build -> BuildRow] /\ op \in [Build -> Operation]
      /\ row.claim.run \in Nat /\ build[b].run \in Nat
  BY <1>0, BoundsAssumption DEF Typed, SharedRow, Claim, BuildRow
<1> USE DEF Stage, Seen, Calling, Call, Position
<1>2. CASE QueueBuild(b)
  <2> DEFINE g == row.claim.generation
             r == [build[b] EXCEPT !.status = "deploying", !.generation = g]
  <2>1. UNCHANGED <<row, op, calls>> /\ build[b].status = "none" /\ build' = [build EXCEPT ![b] = r]
    BY <1>2 DEF QueueBuild
  <2>2. /\ build'[b].status = "deploying" /\ build'[b].dynamic = build[b].dynamic
        /\ build'[b].started = build[b].started
    BY <1>0, <1>1, <2>1 DEF BuildRow
  <2>3. row'.claim.build # b /\ op'[b].pc = "idle"
    BY <1>0, <2>1 DEF Fresh
  <2> QED
    BY <1>0, <2>1, <2>2, <2>3 DEF Aggregated, RowPart, Fresh, RowIsOwn
<1>3. CASE Recheck(b)
  <2> DEFINE n == build[b].run + 1
             r == [build[b] EXCEPT !.status = "deploying", !.dynamic = "queued", !.run = n,
                                   !.started = {}, !.initial = "none", !.payload = FALSE]
  <2>1. UNCHANGED row /\ op'[b].pc = "recheck" /\ build' = [build EXCEPT ![b] = r]
    BY <1>1, <1>3, Going DEF Recheck, At
  <2>2. /\ build'[b].generation = build[b].generation /\ build'[b].run = n
        /\ build'[b].dynamic = "queued" /\ build'[b].started = {} /\ build'[b].status = "deploying"
    BY <1>0, <1>1, <2>1 DEF BuildRow
  <2>3. row.claim.run <= build[b].run => row.claim.run <= n /\ row.claim.run # n
    BY <1>1
  <2>4. RowPart(b)'
    BY <1>0, <2>1, <2>2, <2>3 DEF RowPart
  <2> QED
    BY <2>1, <2>2, <2>4 DEF Aggregated, Fresh, RowIsOwn
<1>4. CASE Execute(b)
  <2> DEFINE n == IF build[b].run = 0 THEN 1 ELSE build[b].run
             r == [build[b] EXCEPT !.run = n]
  <2>1. /\ UNCHANGED <<row, calls>> /\ op[b].pc = "start" /\ build[b].status # "none"
        /\ \/ UNCHANGED build /\ (Goto(b, "refail") \/ Goto(b, "resync"))
           \/ build' = [build EXCEPT ![b] = r] /\ ~Decided(b) /\ Goto(b, "claim")
    BY <1>4, AtWork DEF Execute, At
  <2>2. CASE UNCHANGED build /\ (Goto(b, "refail") \/ Goto(b, "resync"))
    <3>1. op'[b].pc \in {"refail", "resync"}
      BY <1>1, <2>2, Going
    <3> QED
      BY <1>0, <2>1, <2>2, <3>1, QuietAggregate
  <2>3. CASE build' = [build EXCEPT ![b] = r] /\ ~Decided(b) /\ Goto(b, "claim")
    <3>1. op'[b].pc = "claim"
      BY <1>1, <2>3, Going
    <3>2. /\ build'[b].generation = build[b].generation /\ build'[b].run = n
          /\ build'[b].dynamic = build[b].dynamic /\ build'[b].started = build[b].started
          /\ build'[b].status = build[b].status
      BY <1>0, <1>1, <2>3 DEF BuildRow
    <3>3. row.claim.run <= build[b].run =>
             row.claim.run <= n /\ (row.claim.run = n => row.claim.run = build[b].run)
      BY <1>1
    <3>4. RowPart(b)'
      BY <1>0, <2>1, <3>2, <3>3 DEF RowPart
    <3> QED
      BY <1>0, <2>1, <2>3, <3>1, <3>2, <3>4 DEF Aggregated, Fresh, RowIsOwn, Decided
  <2> QED
    BY <2>1, <2>2, <2>3
<1> QED
  BY <1>2, <1>3, <1>4

\* A row that is taken is that of the run that takes it.
LEMMA TakenRow ==
    ASSUME Typed, NEW b \in Build, NEW verdict, Take(b, verdict), Matches(b),
           op[b].seen.generation = build[b].generation
    PROVE  row'.claim = Own(b) /\ row'.verdict = verdict
<1> DEFINE n == build[b].run
           c == [row.claim EXCEPT !.build = b, !.run = n]
<1>1. row' = [claim |-> c, verdict |-> verdict]
  BY DEF Take
<1>2. row.claim \in Claim /\ row.claim.generation = build[b].generation
  BY DEF Typed, SharedRow, Matches
<1>3. c = [generation |-> row.claim.generation, build |-> b, run |-> n]
  <2>1. n \in 0..MaxRuns
    BY DEF Typed, BuildRow
  <2>2. c \in Claim /\ c.generation = row.claim.generation /\ c.build = b /\ c.run = n
    BY <1>2, <2>1 DEF Claim
  <2> HIDE DEF c, n
  <2> QED
    BY <2>2 DEF Claim
<1>4. c = Own(b)
  BY <1>2, <1>3 DEF Own
<1> QED
  BY <1>1, <1>4

LEMMA RowSteps ==
    ASSUME IInv, NEW b \in Build, Aggregated(b), ClaimWrite(b) \/ Sync(b) \/ Expose(b)
    PROVE  /\ Aggregated(b)' /\ RowIsOwn(b)
           /\ row'.claim = Own(b) /\ row.claim # Own(b) /\ build[b].started # {} => op[b].pc = "expose"
<1>0. /\ Typed /\ RowPart(b) /\ Stage(b) /\ Seen(b)
      /\ op \in [Build -> Operation] /\ Judged(b) /\ Earned(b)
  BY DEF IInv, Typed, Aggregated, Local
<1>1. UNCHANGED <<build, calls>> /\ op[b].pc \in {"swap", "reswap", "sync", "resync", "expose"}
  BY DEF ClaimWrite, Sync, Expose, At
<1>2. build'[b].status # "none" /\ Own(b)' = Own(b)
  BY <1>1, AtWork DEF Own
<1>3. row' = row => RowPart(b)' /\ RowIsOwn(b)
  BY <1>0, <1>1 DEF RowPart, RowIsOwn
<1>4. row'.claim = Own(b) /\ row'.verdict = "open" => RowPart(b)' /\ RowIsOwn(b)
  BY <1>0, <1>1, BoundsAssumption DEF RowPart, RowIsOwn, Own, Typed, BuildRow
<1>5. row'.claim = Own(b) /\ row'.verdict = "failed" /\ build[b].dynamic = "failed" =>
         RowPart(b)' /\ RowIsOwn(b)
  BY <1>0, <1>1, BoundsAssumption DEF RowPart, RowIsOwn, Own, Typed, BuildRow
<1>6. row'.claim = Own(b) /\ row'.verdict = "succeeded" /\ build[b].dynamic = "succeeded" =>
         RowPart(b)' /\ RowIsOwn(b)
  BY <1>0, <1>1, BoundsAssumption DEF RowPart, RowIsOwn, Own, Typed, BuildRow, Earned
<1> USE DEF Stage, Seen, Calling, Call, Position
<1>7. CASE ClaimWrite(b)
  <2>1. op[b].pc \in {"swap", "reswap"} /\ Take(b, "open") /\ (Claimed(b) \/ ClaimRefused(b))
    BY <1>7 DEF ClaimWrite, At
  <2>2. \/ op[b].pc = "swap" /\ (Goto(b, "begin") \/ Finish(b, FALSE))
        \/ Goto(b, "idle")
    BY <2>1 DEF Claimed, ClaimRefused
  <2>3. \/ op[b].pc = "swap" /\ op'[b].pc = "begin"
        \/ op'[b].pc = "finish" /\ ~op'[b].passed
        \/ op'[b].pc = "idle"
    BY <1>0, <2>2, Going, Finishing
  <2>4. row' = row \/ (Matches(b) /\ row'.claim = Own(b) /\ row'.verdict = "open")
    BY <1>0, <2>1, TakenRow DEF Take
  <2>5. RowPart(b)' /\ RowIsOwn(b)
    BY <1>3, <1>4, <2>4
  <2>6. row'.claim = Own(b) /\ row.claim # Own(b) => build[b].started = {}
    BY <1>0, <2>1, <2>4 DEF Matches
  <2>7. Stage(b)' /\ Seen(b)'
    BY <1>0, <1>1, <2>1, <2>3
  <2> QED
    BY <1>2, <2>5, <2>6, <2>7 DEF Aggregated, Fresh
<1>8. CASE Sync(b)
  <2>1. /\ op[b].pc \in {"sync", "resync"} /\ (Goto(b, "deliver") \/ Goto(b, "idle"))
        /\ row' = row \/ (Owns(b) /\ row' = [row EXCEPT !.verdict = build[b].dynamic])
        /\ build[b].dynamic \in {"succeeded", "failed"}
    BY <1>0, <1>8 DEF Sync, At, Judged
  <2>2. op'[b].pc \in {"deliver", "idle"}
    BY <1>0, <2>1, Going
  <2>3. row' = row \/ (row.claim = Own(b) /\ row'.claim = Own(b) /\ row'.verdict = build[b].dynamic)
    BY <1>0, <2>1 DEF Owns, Typed, SharedRow
  <2>4. RowPart(b)' /\ RowIsOwn(b)
    BY <1>3, <1>5, <1>6, <2>1, <2>3
  <2>5. Stage(b)' /\ Seen(b)'
    BY <1>0, <1>1, <2>2
  <2> QED
    BY <1>2, <2>3, <2>4, <2>5 DEF Aggregated, Fresh
<1>9. CASE Expose(b)
  <2>1. op[b].pc = "expose" /\ Take(b, "failed") /\ op'[b].pc = "idle" /\ build[b].dynamic = "failed"
    BY <1>0, <1>9, Going DEF Expose, At
  <2>2. row' = row \/ (row'.claim = Own(b) /\ row'.verdict = "failed")
    BY <1>0, <2>1, TakenRow DEF Take
  <2>3. RowPart(b)' /\ RowIsOwn(b)
    BY <1>3, <1>5, <2>1, <2>2
  <2>4. Stage(b)' /\ Seen(b)'
    BY <1>0, <1>1, <2>1
  <2> QED
    BY <1>2, <2>1, <2>3, <2>4 DEF Aggregated, Fresh
<1> QED
  BY <1>7, <1>8, <1>9

\* Every step of a build.
LEMMA BuildSteps ==
    ASSUME IInv, NEW b \in Build, Aggregated(b),
           \/ QueueBuild(b) \/ Recheck(b) \/ Deliver(b) \/ Recover(b) \/ TearDown(b)
           \/ Step(b) \/ Lapse(b) \/ SyncRaises(b)
    PROVE  /\ Aggregated(b)' /\ RowIsOwn(b)
           /\ row'.claim = Own(b) /\ row.claim # Own(b) /\ build[b].started # {} => op[b].pc = "expose"
<1>1. CASE ClaimWrite(b) \/ Sync(b) \/ Expose(b)
  BY <1>1, RowSteps
<1>2. ASSUME ~(ClaimWrite(b) \/ Sync(b) \/ Expose(b))
      PROVE  Aggregated(b)' /\ RowIsOwn(b) /\ row' = row
  <2>1. Aggregated(b)' /\ RowIsOwn(b)
    BY <1>2, QuietSteps, ReadSteps, CallWrites, VerdictWrites, RunWrites DEF Step
  <2>2. row' = row
    BY <1>2 DEF Step, QueueBuild, Recheck, Deliver, Recover, TearDown, Lapse, SyncRaises, Execute,
                DeploymentFails, ClaimRead, Begin, Reserve, Unusable, Interrupted, Passed, Probe,
                Debug, Retry, SaveVerdict, FailBuild, Succeed, Report, ReportStatus, Publish
  <2> QED
    BY <2>1, <2>2
<1> QED
  BY <1>1, <1>2

AggregateInv == \A b \in Build : Aggregated(b)

LEMMA AggregateStep ==
    ASSUME IInv, AggregateInv, [Next]_vars
    PROVE  AggregateInv' /\ (NoReclaim \/ UNCHANGED vars)
<1>1. CASE ForceCheck
  <2> DEFINE g == row.claim.generation + 1
  <2>1. UNCHANGED <<build, op, calls>> /\ row' = [claim |-> Unclaimed(g), verdict |-> "open"]
    BY <1>1 DEF ForceCheck
  <2>2. \A b \in Build : row'.claim.build # b
    BY <2>1, NoBuildAssumption DEF Unclaimed
  <2>3. AggregateInv'
    BY <2>1, <2>2 DEF AggregateInv, Aggregated, RowPart, Fresh, Stage, Seen, Own
  <2>4. NoReclaim
    BY <2>2 DEF NoReclaim, Own
  <2> QED
    BY <2>3, <2>4
<1>2. ASSUME NEW b \in Build,
             \/ QueueBuild(b) \/ Recheck(b) \/ Deliver(b) \/ Recover(b) \/ TearDown(b)
             \/ Step(b) \/ Lapse(b) \/ SyncRaises(b)
      PROVE  AggregateInv' /\ NoReclaim
  <2>1. /\ Aggregated(b)' /\ RowIsOwn(b)
        /\ row'.claim = Own(b) /\ row.claim # Own(b) /\ build[b].started # {} => op[b].pc = "expose"
    BY <1>2, BuildSteps DEF AggregateInv
  <2>2. Alone(b)
    BY <1>2, OpenStep, ClaimStep, CallStep, VerdictStep, FaultStep DEF Step
  <2>3. AggregateInv'
    BY <2>1, <2>2, OthersAggregated DEF AggregateInv, IInv
  <2>4. \A c \in Build \ {b} : row'.claim = Own(c) => row.claim = Own(c)
    BY <2>1 DEF RowIsOwn, Own
  <2> QED
    BY <2>1, <2>3, <2>4 DEF NoReclaim
<1>3. CASE UNCHANGED vars
  BY <1>3 DEF vars, AggregateInv, Aggregated, RowPart, Fresh, Stage, Seen, Own
<1> QED
  BY <1>1, <1>2, <1>3 DEF Next

LEMMA AggregateInvariance == Spec => []AggregateInv
<1>1. Init => AggregateInv
  <2> SUFFICES ASSUME Init, NEW b \in Build PROVE Aggregated(b)
    BY DEF AggregateInv
  <2>1. /\ op[b].pc = "idle" /\ row.claim.build # b
        /\ build[b].started = {} /\ ~build[b].teardown
    BY NoBuildAssumption DEF Init, Idle, Unclaimed
  <2> QED
    BY <2>1 DEF Aggregated, RowPart, Fresh, Stage, Seen, Calling, Call
<1>2. IInv /\ AggregateInv /\ [Next]_vars => AggregateInv'
  BY AggregateStep
<1> QED
  BY <1>1, <1>2, Invariance, PTL DEF Spec

\* The row says of the run it names what that run has found.
LEMMA AggregateIsHonest == AggregateInv => AggregateHonest
<1> SUFFICES ASSUME AggregateInv, NEW b \in Build, row.claim.build = b
             PROVE  /\ row.claim.generation = build[b].generation
                    /\ row.claim = Own(b) /\ row.verdict = "succeeded" => calls[b].passed
                    /\ row.claim = Own(b) /\ row.verdict = "failed" => build[b].dynamic = "failed"
  BY DEF AggregateHonest
<1>1. RowPart(b)
  BY DEF AggregateInv, Aggregated
<1>2. row.claim = Own(b) => row.claim.run = build[b].run
  BY DEF Own
<1> QED
  BY <1>1, <1>2 DEF RowPart

-----------------------------------------------------------------------------
\* Rows, operations and calls keep their types.
THEOREM TypeCorrect == Spec => []TypeOK
  BY Invariance, TypedTypeOK, PTL DEF IInv

\* "A crashed worker must never repeat an uncertain Debug Agent call or consume
\* a second retry": whatever is lost and delivered again (dynamic_checks.execute).
THEOREM CallsAtMostOnce == Spec => []AtMostOnce
<1>1. IInv => AtMostOnce
  BY DEF IInv, AtMostOnce, Local, Reserved
<1> QED
  BY <1>1, Invariance, PTL

\* A build is delivered only after a probe of its current run has passed.
THEOREM DeliveriesEarned == Spec => []DeliveryEarned
<1>1. IInv => DeliveryEarned
  BY DEF IInv, DeliveryEarned, Local, Earned
<1> QED
  BY <1>1, Invariance, PTL
\* The shared row names no run of an older static check than its own, and says
\* of the run it names only what that run has found; and a delayed delivery, whose
\* run has begun its calls, takes the row from nobody except to report that the
\* deployment failed (_claim_result, _sync_result, _publish of WorkerRuntime._fail).
THEOREM AggregateKept == Spec => AggregateSafe
<1>1. IInv /\ AggregateInv /\ [Next]_vars => [NoReclaim]_vars
  BY AggregateStep
<1>2. AggregateInv => AggregateHonest
  BY AggregateIsHonest
<1> QED
  BY <1>1, <1>2, Invariance, AggregateInvariance, PTL DEF Spec, AggregateSafe
=============================================================================
