------------------------- MODULE RouteCheck_proofs -------------------------
(***************************************************************************)
(* A static check gives one verdict per generation, whoever is late, dies  *)
(* or is delivered again; builds pass their gate only with a verdict that  *)
(* stood; as long as nothing stalls or dies, one agent works at a time; and*)
(* the checks of a key implement CheckVerdict.                             *)
(***************************************************************************)
EXTENDS Checks, DynamicCheck_proofs

\* The generation is over: it was superseded, or its row deleted.
Past(key) ==
    \/ key.id < incarnation
    \/ key.id = incarnation /\ (~present \/ key.generation < check.generation)

\* A verdict was given of a generation that is over, or is the one the row shows.
VerdictsPlaced ==
    \A v \in verdicts : Past(v.key) \/ (Is(v.key) /\ check.static_check_passed = v.passed)

OneVerdict == \A u, v \in verdicts : u.key = v.key => u = v

\* What the row shows was given, and what a build's gate has accepted.
DecidedIsGiven ==
    present /\ ~Pending => [key |-> CurrentKey, passed |-> check.static_check_passed] \in verdicts
AcceptedIsGiven ==
    gated.pc \in {"verified", "triggered"} => [key |-> gated.key, passed |-> TRUE] \in verdicts

\* A worker claims what it has found undecided, and saves an answer.
RunsLoaded ==
    \A w \in Worker :
        /\ run[w].pc = "claim" => run[w].row.static_check_passed = NoVerdict
        /\ run[w].pc = "save" => run[w].passed \in BOOLEAN

RowExists == present => incarnation \in 1..MaxIncarnations

StaticInv ==
    StaticTypeOK /\ VerdictsPlaced /\ OneVerdict /\ DecidedIsGiven /\ AcceptedIsGiven /\ RunsLoaded /\ RowExists

-----------------------------------------------------------------------------
LEMMA QueuedIsRow ==
    ASSUME VerdictAssumption, WorkerAssumption, RowBoundsAssumption, NEW g \in 1..MaxGenerations
    PROVE  Queued(g) \in Row
  BY DEF VerdictAssumption, WorkerAssumption, RowBoundsAssumption, Queued, Row

LEMMA CurrentIsKey == ASSUME StaticTypeOK, RowExists, present PROVE CurrentKey \in Key
  BY DEF StaticTypeOK, RowExists, CurrentKey, Key, Row

-----------------------------------------------------------------------------
\* A step that leaves the row and the verdicts alone
RowKept == UNCHANGED <<present, incarnation, check, verdicts>>

LEMMA RowKeptInv ==
    ASSUME StaticInv, RowKept
    PROVE  VerdictsPlaced' /\ OneVerdict' /\ DecidedIsGiven' /\ RowExists'
  BY DEF StaticInv, RowKept, VerdictsPlaced, OneVerdict, DecidedIsGiven, RowExists, Past, Is, CurrentKey,
     Pending

LEMMA RequestInv ==
    ASSUME VerdictAssumption, WorkerAssumption, RowBoundsAssumption, StaticInv, RequestStep
    PROVE  StaticInv'
<1> USE DEF workerVars, historyVars, rowVars
<1> SUFFICES ASSUME NEW r \in Requester,
        Create(r) \/ Reuse(r) \/ ForceStatic(r) \/ ForceRefused(r) \/ Dispatch(r) \/ DispatchFails(r)
    PROVE StaticInv'
  BY DEF RequestStep
<1>1. CASE Create(r)
  <2>1. StaticTypeOK'
    BY <1>1, QueuedIsRow DEF StaticInv, StaticTypeOK, Create, Pending, Queued, Key, CurrentKey,
       RowBoundsAssumption, Row
  <2>2. VerdictsPlaced'
    <3> SUFFICES ASSUME NEW v \in verdicts PROVE Past(v.key)'
      BY <1>1 DEF VerdictsPlaced, Create
    <3>1. v.key.id \in Nat /\ incarnation \in Nat
      BY DEF StaticInv, StaticTypeOK, Key
    <3>2. ~present /\ present' /\ incarnation' = incarnation + 1
      BY <1>1 DEF Create
    <3>3. v.key.id < incarnation \/ v.key.id = incarnation
      BY <3>2 DEF StaticInv, VerdictsPlaced, Past, Is
    <3> QED BY <3>1, <3>2, <3>3 DEF Past
  <2>3. DecidedIsGiven' /\ RowExists'
    BY <1>1, <2>1 DEF StaticInv, StaticTypeOK, Create, DecidedIsGiven, RowExists, Pending, Queued
  <2>4. OneVerdict' /\ AcceptedIsGiven' /\ RunsLoaded'
    BY <1>1 DEF StaticInv, Create, OneVerdict, AcceptedIsGiven, RunsLoaded
  <2> QED BY <2>1, <2>2, <2>3, <2>4 DEF StaticInv
<1>2. CASE ForceStatic(r)
  <2>1. check' \in Row /\ check' = Queued(check.generation + 1)
    BY <1>2, QueuedIsRow DEF StaticInv, StaticTypeOK, ForceStatic, Row, RowBoundsAssumption
  <2>2. request' \in [Requester -> [pc : {"idle", "force", "dispatch"}, key : Key]]
    <3>1. [CurrentKey EXCEPT !.generation = @ + 1] \in Key
      BY <1>2, CurrentIsKey DEF StaticInv, ForceStatic, Is, StaticTypeOK, Key, CurrentKey,
         RowBoundsAssumption, Row
    <3> QED BY <1>2, <3>1 DEF StaticInv, StaticTypeOK, ForceStatic
  <2>3. StaticTypeOK'
    BY <1>2, <2>1, <2>2 DEF StaticInv, StaticTypeOK, ForceStatic, Pending, Queued, CurrentKey
  <2>4. VerdictsPlaced'
    <3> SUFFICES ASSUME NEW v \in verdicts PROVE Past(v.key)'
      BY <1>2 DEF VerdictsPlaced, ForceStatic
    <3> QED BY <1>2, <2>1 DEF StaticInv, StaticTypeOK, ForceStatic, VerdictsPlaced, Past, Is, CurrentKey, Queued, Row, Key
  <2>5. OneVerdict' /\ DecidedIsGiven' /\ RowExists' /\ AcceptedIsGiven' /\ RunsLoaded'
    BY <1>2, <2>1, <2>3 DEF StaticInv, OneVerdict, StaticTypeOK, ForceStatic, DecidedIsGiven, RowExists,
       Pending, Queued, AcceptedIsGiven, RunsLoaded
  <2> QED BY <2>3, <2>4, <2>5 DEF StaticInv
<1>3. CASE Reuse(r) \/ ForceRefused(r) \/ Dispatch(r) \/ DispatchFails(r)
  <2>1. RowKept /\ AcceptedIsGiven' /\ RunsLoaded'
    BY <1>3 DEF StaticInv, RowKept, Reuse, ForceRefused, Dispatch, DispatchFails, AcceptedIsGiven, RunsLoaded
  <2>2. Ready \in [pc : {"idle", "force", "dispatch"}, key : Key]
    BY DEF Ready, NoKey, Key, RowBoundsAssumption
  <2>3. present => CurrentKey \in Key
    BY CurrentIsKey DEF StaticInv
  <2>4. request' \in [Requester -> [pc : {"idle", "force", "dispatch"}, key : Key]]
    BY <1>3, <2>2, <2>3 DEF StaticInv, StaticTypeOK, Reuse, ForceRefused, Dispatch, DispatchFails
  <2>5. tasks' \subseteq Key /\ staticFaults' \in 0..MaxStaticFaults
    BY <1>3 DEF StaticInv, StaticTypeOK, Reuse, ForceRefused, Dispatch, DispatchFails, StaticFault,
       RowBoundsAssumption
  <2>6. StaticTypeOK'
    BY <1>3, <2>1, <2>4, <2>5 DEF StaticInv, StaticTypeOK, RowKept, Reuse, ForceRefused, Dispatch,
       DispatchFails, Pending, CurrentKey
  <2> QED BY <2>1, <2>6, RowKeptInv DEF StaticInv
<1> QED BY <1>1, <1>2, <1>3

-----------------------------------------------------------------------------
RunTyped(r) == r \in [pc : {"idle", "claim", "checkout", "agent", "save"},
                      key : Key, row : Row, lost : BOOLEAN, passed : BOOLEAN \cup {NoVerdict}]

LEMMA IdleIsRun ==
    ASSUME VerdictAssumption, WorkerAssumption, RowBoundsAssumption
    PROVE  RunTyped(NoRun)
<1>1. NoKey \in Key
  BY DEF NoKey, Key, RowBoundsAssumption
<1>2. Queued(1) \in Row
  BY QueuedIsRow DEF RowBoundsAssumption
<1> QED BY <1>1, <1>2 DEF NoRun, RunTyped

LEMMA DeleteInv ==
    ASSUME VerdictAssumption, WorkerAssumption, RowBoundsAssumption, StaticInv, delete_latest
    PROVE  StaticInv'
<1> USE DEF workerVars, historyVars
<1>1. Queued(1) \in Row
  BY QueuedIsRow DEF RowBoundsAssumption
<1>2. StaticTypeOK'
  BY <1>1 DEF StaticInv, StaticTypeOK, delete_latest, Pending, Queued, CurrentKey
<1>3. VerdictsPlaced'
  <2> SUFFICES ASSUME NEW v \in verdicts PROVE Past(v.key)'
    BY DEF VerdictsPlaced, delete_latest
  <2> QED BY DEF StaticInv, StaticTypeOK, delete_latest, VerdictsPlaced, Past, Is, CurrentKey
<1>4. OneVerdict' /\ DecidedIsGiven' /\ RowExists' /\ AcceptedIsGiven' /\ RunsLoaded'
  BY DEF StaticInv, delete_latest, OneVerdict, DecidedIsGiven, RowExists, AcceptedIsGiven, RunsLoaded
<1> QED BY <1>2, <1>3, <1>4 DEF StaticInv

\* A step of a worker that changes no row: only its position
LEMMA PositionInv ==
    ASSUME VerdictAssumption, WorkerAssumption, RowBoundsAssumption, StaticInv, RowKept,
           NEW w \in Worker, NEW r, RunTyped(r),
           run' = [run EXCEPT ![w] = r],
           r.pc = "claim" => r.row.static_check_passed = NoVerdict,
           r.pc = "save" => r.passed \in BOOLEAN,
           tasks' \subseteq Key, staticFaults' \in 0..MaxStaticFaults,
           UNCHANGED <<request, gated, started>>
    PROVE  StaticInv'
<1>1. StaticTypeOK'
  BY DEF StaticInv, StaticTypeOK, RowKept, RunTyped, Pending, CurrentKey
<1>2. RunsLoaded' /\ AcceptedIsGiven'
  BY DEF StaticInv, StaticTypeOK, RowKept, RunsLoaded, AcceptedIsGiven
<1> QED BY <1>1, <1>2, RowKeptInv DEF StaticInv

LEMMA WorkerInv ==
    ASSUME VerdictAssumption, WorkerAssumption, RowBoundsAssumption, StaticInv,
           NEW w \in Worker, WorkerStep(w)
    PROVE  StaticInv'
<1> USE DEF workerVars, historyVars, rowVars
<1>0. run[w] \in [pc : {"idle", "claim", "checkout", "agent", "save"},
                  key : Key, row : Row, lost : BOOLEAN, passed : BOOLEAN \cup {NoVerdict}]
  BY DEF StaticInv, StaticTypeOK
<1>1. CASE ClaimStatic(w)
  <2>1. present /\ run[w].key = CurrentKey /\ CurrentKey \in Key /\ Pending
    BY <1>1, <1>0, CurrentIsKey DEF ClaimStatic, Claims, Is, StaticInv, RunsLoaded, StaticTypeOK
  <2>2. /\ check' \in Row /\ check'.generation = check.generation
        /\ check'.static_check_passed = NoVerdict /\ check'.static_status = "running"
    BY <1>1, <2>1 DEF StaticInv, StaticTypeOK, ClaimStatic, Row
  <2>3. run' \in [Worker -> [pc : {"idle", "claim", "checkout", "agent", "save"},
                  key : Key, row : Row, lost : BOOLEAN, passed : BOOLEAN \cup {NoVerdict}]]
    <3>1. Queued(1) \in Row
      BY QueuedIsRow DEF RowBoundsAssumption
    <3>2. run' = [run EXCEPT ![w] = [run[w] EXCEPT !.pc = "checkout", !.row = Queued(1)]]
      BY <1>1 DEF StaticInv, StaticTypeOK, ClaimStatic
    <3> QED BY <1>0, <3>1, <3>2 DEF StaticInv, StaticTypeOK
  <2>4. StaticTypeOK'
    BY <1>1, <2>1, <2>2, <2>3 DEF StaticInv, StaticTypeOK, ClaimStatic, Pending, CurrentKey
  <2>5. VerdictsPlaced' /\ DecidedIsGiven' /\ RowExists'
    BY <1>1, <2>1, <2>2 DEF StaticInv, ClaimStatic, VerdictsPlaced, DecidedIsGiven, RowExists, Past, Is,
       CurrentKey, Pending, StaticTypeOK
  <2>6. OneVerdict' /\ AcceptedIsGiven' /\ RunsLoaded'
    BY <1>1 DEF StaticInv, StaticTypeOK, ClaimStatic, OneVerdict, AcceptedIsGiven, RunsLoaded
  <2> QED BY <2>4, <2>5, <2>6 DEF StaticInv
<1>2. CASE SaveStaticVerdict(w)
  <2>1. /\ present /\ run[w].key = CurrentKey /\ CurrentKey \in Key /\ run[w].passed \in BOOLEAN
        /\ check.static_check_passed = NoVerdict
    BY <1>2, <1>0, CurrentIsKey DEF SaveStaticVerdict, Saves, Is, StaticInv, RunsLoaded, StaticTypeOK, Pending
  <2>2. /\ check' \in Row /\ check'.generation = check.generation
        /\ check'.static_check_passed = run[w].passed
        /\ check'.static_status \in {"succeeded", "failed"}
    BY <1>2, <2>1 DEF StaticInv, StaticTypeOK, SaveStaticVerdict, Row
  <2>3. run' \in [Worker -> [pc : {"idle", "claim", "checkout", "agent", "save"},
                  key : Key, row : Row, lost : BOOLEAN, passed : BOOLEAN \cup {NoVerdict}]]
    BY <1>2, IdleIsRun DEF StaticInv, StaticTypeOK, SaveStaticVerdict, Leave, RunTyped
  <2>4. verdicts' \subseteq [key : Key, passed : BOOLEAN]
    BY <1>2, <2>1 DEF StaticInv, StaticTypeOK, SaveStaticVerdict
  <2>5. StaticTypeOK'
    BY <1>2, <2>1, <2>2, <2>3, <2>4 DEF StaticInv, StaticTypeOK, SaveStaticVerdict, Pending, CurrentKey,
       VerdictAssumption
  <2>6. VerdictsPlaced'
    <3> SUFFICES ASSUME NEW v \in verdicts' PROVE (Past(v.key) \/ (Is(v.key) /\ check.static_check_passed = v.passed))'
      BY DEF VerdictsPlaced
    <3>1. CASE v \in verdicts
      <4>1. v.passed # check.static_check_passed
        BY <3>1, <2>1 DEF StaticInv, StaticTypeOK, VerdictAssumption
      <4>2. Past(v.key)
        BY <3>1, <4>1 DEF StaticInv, VerdictsPlaced
      <4> QED BY <1>2, <4>2, <2>2 DEF Past, SaveStaticVerdict
    <3>2. CASE v = [key |-> CurrentKey, passed |-> run[w].passed]
      BY <1>2, <2>1, <2>2, <3>2 DEF Is, SaveStaticVerdict, CurrentKey
    <3> QED BY <1>2, <3>1, <3>2 DEF SaveStaticVerdict
  <2>7. DecidedIsGiven' /\ RowExists'
    BY <1>2, <2>2 DEF StaticInv, SaveStaticVerdict, DecidedIsGiven, RowExists, CurrentKey
  <2>8. AcceptedIsGiven' /\ RunsLoaded'
    BY <1>2 DEF StaticInv, StaticTypeOK, SaveStaticVerdict, AcceptedIsGiven, RunsLoaded, Leave, NoRun
  <2>9. OneVerdict'
    <3>1. \A v \in verdicts : v.key # CurrentKey
      BY <2>1 DEF StaticInv, VerdictsPlaced, Past, CurrentKey, StaticTypeOK, VerdictAssumption, Row
    <3> QED BY <1>2, <3>1 DEF SaveStaticVerdict, StaticInv, OneVerdict
  <2> QED BY <2>5, <2>6, <2>7, <2>8, <2>9 DEF StaticInv
<1>3. CASE ClaimStaticRefused(w) \/ Superseded(w) \/ SaveRefused(w)
  <2>1. RowKept /\ run' = [run EXCEPT ![w] = NoRun] /\ UNCHANGED <<tasks, request, gated, started, staticFaults>>
    BY <1>3 DEF RowKept, ClaimStaticRefused, Superseded, SaveRefused, Leave
  <2>2. tasks' \subseteq Key /\ staticFaults' \in 0..MaxStaticFaults
    BY <2>1 DEF StaticInv, StaticTypeOK
  <2>3. NoRun.pc = "idle"
    BY DEF NoRun
  <2> QED BY <2>1, <2>2, <2>3, IdleIsRun, PositionInv
<1>4. ASSUME NEW passed \in BOOLEAN \cup {NoVerdict}, NEW pc \in {"agent", "save"},
             RowKept, UNCHANGED <<tasks, request, gated, started, staticFaults>>,
             run' = [run EXCEPT ![w].pc = pc, ![w].passed = passed], pc = "save" => passed \in BOOLEAN
      PROVE  StaticInv'
  <2> DEFINE r == [run[w] EXCEPT !.pc = pc, !.passed = passed]
  <2>1. RunTyped(r) /\ r.pc = pc /\ r.passed = passed
    BY <1>0 DEF RunTyped
  <2>2. run' = [run EXCEPT ![w] = r]
    BY <1>4, <1>0 DEF StaticInv, StaticTypeOK
  <2>3. tasks' \subseteq Key /\ staticFaults' \in 0..MaxStaticFaults
    BY <1>4 DEF StaticInv, StaticTypeOK
  <2> HIDE DEF r
  <2> QED BY <1>4, <2>1, <2>2, <2>3, PositionInv
<1>5. CASE StartAgent(w)
  <2>1. run' = [run EXCEPT ![w].pc = "agent", ![w].passed = run[w].passed]
    BY <1>5, <1>0 DEF StartAgent, StaticInv, StaticTypeOK
  <2> QED BY <1>5, <1>0, <2>1, <1>4 DEF StartAgent, RowKept
<1>6. CASE EndAgent(w) \/ RunFails(w)
  <2>1. PICK passed \in BOOLEAN : run' = [run EXCEPT ![w].pc = "save", ![w].passed = passed]
    BY <1>6 DEF EndAgent, RunFails
  <2> QED BY <1>6, <2>1, <1>4 DEF EndAgent, RunFails, RowKept
<1> QED BY <1>1, <1>2, <1>3, <1>5, <1>6 DEF WorkerStep

LEMMA LeaseInv ==
    ASSUME VerdictAssumption, WorkerAssumption, RowBoundsAssumption, StaticInv, LeaseStep
    PROVE  StaticInv'
<1> USE DEF workerVars, historyVars, rowVars
<1>1. ASSUME check' \in Row, check'.generation = check.generation,
             check'.static_check_passed = check.static_check_passed,
             check'.static_status = check.static_status, staticFaults' \in 0..MaxStaticFaults,
             UNCHANGED <<present, incarnation, tasks, run, request, gated, started, verdicts>>
      PROVE  StaticInv'
  <2>1. StaticTypeOK'
    BY <1>1 DEF StaticInv, StaticTypeOK, Pending, CurrentKey
  <2>2. VerdictsPlaced' /\ DecidedIsGiven' /\ RowExists'
    BY <1>1 DEF StaticInv, VerdictsPlaced, DecidedIsGiven, RowExists, Past, Is, CurrentKey, Pending
  <2>3. OneVerdict' /\ AcceptedIsGiven' /\ RunsLoaded'
    BY <1>1 DEF StaticInv, OneVerdict, AcceptedIsGiven, RunsLoaded
  <2> QED BY <2>1, <2>2, <2>3 DEF StaticInv
<1>2. CASE Expire
  <2>1. staticFaults' \in 0..MaxStaticFaults
    BY <1>2 DEF Expire, StaticFault, StaticInv, StaticTypeOK, RowBoundsAssumption
  <2> QED BY <1>2, <2>1, <1>1 DEF Expire, StaticInv, StaticTypeOK, Row
<1>3. ASSUME NEW w \in Worker, Renew(w) \/ RenewFails(w) \/ Crash(w)
      PROVE  StaticInv'
  <2>0. run[w] \in [pc : {"idle", "claim", "checkout", "agent", "save"},
                    key : Key, row : Row, lost : BOOLEAN, passed : BOOLEAN \cup {NoVerdict}]
    BY DEF StaticInv, StaticTypeOK
  <2>1. CASE Renew(w) /\ Saves(w)
    BY <2>1, <1>1 DEF Renew, StaticInv, StaticTypeOK, Row
  <2>2. CASE (Renew(w) /\ ~Saves(w)) \/ RenewFails(w)
    <3> DEFINE r == [run[w] EXCEPT !.lost = TRUE]
    <3>1. RunTyped(r) /\ r.pc = run[w].pc /\ r.row = run[w].row /\ r.passed = run[w].passed
      BY <2>0 DEF RunTyped
    <3>2. RowKept /\ run' = [run EXCEPT ![w] = r] /\ UNCHANGED <<tasks, request, gated, started>>
      BY <2>2 DEF Renew, RenewFails, RowKept
    <3>3. tasks' \subseteq Key /\ staticFaults' \in 0..MaxStaticFaults
      BY <2>2 DEF Renew, RenewFails, StaticFault, StaticInv, StaticTypeOK, RowBoundsAssumption
    <3>4. /\ run[w].pc = "claim" => run[w].row.static_check_passed = NoVerdict
          /\ run[w].pc = "save" => run[w].passed \in BOOLEAN
      BY DEF StaticInv, RunsLoaded
    <3> HIDE DEF r
    <3> QED BY <3>1, <3>2, <3>3, <3>4, PositionInv
  <2>3. CASE Crash(w)
    <3>1. RowKept /\ run' = [run EXCEPT ![w] = NoRun] /\ UNCHANGED <<request, gated, started>>
      BY <2>3 DEF Crash, Leave, RowKept
    <3>2. tasks' \subseteq Key /\ staticFaults' \in 0..MaxStaticFaults
      BY <2>0, <2>3 DEF Crash, StaticFault, StaticInv, StaticTypeOK, RowBoundsAssumption
    <3>3. NoRun.pc = "idle"
      BY DEF NoRun
    <3> QED BY <3>1, <3>2, <3>3, IdleIsRun, PositionInv
  <2> QED BY <1>3, <2>1, <2>2, <2>3
<1> QED BY <1>2, <1>3 DEF LeaseStep

LEMMA MessageInv ==
    ASSUME VerdictAssumption, WorkerAssumption, RowBoundsAssumption, StaticInv, Receive \/ recover
    PROVE  StaticInv'
<1> USE DEF workerVars, historyVars, rowVars
<1>1. ASSUME NEW w \in Worker, NEW key \in tasks, execute_static(w, key)
      PROVE  StaticInv'
  <2>1. tasks' \subseteq Key /\ staticFaults' \in 0..MaxStaticFaults /\ key \in Key
    BY <1>1 DEF execute_static, StaticInv, StaticTypeOK
  <2>2. RowKept /\ UNCHANGED <<request, gated, started>>
    BY <1>1 DEF execute_static, RowKept
  <2>3. CASE Is(key) /\ Pending /\ ~Busy
    <3> DEFINE r == [NoRun EXCEPT !.pc = "claim", !.key = key, !.row = check]
    <3>1. RunTyped(r) /\ r.pc = "claim" /\ r.row = check
      BY <2>1, IdleIsRun DEF RunTyped, NoRun, StaticInv, StaticTypeOK
    <3>2. run' = [run EXCEPT ![w] = r]
      BY <1>1, <2>3 DEF execute_static
    <3>3. check.static_check_passed = NoVerdict
      BY <2>3 DEF StaticInv, StaticTypeOK
    <3> HIDE DEF r
    <3> QED BY <2>1, <2>2, <3>1, <3>2, <3>3, PositionInv
  <2>4. CASE UNCHANGED run
    <3>1. StaticTypeOK'
      BY <2>1, <2>2, <2>4 DEF StaticInv, StaticTypeOK, RowKept, Pending, CurrentKey
    <3>2. RunsLoaded' /\ AcceptedIsGiven'
      BY <2>2, <2>4 DEF StaticInv, RowKept, RunsLoaded, AcceptedIsGiven
    <3> QED BY <2>2, <3>1, <3>2, RowKeptInv DEF StaticInv
  <2> QED BY <1>1, <2>3, <2>4 DEF execute_static
<1>2. CASE recover
  <2>1. StaticTypeOK'
    BY <1>2, CurrentIsKey DEF recover, StaticInv, StaticTypeOK, Pending, CurrentKey
  <2>2. RowKept /\ RunsLoaded' /\ AcceptedIsGiven'
    BY <1>2 DEF recover, RowKept, StaticInv, RunsLoaded, AcceptedIsGiven
  <2> QED BY <2>1, <2>2, RowKeptInv DEF StaticInv
<1> QED BY <1>1, <1>2 DEF Receive

LEMMA BuildInv ==
    ASSUME VerdictAssumption, WorkerAssumption, RowBoundsAssumption, StaticInv, BuildStep
    PROVE  StaticInv'
<1> USE DEF workerVars, historyVars, rowVars
<1>1. RowKept /\ UNCHANGED <<tasks, run, request, started, staticFaults>>
  BY DEF BuildStep, require_static_pass, verify_build_gate, TriggerJenkins, RowKept
<1>2. Ready \in [pc : {"idle", "queued", "verified", "triggered"}, key : Key]
  BY DEF Ready, NoKey, Key, RowBoundsAssumption
<1>3. gated' \in [pc : {"idle", "queued", "verified", "triggered"}, key : Key]
  BY <1>2, CurrentIsKey DEF BuildStep, require_static_pass, verify_build_gate, TriggerJenkins, StaticInv,
     StaticTypeOK
<1>4. StaticTypeOK'
  BY <1>1, <1>3 DEF StaticInv, StaticTypeOK, RowKept, Pending, CurrentKey
<1>5. AcceptedIsGiven'
  <2>1. CASE require_static_pass
    BY <2>1 DEF require_static_pass, AcceptedIsGiven
  <2>2. CASE verify_build_gate
    <3>1. CASE Is(gated.key) /\ PassedStatic
      <4>1. [key |-> gated.key, passed |-> TRUE] \in verdicts
        BY <3>1 DEF Is, PassedStatic, StaticInv, DecidedIsGiven, Pending
      <4> QED BY <1>1, <2>2, <3>1, <4>1 DEF verify_build_gate, AcceptedIsGiven, RowKept, StaticInv, StaticTypeOK
    <3>2. CASE ~(Is(gated.key) /\ PassedStatic)
      BY <2>2, <3>2 DEF verify_build_gate, AcceptedIsGiven, Ready
    <3> QED BY <3>1, <3>2
  <2>3. CASE TriggerJenkins
    BY <1>1, <2>3 DEF TriggerJenkins, AcceptedIsGiven, RowKept, StaticInv, StaticTypeOK
  <2> QED BY <2>1, <2>2, <2>3 DEF BuildStep
<1>6. RunsLoaded'
  BY <1>1 DEF StaticInv, RunsLoaded
<1> QED BY <1>1, <1>4, <1>5, <1>6, RowKeptInv DEF StaticInv

LEMMA StepInv ==
    ASSUME VerdictAssumption, WorkerAssumption, RowBoundsAssumption, StaticInv, [StaticNext]_staticVars
    PROVE  StaticInv'
<1>1. CASE StaticNext
  BY <1>1, RequestInv, DeleteInv, MessageInv, WorkerInv, LeaseInv, BuildInv DEF StaticNext
<1>2. CASE UNCHANGED staticVars
  <2>1. StaticTypeOK'
    BY <1>2 DEF StaticInv, StaticTypeOK, staticVars, Pending, CurrentKey
  <2>2. RowKept /\ RunsLoaded' /\ AcceptedIsGiven'
    BY <1>2 DEF StaticInv, staticVars, RowKept, RunsLoaded, AcceptedIsGiven
  <2> QED BY <2>1, <2>2, RowKeptInv DEF StaticInv
<1> QED BY <1>1, <1>2

LEMMA InitInv ==
    ASSUME VerdictAssumption, WorkerAssumption, RowBoundsAssumption, StaticInit
    PROVE  StaticInv
<1>1. Queued(1) \in Row /\ NoKey \in Key
  BY QueuedIsRow DEF RowBoundsAssumption, NoKey, Key
<1>2. StaticTypeOK
  <2>1. run \in [Worker -> [pc : {"idle", "claim", "checkout", "agent", "save"},
                            key : Key, row : Row, lost : BOOLEAN, passed : BOOLEAN \cup {NoVerdict}]]
    BY IdleIsRun DEF StaticInit, RunTyped
  <2>2. /\ request \in [Requester -> [pc : {"idle", "force", "dispatch"}, key : Key]]
        /\ gated \in [pc : {"idle", "queued", "verified", "triggered"}, key : Key]
    BY <1>1 DEF StaticInit, Ready
  <2>3. Pending /\ check.static_check_passed = NoVerdict /\ check.static_status # "running"
    BY DEF StaticInit, Queued, Pending
  <2>4. check \in Row /\ incarnation \in 0..MaxIncarnations /\ staticFaults \in 0..MaxStaticFaults
    BY <1>1 DEF StaticInit, RowBoundsAssumption
  <2>5. present \in BOOLEAN /\ tasks \subseteq Key /\ started \subseteq Key
        /\ verdicts \subseteq [key : Key, passed : BOOLEAN]
    BY DEF StaticInit
  <2> QED BY <2>1, <2>2, <2>3, <2>4, <2>5 DEF StaticTypeOK
<1>3. VerdictsPlaced /\ OneVerdict /\ DecidedIsGiven /\ AcceptedIsGiven /\ RunsLoaded /\ RowExists
  BY DEF StaticInit, VerdictsPlaced, OneVerdict, DecidedIsGiven, AcceptedIsGiven, RunsLoaded, RowExists,
     Ready, NoRun
<1> QED BY <1>2, <1>3 DEF StaticInv

\* The invariant holds, for any number of workers and requesters, rows,
\* generations and faults.
THEOREM Invariant ==
    ASSUME VerdictAssumption, WorkerAssumption, RowBoundsAssumption PROVE StaticSpec => []StaticInv
<1>1. StaticInit => StaticInv
  BY InitInv
<1>2. StaticInv /\ [StaticNext]_staticVars => StaticInv'
  BY StepInv
<1> QED BY <1>1, <1>2, PTL DEF StaticSpec

\* Rows, messages, positions and histories keep their types, and a row shows a
\* verdict exactly when it is decided (RouteCheckResult).
THEOREM StaticTyped ==
    ASSUME VerdictAssumption, WorkerAssumption, RowBoundsAssumption PROVE StaticSpec => []StaticTypeOK
<1>1. StaticInv => StaticTypeOK
  BY DEF StaticInv
<1> QED BY <1>1, Invariant, PTL

\* The builds and the shared row of the dynamic checks, and the rows, messages and
\* runs of the static ones, keep their types.
THEOREM ChecksTyped ==
    ASSUME VerdictAssumption, WorkerAssumption, RowBoundsAssumption
    PROVE  Spec /\ StaticSpec => []ChecksTypeOK
<1>1. ChecksTypeOK <=> TypeOK /\ StaticTypeOK
  BY DEF ChecksTypeOK
<1> QED BY <1>1, TypeCorrect, StaticTyped, PTL

\* One generation never gets two answers, and Jenkins is triggered only with a
\* generation that passed (the filters of _lease and of the final write;
\* verify_build_gate).
THEOREM GateHolds ==
    ASSUME VerdictAssumption, WorkerAssumption, RowBoundsAssumption PROVE StaticSpec => []GateStands
<1>1. StaticInv => GateStands
  BY DEF StaticInv, OneVerdict, AcceptedIsGiven, GateStands
<1> QED BY <1>1, Invariant, PTL

-----------------------------------------------------------------------------
(***************************************************************************)
(* One agent at a time.  While nothing has stalled or died, the worker in a*)
(* block of the current generation holds a running lease, and nobody has   *)
(* loaded a row to claim while it ran; a block of an earlier generation    *)
(* never becomes current again.                                            *)
(***************************************************************************)
Behind(w) == run[w].pc # "idle" => Past(run[w].key) \/ Is(run[w].key)

FoundFree(w) ==
    run[w].pc = "claim" =>
        ~run[w].lost /\ ~(run[w].row.static_status = "running" /\ run[w].row.live)

HoldsLease(w) ==
    InBlock(w) /\ Is(run[w].key) =>
        check.token = w /\ check.static_status = "running" /\ check.live /\ ~run[w].lost

SoloInv ==
    \A w \in Worker : Behind(w) /\ FoundFree(w) /\ (staticFaults = 0 => HoldsLease(w))

\* The row is created anew, forced into the next generation, or deleted.
LEMMA RowMoves ==
    ASSUME StaticInv, StaticNext
    PROVE  \/ UNCHANGED <<present, incarnation>> /\ check'.generation = check.generation
           \/ ~present /\ incarnation' = incarnation + 1
           \/ present /\ UNCHANGED <<present, incarnation>> /\ check'.generation = check.generation + 1
           \/ present /\ ~present' /\ incarnation' = incarnation
<1> USE DEF workerVars, historyVars, rowVars
<1>1. ASSUME NEW r \in Requester,
        Create(r) \/ Reuse(r) \/ ForceStatic(r) \/ ForceRefused(r) \/ Dispatch(r) \/ DispatchFails(r)
      PROVE  \/ UNCHANGED <<present, incarnation>> /\ check'.generation = check.generation
             \/ ~present /\ incarnation' = incarnation + 1
             \/ present /\ UNCHANGED <<present, incarnation>> /\ check'.generation = check.generation + 1
  <2>1. CASE Create(r)
    BY <2>1 DEF Create
  <2>2. CASE ForceStatic(r)
    BY <2>2 DEF ForceStatic, Is, Queued
  <2>3. CASE Reuse(r) \/ ForceRefused(r) \/ Dispatch(r) \/ DispatchFails(r)
    BY <2>3 DEF Reuse, ForceRefused, Dispatch, DispatchFails
  <2> QED BY <1>1, <2>1, <2>2, <2>3
<1>2. CASE delete_latest
  BY <1>2 DEF delete_latest
<1>3. CASE Receive \/ recover \/ BuildStep
  BY <1>3 DEF Receive, execute_static, recover, BuildStep, require_static_pass, verify_build_gate,
     TriggerJenkins
<1>4. ASSUME NEW w \in Worker, WorkerStep(w)
      PROVE  UNCHANGED <<present, incarnation>> /\ check'.generation = check.generation
  <2>1. CASE ClaimStatic(w) \/ SaveStaticVerdict(w)
    BY <2>1 DEF ClaimStatic, SaveStaticVerdict, StaticInv, StaticTypeOK, Row
  <2>2. CASE ~(ClaimStatic(w) \/ SaveStaticVerdict(w))
    BY <1>4, <2>2 DEF WorkerStep, ClaimStaticRefused, StartAgent, EndAgent, Superseded, RunFails, SaveRefused
  <2> QED BY <2>1, <2>2
<1>5. CASE LeaseStep
  BY <1>5 DEF LeaseStep, Expire, Renew, RenewFails, Crash, StaticInv, StaticTypeOK, Row
<1> QED BY <1>1, <1>2, <1>3, <1>4, <1>5 DEF StaticNext, RequestStep

\* A generation that is over stays over, and the current one can only go by.
LEMMA KeysAge ==
    ASSUME StaticInv, StaticNext, NEW key \in Key
    PROVE  /\ Past(key) => Past(key)' /\ ~Is(key)'
           /\ Is(key) => Past(key)' \/ Is(key)'
<1>1. /\ key.id \in Nat /\ key.generation \in Nat /\ incarnation \in Nat
      /\ check.generation \in Nat
  BY DEF Key, StaticInv, StaticTypeOK, Row
<1> QED
  BY <1>1, RowMoves DEF Past, Is, CurrentKey, Key

\* A worker is done, has just loaded the current row, or goes on with its block.
LEMMA RunMoves ==
    ASSUME StaticInv, StaticNext, NEW w \in Worker
    PROVE  \/ run'[w].pc = "idle"
           \/ /\ run'[w].pc = "claim" /\ ~run'[w].lost /\ RowKept
              /\ Is(run'[w].key) /\ run'[w].row = check /\ ~Busy
           \/ /\ run[w].pc # "idle" /\ run'[w].key = run[w].key
              /\ run'[w].pc = "claim" => UNCHANGED run[w]
              /\ InBlock(w)' => InBlock(w) \/ ClaimStatic(w)
<1> USE DEF workerVars, historyVars, rowVars, InBlock
<1>0. ASSUME NEW u \in Worker PROVE RunTyped(run[u])
  BY DEF StaticInv, StaticTypeOK, RunTyped
<1>1. CASE UNCHANGED run
  BY <1>1
<1>2. ASSUME NEW u \in Worker, run' = [run EXCEPT ![u] = NoRun]
      PROVE  run'[w].pc = "idle" \/ UNCHANGED run[w]
  BY <1>2 DEF NoRun, StaticInv, StaticTypeOK
<1>3. ASSUME NEW u \in Worker, NEW key \in tasks, execute_static(u, key)
      PROVE  \/ UNCHANGED run[w]
             \/ /\ run'[w].pc = "claim" /\ ~run'[w].lost /\ RowKept
                /\ Is(run'[w].key) /\ run'[w].row = check /\ ~Busy
  <2>1. RowKept
    BY <1>3 DEF execute_static, RowKept
  <2>2. CASE Is(key) /\ Pending /\ ~Busy
    <3> DEFINE r == [NoRun EXCEPT !.pc = "claim", !.key = key, !.row = check]
    <3>1. r.pc = "claim" /\ ~r.lost /\ r.key = key /\ r.row = check
      BY DEF NoRun
    <3>2. run' = [run EXCEPT ![u] = r]
      BY <1>3, <2>2 DEF execute_static
    <3> HIDE DEF r
    <3> QED BY <2>1, <2>2, <3>1, <3>2 DEF StaticInv, StaticTypeOK
  <2>3. CASE ~(Is(key) /\ Pending /\ ~Busy)
    BY <1>3, <2>3 DEF execute_static
  <2> QED BY <2>2, <2>3
<1>4. ASSUME NEW u \in Worker, ClaimStatic(u)
      PROVE  \/ UNCHANGED run[w]
             \/ run[w].pc # "idle" /\ run'[w].key = run[w].key /\ run'[w].pc = "checkout" /\ ClaimStatic(w)
  BY <1>0, <1>4 DEF ClaimStatic, StaticInv, StaticTypeOK
<1>5. ASSUME NEW u \in Worker, StartAgent(u) \/ EndAgent(u) \/ RunFails(u)
      PROVE  \/ UNCHANGED run[w]
             \/ /\ InBlock(w) /\ run'[w].key = run[w].key /\ run'[w].pc \in {"agent", "save"}
  BY <1>0, <1>5 DEF StartAgent, EndAgent, RunFails, StaticInv, StaticTypeOK
<1>6. ASSUME NEW u \in Worker, Renew(u) \/ RenewFails(u)
      PROVE  \/ UNCHANGED run[w]
             \/ InBlock(w) /\ run'[w].key = run[w].key /\ run'[w].pc = run[w].pc
  BY <1>0, <1>6 DEF Renew, RenewFails, StaticInv, StaticTypeOK
<1>7. CASE \E u \in Worker : WorkerStep(u)
  BY <1>2, <1>4, <1>5, <1>7 DEF WorkerStep, ClaimStaticRefused, Superseded, SaveStaticVerdict, SaveRefused,
     Leave
<1>8. CASE LeaseStep
  BY <1>1, <1>2, <1>6, <1>8 DEF LeaseStep, Expire, Crash, Leave
<1>9. CASE Receive
  BY <1>3, <1>9 DEF Receive
<1>10. CASE RequestStep \/ delete_latest \/ recover \/ BuildStep
  BY <1>1, <1>10 DEF RequestStep, Create, Reuse, ForceStatic, ForceRefused, Dispatch, DispatchFails,
                     delete_latest, recover, BuildStep, require_static_pass, verify_build_gate, TriggerJenkins
<1> QED BY <1>7, <1>8, <1>9, <1>10 DEF StaticNext

\* Nobody takes, ends or lets run out the lease of a worker that holds it.
LEMMA LeaseHeld ==
    ASSUME WorkerAssumption, RowBoundsAssumption, StaticInv, StaticNext, SoloInv, staticFaults' = 0,
           NEW w \in Worker, InBlock(w), InBlock(w)', Is(run[w].key), Is(run[w].key)',
           run'[w].key = run[w].key, HoldsLease(w), staticFaults = 0
    PROVE  check'.token = w /\ check'.static_status = "running" /\ check'.live /\ ~run'[w].lost
<1> USE DEF workerVars, historyVars, rowVars
<1>0. /\ check.token = w /\ check.static_status = "running" /\ check.live /\ ~run[w].lost
      /\ check \in Row /\ RunTyped(run[w])
  BY DEF HoldsLease, StaticInv, StaticTypeOK, RunTyped
<1>1. ~StaticFault
  BY DEF StaticFault
<1>2. UNCHANGED <<present, incarnation>> /\ check'.generation = check.generation
  <2>1. check.generation + 1 # check.generation
    BY <1>0, RowBoundsAssumption DEF Row
  <2> QED BY <2>1, RowMoves DEF Is, CurrentKey, StaticInv, StaticTypeOK
<1>3. CASE UNCHANGED <<check, run>>
  BY <1>0, <1>3
<1>4. CASE RequestStep \/ delete_latest
  <2>1. UNCHANGED <<check, run>>
    BY <1>0, <1>2, <1>4 DEF RequestStep, Create, Reuse, ForceStatic, ForceRefused, Dispatch, DispatchFails,
       delete_latest, Is, Queued, Row
  <2> QED BY <1>3, <2>1
<1>5. CASE recover \/ BuildStep
  BY <1>3, <1>5 DEF recover, BuildStep, require_static_pass, verify_build_gate, TriggerJenkins
<1>6. CASE Receive
  <2>1. PICK u \in Worker, key \in tasks : execute_static(u, key)
    BY <1>6 DEF Receive
  <2>2. u # w /\ UNCHANGED check /\ UNCHANGED run[w]
    BY <2>1 DEF execute_static, InBlock, StaticInv, StaticTypeOK
  <2> QED BY <1>0, <2>2
<1>7. ASSUME NEW u \in Worker, WorkerStep(u)
      PROVE  check'.token = w /\ check'.static_status = "running" /\ check'.live /\ ~run'[w].lost
  <2>1. ~ClaimStatic(u)
    BY <1>0 DEF ClaimStatic, Claims, SoloInv, FoundFree
  <2>2. ~SaveStaticVerdict(u)
    <3> SUFFICES ASSUME SaveStaticVerdict(u) PROVE FALSE
      OBVIOUS
    <3>1. u = w
      BY <1>0 DEF SaveStaticVerdict, Saves
    <3>2. run'[w].pc = "idle"
      BY <3>1 DEF SaveStaticVerdict, Leave, NoRun, StaticInv, StaticTypeOK
    <3> QED BY <3>2 DEF InBlock
  <2>3. UNCHANGED check
    BY <1>7, <2>1, <2>2 DEF WorkerStep, ClaimStaticRefused, StartAgent, EndAgent, Superseded, RunFails,
       SaveRefused
  <2>4. CASE ClaimStaticRefused(u) \/ Superseded(u) \/ SaveRefused(u)
    <3>1. run' = [run EXCEPT ![u] = NoRun]
      BY <2>4 DEF ClaimStaticRefused, Superseded, SaveRefused, Leave
    <3>2. ~run'[w].lost
      BY <1>0, <3>1 DEF NoRun, StaticInv, StaticTypeOK
    <3> QED BY <1>0, <2>3, <3>2
  <2>5. CASE StartAgent(u) \/ EndAgent(u) \/ RunFails(u)
    <3>1. run'[w].lost = run[w].lost
      BY <2>5 DEF StartAgent, EndAgent, RunFails, StaticInv, StaticTypeOK
    <3> QED BY <1>0, <2>3, <3>1
  <2> QED BY <1>7, <2>1, <2>2, <2>4, <2>5 DEF WorkerStep
<1>8. CASE LeaseStep
  <2>1. ~Expire
    BY <1>0, <1>1 DEF Expire
  <2>2. PICK u \in Worker : Renew(u)
    BY <1>1, <1>8, <2>1 DEF LeaseStep, RenewFails, Crash
  <2>3. CASE Saves(u)
    BY <1>0, <2>2, <2>3 DEF Renew, Row
  <2>4. CASE ~Saves(u)
    <3>1. u # w
      BY <1>0, <2>4 DEF Saves
    <3>2. UNCHANGED check /\ run'[w] = run[w]
      BY <2>2, <2>4, <3>1 DEF Renew, StaticInv, StaticTypeOK
    <3> QED BY <1>0, <3>2
  <2> QED BY <2>3, <2>4
<1> QED BY <1>4, <1>5, <1>6, <1>7, <1>8 DEF StaticNext

LEMMA FaultsGrow ==
    ASSUME RowBoundsAssumption, StaticInv, StaticNext, staticFaults' = 0
    PROVE  staticFaults = 0
<1>1. UNCHANGED staticFaults \/ StaticFault
  BY DEF StaticNext, RequestStep, Create, Reuse, ForceStatic, ForceRefused, Dispatch, DispatchFails,
         delete_latest, Receive, execute_static, WorkerStep, ClaimStatic, ClaimStaticRefused, StartAgent, EndAgent,
         Superseded, RunFails, SaveStaticVerdict, SaveRefused, LeaseStep, Expire, Renew, RenewFails, Crash,
         recover, BuildStep, require_static_pass, verify_build_gate, TriggerJenkins
<1>2. staticFaults \in Nat
  BY DEF StaticInv, StaticTypeOK, RowBoundsAssumption
<1> QED BY <1>1, <1>2 DEF StaticFault

LEMMA SoloStep ==
    ASSUME WorkerAssumption, RowBoundsAssumption, StaticInv, StaticInv', SoloInv, [StaticNext]_staticVars
    PROVE  SoloInv'
<1>1. CASE UNCHANGED staticVars
  BY <1>1 DEF staticVars, SoloInv, Behind, FoundFree, HoldsLease, InBlock, Past, Is, CurrentKey
<1>2. ASSUME StaticNext, NEW w \in Worker
      PROVE  Behind(w)' /\ FoundFree(w)' /\ (staticFaults' = 0 => HoldsLease(w)')
  <2>0. PICK k \in Key : k = run[w].key
    BY DEF StaticInv, StaticTypeOK
  <2>1. CASE run'[w].pc = "idle"
    BY <2>1 DEF Behind, FoundFree, HoldsLease, InBlock
  <2>2. CASE /\ run'[w].pc = "claim" /\ ~run'[w].lost /\ RowKept
             /\ Is(run'[w].key) /\ run'[w].row = check /\ ~Busy
    BY <2>2 DEF Behind, FoundFree, HoldsLease, InBlock, RowKept, Is, CurrentKey, Busy
  <2>3. CASE /\ run[w].pc # "idle" /\ run'[w].key = run[w].key
             /\ run'[w].pc = "claim" => UNCHANGED run[w]
             /\ InBlock(w)' => InBlock(w) \/ ClaimStatic(w)
    <3>1. Past(k) \/ Is(k)
      BY <2>0, <2>3 DEF SoloInv, Behind
    <3>2. (Past(k)' \/ Is(k)') /\ (Is(k)' => Is(k))
      BY <1>2, <3>1, KeysAge
    <3>3. Behind(w)'
      BY <2>0, <2>3, <3>2 DEF Behind, Past, Is, CurrentKey
    <3>4. FoundFree(w)'
      BY <2>3 DEF FoundFree, SoloInv
    <3>5. ASSUME staticFaults' = 0, InBlock(w)', Is(k)'
          PROVE  check'.token = w /\ check'.static_status = "running" /\ check'.live /\ ~run'[w].lost
      <4>1. CASE ClaimStatic(w)
        <5>1. ~run[w].lost /\ check \in Row /\ RunTyped(run[w])
          BY <4>1 DEF ClaimStatic, SoloInv, FoundFree, StaticInv, StaticTypeOK, RunTyped
        <5>2. /\ check'.token = w /\ check'.static_status = "running" /\ check'.live
          BY <4>1, <5>1 DEF ClaimStatic, Row
        <5>3. run'[w].lost = run[w].lost
          BY <4>1, <5>1 DEF ClaimStatic, RunTyped, StaticInv, StaticTypeOK
        <5> QED BY <5>1, <5>2, <5>3
      <4>2. CASE InBlock(w)
        <5>1. staticFaults = 0
          BY <1>2, <3>5, FaultsGrow
        <5>2. Is(run[w].key) /\ Is(run[w].key)' /\ HoldsLease(w)
          BY <2>0, <2>3, <3>2, <3>5, <5>1 DEF Is, CurrentKey, SoloInv
        <5> QED BY <1>2, <2>3, <3>5, <4>2, <5>1, <5>2, LeaseHeld
      <4> QED BY <2>3, <3>5, <4>1, <4>2
    <3>6. staticFaults' = 0 => HoldsLease(w)'
      BY <2>0, <2>3, <3>5 DEF HoldsLease, Is, CurrentKey
    <3> QED BY <3>3, <3>4, <3>6
  <2> QED BY <1>2, <2>1, <2>2, <2>3, RunMoves
<1> QED BY <1>1, <1>2 DEF SoloInv

LEMMA SoloInvariance ==
    ASSUME VerdictAssumption, WorkerAssumption, RowBoundsAssumption PROVE StaticSpec => []SoloInv
<1>1. StaticInit => SoloInv
  <2>1. StaticInit => \A w \in Worker : run[w].pc = "idle"
    <3>1. NoRun.pc = "idle"
      BY DEF NoRun
    <3> QED BY <3>1 DEF StaticInit
  <2> QED BY <2>1 DEF SoloInv, Behind, FoundFree, HoldsLease, InBlock
<1>2. StaticInv /\ StaticInv' /\ SoloInv /\ [StaticNext]_staticVars => SoloInv'
  BY SoloStep
<1> QED BY <1>1, <1>2, Invariant, PTL DEF StaticSpec

\* As long as nothing stalls or dies, two workers never run the agent of one
\* generation at once (the expected values of _lease's update; the renewal thread).
THEOREM AgentRunsAlone ==
    ASSUME VerdictAssumption, WorkerAssumption, RowBoundsAssumption PROVE StaticSpec => []AgentAlone
<1>1. SoloInv => AgentAlone
  BY DEF SoloInv, HoldsLease, InBlock, AgentAlone
<1> QED BY <1>1, SoloInvariance, PTL

-----------------------------------------------------------------------------
(***************************************************************************)
(* The refinement.                                                         *)
(***************************************************************************)
Starts == {<<k.id, k.generation>> : k \in started}

LEMMA StartsGrow ==
    ASSUME NEW key, started' = started \cup {key}
    PROVE  Starts' = Starts \cup {<<key.id, key.generation>>}
  BY DEF Starts

LEMMA RequestsRefine ==
    ASSUME VerdictAssumption, WorkerAssumption, RowBoundsAssumption, StaticInv, RequestStep \/ delete_latest
    PROVE  Abstract!Next \/ UNCHANGED Abstract!verdictVars
<1> USE DEF workerVars, historyVars, rowVars
<1>1. CASE delete_latest
  BY <1>1 DEF delete_latest, Queued, Abstract!Next, Abstract!Delete
<1>2. ASSUME NEW r \in Requester, Create(r)
      PROVE  Abstract!Next
  BY <1>2 DEF Create, Queued, Abstract!Next, Abstract!Open
<1>3. ASSUME NEW r \in Requester, ForceStatic(r)
      PROVE  Abstract!Next
  BY <1>3 DEF ForceStatic, Is, Queued, Abstract!Next, Abstract!Reopen
<1>4. ASSUME NEW r \in Requester, Reuse(r) \/ ForceRefused(r) \/ Dispatch(r) \/ DispatchFails(r)
      PROVE  UNCHANGED Abstract!verdictVars
  BY <1>4 DEF Reuse, ForceRefused, Dispatch, DispatchFails, Abstract!verdictVars
<1> QED BY <1>1, <1>2, <1>3, <1>4 DEF RequestStep

LEMMA WorkersRefine ==
    ASSUME VerdictAssumption, WorkerAssumption, RowBoundsAssumption, StaticInv, NEW w \in Worker, WorkerStep(w)
    PROVE  Abstract!Next \/ UNCHANGED Abstract!verdictVars
<1> USE DEF workerVars, historyVars, rowVars
<1>1. CASE ClaimStatic(w)
  <2>1. /\ present /\ run[w].key = CurrentKey /\ check.static_check_passed = NoVerdict
        /\ check'.generation = check.generation /\ check'.static_check_passed = check.static_check_passed
        /\ started' = started \cup {CurrentKey} /\ UNCHANGED <<present, incarnation>>
    BY <1>1 DEF ClaimStatic, Claims, Is, StaticInv, RunsLoaded, StaticTypeOK, Row
  <2>2. Starts' = Starts \cup {<<incarnation, check.generation>>}
    BY <2>1, StartsGrow DEF CurrentKey
  <2> QED BY <2>1, <2>2 DEF Starts, Abstract!Next, Abstract!Start
<1>2. CASE SaveStaticVerdict(w)
  <2>1. /\ present /\ CurrentKey \in started /\ check.static_check_passed = NoVerdict
        /\ run[w].passed \in BOOLEAN
        /\ check'.generation = check.generation /\ check'.static_check_passed = run[w].passed
        /\ UNCHANGED <<present, incarnation, started>>
    BY <1>2 DEF SaveStaticVerdict, Saves, Is, StaticInv, RunsLoaded, StaticTypeOK, Pending, Row
  <2>2. <<incarnation, check.generation>> \in Starts
    BY <2>1 DEF Starts, CurrentKey
  <2> QED BY <2>1, <2>2 DEF Starts, Abstract!Next, Abstract!Decide
<1>3. CASE ClaimStaticRefused(w) \/ Superseded(w) \/ SaveRefused(w) \/ StartAgent(w) \/ EndAgent(w) \/ RunFails(w)
  BY <1>3 DEF ClaimStaticRefused, Superseded, SaveRefused, StartAgent, EndAgent, RunFails,
     Abstract!verdictVars
<1> QED BY <1>1, <1>2, <1>3 DEF WorkerStep

LEMMA OthersStutter ==
    ASSUME StaticInv, Receive \/ LeaseStep \/ recover \/ BuildStep \/ UNCHANGED staticVars
    PROVE  UNCHANGED Abstract!verdictVars
<1> USE DEF workerVars, historyVars, rowVars
<1>1. check' = check \/ check' \in {[check EXCEPT !.live = b] : b \in BOOLEAN}
  BY DEF Receive, execute_static, LeaseStep, Expire, Renew, RenewFails, Crash, recover, BuildStep,
     require_static_pass,
         verify_build_gate, TriggerJenkins, staticVars
<1>2. check'.generation = check.generation /\ check'.static_check_passed = check.static_check_passed
  BY <1>1 DEF StaticInv, StaticTypeOK, Row
<1>3. UNCHANGED <<present, incarnation, started>>
  BY DEF Receive, execute_static, LeaseStep, Expire, Renew, RenewFails, Crash, recover, BuildStep,
     require_static_pass,
         verify_build_gate, TriggerJenkins, staticVars
<1> QED BY <1>2, <1>3 DEF Abstract!verdictVars

\* Whatever is late, lost, delivered again or deleted, the checks of a key are
\* CheckVerdict: no run of an old generation, of a deleted row or of a lost lease
\* decides (the filters of _lease, execute_static and force).
THEOREM VerdictImplemented ==
    ASSUME VerdictAssumption, WorkerAssumption, RowBoundsAssumption PROVE StaticSpec => ImplementsVerdict
<1>1. StaticInit => Abstract!Init
  BY DEF StaticInit, Queued, Abstract!Init
<1>2. StaticInv /\ [StaticNext]_staticVars => [Abstract!Next]_(Abstract!verdictVars)
  BY RequestsRefine, WorkersRefine, OthersStutter DEF StaticNext
<1> QED BY <1>1, <1>2, Invariant, PTL DEF StaticSpec, ImplementsVerdict, Abstract!Spec
=============================================================================
