--------------------------- MODULE Services_proofs ---------------------------
(***************************************************************************)
(* The services around a build, one section each.                          *)
(*                                                                         *)
(* The port table: a published port is reserved by its build, and a build  *)
(* whose cleanup has succeeded has none, for any number of builds, ports,  *)
(* crashes and foreign containers.  What has to be added is what a cleanup *)
(* knows while it runs: its service is gone, and whatever is reserved      *)
(* still is listed in its manifest.                                        *)
(*                                                                         *)
(* An agent role: AgentRoles implements AgentRoleStore, a version names    *)
(* one content, and an update is given up only after as many others as it  *)
(* made attempts, for any number of writers, fields and attempts.  All of  *)
(* it rests on what the writer's copy says of the stored role: it is not   *)
(* newer, and it is the role itself if the versions agree.                 *)
(*                                                                         *)
(* The checkout of a branch, a run of the agent CLI, the configuration of  *)
(* the agent provider, the mirror of the base images, the technology       *)
(* stacks, an application record, the wait for a service, the polling of a *)
(* build and its Compose document are instances.                           *)
(*                                                                         *)
(* Induction on the rounds of _deployment_order goes by the smallest       *)
(* counterexample, whose existence is the lemma LeastNumber.               *)
(***************************************************************************)
EXTENDS Services, Endings, Sequences, FiniteSetTheorems, TLAPS

-----------------------------------------------------------------------------
(***************************************************************************)
(* The port table.                                                         *)
(***************************************************************************)
\* An operation beyond the choice of a port has a real one.
PortChosen ==
    \A b \in Build :
        op[b].pc \in {"record", "create", "release", "verify"} => op[b].port \in Port

\* From the removal of its service on, a build publishes nothing.
ServiceRemoved ==
    \A b \in Build :
        op[b].pc \in {"discover", "remove", "release", "verify", "cleaned"} => published[b] = 0

\* After the discovery a build has no reservation its manifest does not list.
AllListed ==
    \A b \in Build : op[b].pc \in {"remove", "release", "verify"} => Ports(b) \subseteq manifest[b]

Position ==
    {"idle", "choose", "record", "create", "deployed", "failed",
     "discover", "remove", "release", "verify", "error", "cleaned"}
Operation == [pc : Position, occupied : SUBSET Port, tried : SUBSET Port, port : Port \cup {0}]

Typed ==
    /\ table \in [Port -> Build \cup {Free}]
    /\ published \in [Build -> Port \cup {0}]
    /\ foreign \subseteq Port
    /\ manifest \in [Build -> SUBSET Port]
    /\ op \in [Build -> Operation]
    /\ faults \in 0..MaxFaults
    /\ taken \in 0..MaxForeign

LEMMA TypedTypeOK == Typed <=> TypeOK
  BY DEF Typed, TypeOK, Operation, Position

IInv ==
    /\ Typed
    /\ PortChosen
    /\ ServiceRemoved
    /\ AllListed
    /\ PublishedIsReserved
    /\ CleanedHoldsNothing

LEMMA IdleTyped == Idle \in Operation /\ 0 \notin Port /\ FirstPort..LastPort \subseteq Port
  BY RangeAssumption DEF Idle, Operation, Position, Port

\* Where an operation goes, without a port or with one.
LEMMA Going ==
    ASSUME Typed, NEW b \in Build, NEW label \in Position, Goto(b, label)
    PROVE  /\ op' \in [Build -> Operation]
           /\ op'[b].pc = label
           /\ \A c \in Build \ {b} : op'[c] = op[c]
<1>1. [Idle EXCEPT !.pc = label] \in Operation /\ [Idle EXCEPT !.pc = label].pc = label
  BY IdleTyped DEF Operation
<1> QED
  BY <1>1 DEF Goto, Typed

LEMMA GoingWith ==
    ASSUME Typed, NEW b \in Build, NEW label \in Position, NEW p \in Port,
           op' = [op EXCEPT ![b] = [Idle EXCEPT !.pc = label, !.port = p]]
    PROVE  /\ op' \in [Build -> Operation]
           /\ op'[b].pc = label /\ op'[b].port = p
           /\ \A c \in Build \ {b} : op'[c] = op[c]
<1>1. /\ [Idle EXCEPT !.pc = label, !.port = p] \in Operation
      /\ [Idle EXCEPT !.pc = label, !.port = p].pc = label
      /\ [Idle EXCEPT !.pc = label, !.port = p].port = p
  BY IdleTyped DEF Operation
<1> QED
  BY <1>1 DEF Typed

\* An operation that goes on with its port.
LEMMA GoingOn ==
    ASSUME Typed, NEW b \in Build, NEW label \in Position, op' = [op EXCEPT ![b].pc = label]
    PROVE  /\ op' \in [Build -> Operation]
           /\ op'[b].pc = label /\ op'[b].port = op[b].port
           /\ \A c \in Build \ {b} : op'[c] = op[c]
<1> DEFINE o == [op[b] EXCEPT !.pc = label]
<1>1. o \in Operation /\ o.pc = label /\ o.port = op[b].port
  BY DEF Typed, Operation
<1>2. op' = [op EXCEPT ![b] = o]
  OBVIOUS
<1> QED
  BY <1>1, <1>2 DEF Typed

\* What may be reserved is a port.
LEMMA CandidatesArePorts ==
    ASSUME Typed, NEW b \in Build
    PROVE  Candidates(b) \subseteq Port
  BY IdleTyped DEF Candidates

LEMMA DeployStep ==
    ASSUME IInv, NEW b \in Build,
           \/ Inspect(b) \/ NoPortAvailable(b) \/ RecordPort(b) \/ CreateService(b)
           \/ \E p \in Port : reserve_port(b, p)
    PROVE  IInv'
<1> USE DEF IInv, PortChosen, ServiceRemoved, AllListed, Ports, PublishedIsReserved,
            CleanedHoldsNothing, Position
<1>0. Typed /\ 0 \notin Port
  BY IdleTyped
<1>1. CASE Inspect(b)
  <2>1. PICK wanted \in Wanted(b) :
            op' = [op EXCEPT ![b] = [Idle EXCEPT !.pc = "choose", !.port = wanted,
                                     !.occupied = foreign \cup PublishedByOthers(b)]]
    BY <1>1 DEF Inspect
  <2>2. wanted \in Port \cup {0}
    BY RequestAssumption DEF Wanted
  <2>3. foreign \cup PublishedByOthers(b) \subseteq Port
    BY <1>0 DEF PublishedByOthers, Typed
  <2> DEFINE o == [Idle EXCEPT !.pc = "choose", !.port = wanted,
                               !.occupied = foreign \cup PublishedByOthers(b)]
  <2>4. o \in Operation /\ o.pc = "choose"
    BY <2>2, <2>3, IdleTyped DEF Operation
  <2>5. /\ op' \in [Build -> Operation] /\ op'[b].pc = "choose"
        /\ \A c \in Build \ {b} : op'[c] = op[c]
    BY <1>0, <2>1, <2>4 DEF Typed
  <2>6. UNCHANGED <<table, published, foreign, manifest, faults, taken>>
    BY <1>1 DEF Inspect
  <2>7. Typed'
    BY <1>0, <2>5, <2>6 DEF Typed
  <2>8. PortChosen' /\ ServiceRemoved' /\ AllListed'
    BY <2>5, <2>6
  <2>9. PublishedIsReserved' /\ CleanedHoldsNothing'
    BY <2>5, <2>6
  <2> QED
    BY <2>7, <2>8, <2>9
<1>2. CASE NoPortAvailable(b)
  BY <1>0, <1>2, Going DEF NoPortAvailable, Typed
<1>3. CASE RecordPort(b)
  <2>1. /\ op[b].pc = "record" /\ op[b].port \in Port /\ table[op[b].port] = b
        /\ manifest' = [manifest EXCEPT ![b] = @ \cup {op[b].port}]
        /\ op' = [op EXCEPT ![b].pc = "create"]
        /\ UNCHANGED <<table, published, foreign, faults, taken>>
    BY <1>3 DEF RecordPort
  <2>2. /\ op' \in [Build -> Operation] /\ op'[b].pc = "create" /\ op'[b].port = op[b].port
        /\ \A c \in Build \ {b} : op'[c] = op[c]
    BY <1>0, <2>1, GoingOn
  <2>3. manifest' \in [Build -> SUBSET Port]
    BY <1>0, <2>1 DEF Typed
  <2>4. Typed'
    BY <1>0, <2>1, <2>2, <2>3 DEF Typed
  <2>5. PortChosen' /\ ServiceRemoved' /\ AllListed'
    BY <1>0, <2>1, <2>2 DEF Typed
  <2>6. PublishedIsReserved' /\ CleanedHoldsNothing'
    BY <2>1, <2>2
  <2> QED
    BY <2>4, <2>5, <2>6
<1>4. CASE CreateService(b)
  <2>1. CASE Goto(b, "failed") /\ UNCHANGED <<published, table, foreign, manifest, faults, taken>>
    BY <1>0, <2>1, Going DEF Typed
  <2>2. CASE /\ op[b].pc = "create" /\ Goto(b, "deployed")
             /\ published' = [published EXCEPT ![b] = op[b].port]
             /\ UNCHANGED <<table, foreign, manifest, faults, taken>>
    <3>1. op[b].port \in Port /\ table[op[b].port] = b
      BY <2>2
    <3>2. Typed'
      BY <1>0, <2>2, <3>1, Going DEF Typed
    <3> QED
      BY <1>0, <2>2, <3>1, <3>2, Going DEF Typed
  <2> QED
    BY <1>4, <2>1, <2>2 DEF CreateService
<1>5. ASSUME NEW p \in Port, reserve_port(b, p)
      PROVE  IInv'
  <2>1. CASE /\ op[b].pc = "choose" /\ table[p] \in {Free, b} /\ table' = [table EXCEPT ![p] = b]
             /\ op' = [op EXCEPT ![b] = [Idle EXCEPT !.pc = "record", !.port = p]]
             /\ UNCHANGED <<published, foreign, manifest, faults, taken>>
    <3>1. /\ Typed' /\ op'[b].pc = "record" /\ op'[b].port = p
          /\ \A c \in Build \ {b} : op'[c] = op[c]
      BY <1>0, <2>1, GoingWith DEF Typed
    <3>2. /\ table'[p] = b
          /\ \A q \in Port \ {p} : table'[q] = table[q]
          /\ \A c \in Build \ {b} : table[p] # c
      BY <1>0, <2>1, FreeAssumption DEF Typed
    <3> QED
      BY <1>0, <2>1, <3>1, <3>2 DEF Typed
  <2>2. CASE /\ op' = [op EXCEPT ![b].tried = @ \cup {p}] /\ op[b].pc = "choose"
             /\ UNCHANGED <<table, published, foreign, manifest, faults, taken>>
    <3> DEFINE o == [op[b] EXCEPT !.tried = @ \cup {p}]
    <3>1. o \in Operation /\ o.pc = "choose"
      BY <1>0, <2>2 DEF Typed, Operation
    <3>2. op' = [op EXCEPT ![b] = o]
      BY <2>2
    <3> QED
      BY <1>0, <2>2, <3>1, <3>2 DEF Typed
  <2> QED
    BY <1>5, <2>1, <2>2 DEF reserve_port
<1> QED
  BY <1>1, <1>2, <1>3, <1>4, <1>5

LEMMA CleanupStep ==
    ASSUME IInv, NEW b \in Build,
           \/ RemoveService(b) \/ Discover(b) \/ ReleasePort(b) \/ VerifyPort(b)
           \/ CleanupDone(b) \/ \E p \in Port : RemovePort(b, p)
    PROVE  IInv'
<1> USE DEF IInv, PortChosen, ServiceRemoved, AllListed, Ports, PublishedIsReserved,
            CleanedHoldsNothing, Position
<1>0. Typed /\ 0 \notin Port
  BY IdleTyped
<1>1. CASE RemoveService(b)
  <2>1. /\ published' = [published EXCEPT ![b] = 0] /\ Goto(b, "discover")
        /\ UNCHANGED <<table, foreign, manifest, faults, taken>>
    BY <1>1 DEF RemoveService
  <2>2. Typed'
    BY <1>0, <2>1, Going DEF Typed
  <2> QED
    BY <1>0, <2>1, <2>2, Going DEF Typed
<1>2. CASE Discover(b)
  <2>1. /\ manifest' = [manifest EXCEPT ![b] = @ \cup Ports(b)] /\ Goto(b, "remove")
        /\ op[b].pc = "discover" /\ UNCHANGED <<table, published, foreign, faults, taken>>
    BY <1>2 DEF Discover
  <2>2. Typed'
    BY <1>0, <2>1, Going DEF Typed
  <2> QED
    BY <1>0, <2>1, <2>2, Going DEF Typed
<1>3. CASE ReleasePort(b)
  <2>1. /\ op[b].pc = "release" /\ op[b].port \in Port /\ published[b] = 0
        /\ table' = table \/ (table[op[b].port] = b /\ table' = [table EXCEPT ![op[b].port] = Free])
        /\ op' = [op EXCEPT ![b].pc = "verify"]
        /\ UNCHANGED <<published, foreign, manifest, faults, taken>>
    BY <1>3 DEF ReleasePort
  <2>2. Typed'
    BY <1>0, <2>1, GoingOn DEF Typed
  <2>3. /\ op'[b].pc = "verify" /\ op'[b].port = op[b].port
        /\ \A c \in Build \ {b} : op'[c] = op[c]
    BY <1>0, <2>1, GoingOn
  <2>4. \A p \in Port, c \in Build :
            /\ table'[p] = c => table[p] = c
            /\ c # b /\ table[p] = c => table'[p] = c
    BY <1>0, <2>1, FreeAssumption DEF Typed
  <2> QED
    BY <1>0, <2>1, <2>2, <2>3, <2>4 DEF Typed
<1>4. CASE VerifyPort(b)
  <2>1. CASE /\ op[b].pc = "verify" /\ table[op[b].port] = Free /\ Goto(b, "remove")
             /\ manifest' = [manifest EXCEPT ![b] = @ \ {op[b].port}]
             /\ UNCHANGED <<table, published, foreign, faults, taken>>
    <3>1. Typed'
      BY <1>0, <2>1, Going DEF Typed
    <3>2. op[b].port \notin Ports(b)
      BY <2>1, FreeAssumption
    <3> QED
      BY <1>0, <2>1, <3>1, <3>2, Going DEF Typed
  <2>2. CASE op' = [op EXCEPT ![b].pc = "error"] /\ UNCHANGED <<manifest, table, published, foreign, faults, taken>>
    <3>1. /\ op' \in [Build -> Operation] /\ op'[b].pc = "error"
          /\ \A c \in Build \ {b} : op'[c] = op[c]
      BY <1>0, <2>2, GoingOn
    <3>2. Typed'
      BY <1>0, <2>2, <3>1 DEF Typed
    <3> QED
      BY <2>2, <3>1, <3>2
  <2> QED
    BY <1>4, <2>1, <2>2 DEF VerifyPort
<1>5. CASE CleanupDone(b)
  <2>1. /\ op[b].pc = "remove" /\ manifest[b] = {} /\ Goto(b, "cleaned")
        /\ UNCHANGED <<table, published, foreign, manifest, faults, taken>>
    BY <1>5 DEF CleanupDone
  <2> QED
    BY <1>0, <2>1, Going DEF Typed
<1>6. ASSUME NEW p \in Port, RemovePort(b, p)
      PROVE  IInv'
  <2>1. /\ op[b].pc = "remove" /\ UNCHANGED <<table, published, foreign, manifest, faults, taken>>
        /\ \/ Goto(b, "error")
           \/ op' = [op EXCEPT ![b] = [Idle EXCEPT !.pc = "release", !.port = p]]
    BY <1>6 DEF RemovePort
  <2>2. CASE Goto(b, "error")
    BY <1>0, <2>1, <2>2, Going DEF Typed
  <2>3. CASE op' = [op EXCEPT ![b] = [Idle EXCEPT !.pc = "release", !.port = p]]
    <3>1. /\ op' \in [Build -> Operation] /\ op'[b].pc = "release" /\ op'[b].port = p
          /\ \A c \in Build \ {b} : op'[c] = op[c]
      BY <1>0, <2>3, GoingWith
    <3>2. Typed'
      BY <1>0, <2>1, <3>1 DEF Typed
    <3> QED
      BY <2>1, <3>1, <3>2
  <2> QED
    BY <2>1, <2>2, <2>3
<1> QED
  BY <1>1, <1>2, <1>3, <1>4, <1>5, <1>6

LEMMA WorldStep ==
    ASSUME IInv,
           \/ \E b \in Build : Crash(b)
           \/ \E p \in Port : ForeignBinds(p) \/ ForeignLeaves(p)
           \/ UNCHANGED vars
    PROVE  IInv'
<1> USE DEF IInv, PortChosen, ServiceRemoved, AllListed, Ports, PublishedIsReserved,
            CleanedHoldsNothing, Position
<1>1. ASSUME NEW b \in Build, Crash(b)
      PROVE  IInv'
  <2>1. /\ UNCHANGED <<table, published, foreign, manifest, taken>> /\ faults' = faults + 1 /\ faults < MaxFaults
        /\ Goto(b, "idle") \/ Goto(b, "failed")
    BY <1>1 DEF Crash
  <2>2. faults' \in 0..MaxFaults
    BY <2>1, BoundsAssumption DEF Typed
  <2>3. /\ op' \in [Build -> Operation] /\ op'[b].pc \in {"idle", "failed"}
        /\ \A c \in Build \ {b} : op'[c] = op[c]
    BY <2>1, Going
  <2> QED
    BY <2>1, <2>2, <2>3 DEF Typed
<1>2. ASSUME NEW p \in Port, ForeignBinds(p) \/ ForeignLeaves(p)
      PROVE  IInv'
  <2>1. UNCHANGED <<table, published, manifest, op, faults>> /\ foreign' \subseteq Port
    BY <1>2 DEF ForeignBinds, ForeignLeaves, Typed
  <2>2. taken' \in 0..MaxForeign
    BY <1>2, BoundsAssumption DEF ForeignBinds, ForeignLeaves, Typed
  <2> QED
    BY <2>1, <2>2 DEF Typed
<1>3. CASE UNCHANGED vars
  BY <1>3 DEF vars, Typed
<1> QED
  BY <1>1, <1>2, <1>3

LEMMA Invariance == Spec => []IInv
<1>1. Init => IInv
  <2> SUFFICES ASSUME Init PROVE IInv
    OBVIOUS
  <2>1. Typed
    BY BoundsAssumption, IdleTyped DEF Init, Typed
  <2> QED
    BY <2>1 DEF Init, IInv, PortChosen, ServiceRemoved, AllListed, PublishedIsReserved,
                CleanedHoldsNothing, Idle
<1>2. IInv /\ [Next]_vars => IInv'
  BY DeployStep, CleanupStep, WorldStep DEF Next
<1> QED
  BY <1>1, <1>2, PTL DEF Spec

-----------------------------------------------------------------------------
\* Only real ports are ever recorded (_allocate_ports, discover).
THEOREM TypeCorrect == Spec => []TypeOK
  BY Invariance, TypedTypeOK, PTL DEF IInv

\* A published port is reserved by its build, and a cleanup that succeeds leaves
\* no reservation (reserve_port, release_port, discover and remove of ports).
THEOREM PortsSafe == Spec => []PortSafety
  BY Invariance, PTL DEF IInv, PortSafety

-----------------------------------------------------------------------------
(***************************************************************************)
(* An agent role.                                                          *)
(***************************************************************************)
\* What a writer has read never is newer than the stored role, and with the
\* same version it is the role.
CopyStands ==
    \A w \in Writer : pc[w] = "save" =>
        /\ copy[w].version <= role.version
        /\ copy[w].version = role.version => copy[w] = role

\* A writer that goes on has attempts left.
TriesLeft == \A w \in Writer : pc[w] \in {"get", "save"} => tries[w] < MaxTries

\* Each failed attempt has seen one more version.
TriesEarned ==
    \A w \in Writer :
        /\ pc[w] = "get" /\ tries[w] > 0 => role.version >= from[w] + tries[w]
        /\ pc[w] = "save" => copy[w].version >= from[w] + tries[w]

RoleInv ==
    /\ RoleTypeOK
    /\ CopyStands
    /\ TriesLeft
    /\ TriesEarned
    /\ ConflictEarned
    /\ VersionNamesContent

\* The first document and every patch of one are roles.
LEMMA InitialRole == Store!Initial \in Role
  BY DEF Store!Initial, Role, Store!Default

LEMMA PatchedRole ==
    ASSUME NEW old \in Role, NEW w \in Writer
    PROVE  /\ Store!Patched(old, w) \in Role
           /\ Store!Patched(old, w).version = old.version + 1
  BY RoleAssumption DEF Store!Patched, Role, Store!Default

LEMMA RoleNotAbsent == Absent \notin Role
  BY RoleAssumption DEF Role, Store!Default

\* A save replaces the role by a patch of that very role.
LEMMA SavePatches ==
    ASSUME RoleTypeOK, CopyStands, NEW w \in Writer, Save(w)
    PROVE  /\ role \in Role
           /\ role' = Store!Patched(role, w)
           /\ role' \in Role
           /\ role'.version = role.version + 1
<1>1. /\ pc[w] = "save" /\ copy[w].version = role.version
      /\ role' = Store!Patched(copy[w], w)
  BY DEF Save, Current
<1>2. role \in Role /\ copy[w] = role
  BY <1>1 DEF RoleTypeOK, CopyStands
<1> QED
  BY <1>1, <1>2, PatchedRole

LEMMA TypeStep ==
    ASSUME RoleInv, [RoleNext]_roleVars
    PROVE  RoleTypeOK' /\ TriesLeft'
<1> USE RoleAssumption DEF RoleInv, RoleTypeOK, TriesLeft
<1>1. CASE Initialize
  BY <1>1, InitialRole, RoleNotAbsent DEF Initialize
<1>2. CASE Snapshot
  BY <1>2 DEF Snapshot
<1>3. ASSUME NEW w \in Writer, Submit(w)
      PROVE  RoleTypeOK' /\ TriesLeft'
  BY <1>3 DEF Submit
<1>4. ASSUME NEW w \in Writer, Get(w)
      PROVE  RoleTypeOK' /\ TriesLeft'
  <2>1. role \in Role /\ role.version \in Nat
    BY <1>4 DEF Get, Role
  <2> QED
    BY <1>4, <2>1, RoleNotAbsent DEF Get
<1>5. ASSUME NEW w \in Writer, Save(w)
      PROVE  RoleTypeOK' /\ TriesLeft'
  <2>1. role' \in Role
    BY <1>5, SavePatches
  <2> QED
    BY <1>5, <2>1, RoleNotAbsent DEF Save
<1>6. ASSUME NEW w \in Writer, Refused(w)
      PROVE  RoleTypeOK' /\ TriesLeft'
  BY <1>6 DEF Refused, Exhausted
<1>7. CASE UNCHANGED roleVars
  BY <1>7 DEF roleVars
<1> QED
  BY <1>1, <1>2, <1>3, <1>4, <1>5, <1>6, <1>7 DEF RoleNext

\* A newer version is newer by one at least.
LEMMA OneMore ==
    ASSUME NEW r \in Nat, NEW c \in Nat, NEW f \in Nat, NEW t \in Nat,
           c <= r, c # r, c >= f + t
    PROVE  r >= f + (t + 1)
  OBVIOUS

LEMMA CopyStep ==
    ASSUME RoleInv, [RoleNext]_roleVars
    PROVE  CopyStands' /\ TriesEarned' /\ ConflictEarned'
<1> USE RoleAssumption DEF RoleInv, RoleTypeOK, CopyStands, TriesLeft, TriesEarned, ConflictEarned, Role
<1>1. CASE Initialize
  BY <1>1 DEF Initialize
<1>2. CASE Snapshot
  BY <1>2 DEF Snapshot
<1>3. ASSUME NEW w \in Writer, Submit(w)
      PROVE  CopyStands' /\ TriesEarned' /\ ConflictEarned'
  BY <1>3 DEF Submit
<1>4. ASSUME NEW w \in Writer, Get(w)
      PROVE  CopyStands' /\ TriesEarned' /\ ConflictEarned'
  BY <1>4 DEF Get
<1>5. ASSUME NEW w \in Writer, Save(w)
      PROVE  CopyStands' /\ TriesEarned' /\ ConflictEarned'
  <2>1. role'.version = role.version + 1 /\ role.version \in Nat
    BY <1>5, SavePatches
  <2> QED
    BY <1>5, <2>1 DEF Save
<1>6. ASSUME NEW w \in Writer, Refused(w)
      PROVE  CopyStands' /\ TriesEarned' /\ ConflictEarned'
  <2>1. /\ role.version \in Nat /\ copy[w].version \in Nat /\ from[w] \in Nat
        /\ tries[w] \in Nat /\ tries[w] < MaxTries
        /\ copy[w].version <= role.version /\ copy[w].version # role.version
        /\ copy[w].version >= from[w] + tries[w]
    BY <1>6 DEF Refused, Current
  <2>2. role.version >= from[w] + (tries[w] + 1)
    BY <2>1, OneMore
  <2>3. Exhausted(w) => role.version >= from[w] + MaxTries
    BY <2>1, <2>2 DEF Exhausted
  <2>4. /\ role' = role /\ copy' = copy /\ from' = from
        /\ tries' = [tries EXCEPT ![w] = tries[w] + 1]
        /\ pc' = [pc EXCEPT ![w] = IF Exhausted(w) THEN "conflict" ELSE "get"]
    BY <1>6 DEF Refused
  <2>5. ASSUME NEW u \in Writer, u # w
        PROVE  pc'[u] = pc[u] /\ tries'[u] = tries[u]
    BY <2>4, <2>5
  <2>6. /\ tries'[w] = tries[w] + 1
        /\ pc'[w] = IF Exhausted(w) THEN "conflict" ELSE "get"
    BY <2>4
  <2>7. CopyStands'
    BY <2>4, <2>5, <2>6
  <2>8. TriesEarned'
    BY <2>2, <2>4, <2>5, <2>6
  <2>9. ConflictEarned'
    BY <2>3, <2>4, <2>5, <2>6
  <2> QED
    BY <2>7, <2>8, <2>9
<1>7. CASE UNCHANGED roleVars
  BY <1>7 DEF roleVars
<1> QED
  BY <1>1, <1>2, <1>3, <1>4, <1>5, <1>6, <1>7 DEF RoleNext

LEMMA VersionStep ==
    ASSUME RoleInv, [RoleNext]_roleVars
    PROVE  VersionNamesContent'
<1> USE DEF RoleInv, RoleTypeOK, VersionNamesContent, Role
<1>1. CASE Initialize
  BY <1>1 DEF Initialize
<1>2. CASE Snapshot
  BY <1>2 DEF Snapshot
<1>3. ASSUME NEW w \in Writer, Save(w)
      PROVE  VersionNamesContent'
  <2>1. /\ role'.version = role.version + 1 /\ role.version \in Nat
        /\ role' # Absent
    BY <1>3, SavePatches, RoleNotAbsent
  <2> QED
    BY <1>3, <2>1 DEF Save
<1>4. CASE UNCHANGED <<role, snapshots>>
  BY <1>4
<1> QED
  BY <1>1, <1>2, <1>3, <1>4 DEF RoleNext, roleVars, Submit, Get, Refused

LEMMA RoleInvariance == RoleSpec => []RoleInv
<1>1. RoleInit => RoleInv
  BY RoleAssumption
     DEF RoleInit, RoleInv, RoleTypeOK, CopyStands, TriesLeft, TriesEarned, ConflictEarned, VersionNamesContent
<1>2. RoleInv /\ [RoleNext]_roleVars => RoleInv'
  BY TypeStep, CopyStep, VersionStep DEF RoleInv
<1> QED
  BY <1>1, <1>2, PTL DEF RoleSpec

-----------------------------------------------------------------------------
\* Documents, copies and attempts keep their types (save_agent_role).
THEOREM RolesTyped == RoleSpec => []RoleTypeOK
  BY RoleInvariance, PTL DEF RoleInv

\* A cached check result is looked up under a version that always named the
\* same instructions, and a writer is told of a conflict only after MaxTries
\* other updates.
THEOREM RolesSafe == RoleSpec => []RoleSafety
  BY RoleInvariance, PTL DEF RoleInv, RoleSafety

\* Optimistic updates with retries, and services that start in between, store
\* whole updates one after the other: none is lost or undone.
THEOREM StoreImplemented == RoleSpec => ImplementsStore
<1>1. RoleInit => Store!Init
  BY DEF RoleInit, Store!Init
<1>2. RoleInv /\ [RoleNext]_roleVars => [Store!Next]_role
  <2> SUFFICES ASSUME RoleInv, RoleNext PROVE Store!Next \/ UNCHANGED role
    BY DEF roleVars
  <2>1. CASE Initialize
    BY <2>1 DEF Initialize, Store!Next, Store!Initialize
  <2>2. ASSUME NEW w \in Writer, Save(w)
        PROVE  Store!Next
    BY <2>2, SavePatches, RoleNotAbsent DEF RoleInv, Store!Next, Store!Update
  <2> QED
    BY <2>1, <2>2 DEF RoleNext, Snapshot, Submit, Get, Refused
<1> QED
  BY <1>1, <1>2, RoleInvariance, PTL DEF RoleSpec, ImplementsStore, Store!Spec

-----------------------------------------------------------------------------
(***************************************************************************)
(* How a branch is read (GitCheckout).  The server keeps every ancestor of *)
(* what it keeps, and so does a clone that is complete; the commit looked  *)
(* for is in the clone from the verification on.                           *)
(***************************************************************************)
ServerWhole == branch \in held /\ held \in SUBSET Revision /\ \A c \in held : History[c] \subseteq held
CloneWhole ==
    /\ local \in SUBSET Revision
    /\ ~partial => \A c \in local : History[c] \subseteq local
    /\ gitPc \in {"fetch", "checkout", "compare", "find", "read"} => ~partial
Pinned ==
    /\ ref \in Revision
    /\ gitPc \in {"checkout", "compare", "find", "read"} => ref \in local
    /\ gitPc = "compare" => tree \in local
    /\ gitPc \in {"find", "read"} => tree = ref
    /\ gitPc = "read" => path \in Git!Chosen(Root[ref], Below[ref])
GitInv ==
    /\ gitPc \in Git!Ended \cup {"resolve", "clone", "verify", "fetch", "checkout", "compare", "find"}
    /\ ServerWhole /\ CloneWhole /\ Pinned /\ Git!FailureIsEarned

LEMMA GitStart ==
    ASSUME Git!CommitAssumption, Git!Init
    PROVE  GitInv
BY DEF Git!CommitAssumption, Git!Init, GitInv, ServerWhole, CloneWhole, Pinned, Git!Ended, Git!FailureIsEarned

LEMMA GitStep ==
    ASSUME Git!CommitAssumption, GitInv, [Git!Next]_(Git!vars)
    PROVE  GitInv'
<1> USE DEF GitInv, ServerWhole, CloneWhole, Pinned, Git!Ended, Git!FailureIsEarned, Git!server, Git!Step
<1>1. ASSUME NEW c \in Revision, Git!Push(c)
      PROVE  GitInv'
  BY <1>1 DEF Git!Push
<1>2. CASE Git!Collect
  BY <1>2 DEF Git!Collect, Git!CommitAssumption
<1>3. CASE Git!Resolve
  BY <1>3 DEF Git!Resolve
<1>4. CASE Git!Unresolved \/ Git!GitFails
  BY <1>4 DEF Git!Unresolved, Git!GitFails
<1>5. ASSUME NEW cut \in BOOLEAN, Git!Clone(cut)
      PROVE  GitInv'
  <2>1. branch \in Revision /\ {branch} \in SUBSET Revision /\ History[branch] \in SUBSET Revision
    BY DEF Git!CommitAssumption
  <2>2. \A c \in History[branch] : History[c] \subseteq History[branch]
    BY <2>1 DEF Git!CommitAssumption
  <2> QED
    BY <1>5, <2>1, <2>2 DEF Git!Clone
<1>6. CASE Git!Verify
  BY <1>6 DEF Git!Verify
<1>7. ASSUME NEW cut \in BOOLEAN, Git!Fetch(cut)
      PROVE  GitInv'
  <2>1. {ref} \in SUBSET Revision /\ History[ref] \in SUBSET Revision
    BY DEF Git!CommitAssumption
  <2>2. \A c \in History[ref] : History[c] \subseteq History[ref]
    BY DEF Git!CommitAssumption
  <2> QED
    BY <1>7, <2>1, <2>2 DEF Git!Fetch
<1>8. ASSUME NEW c \in Revision, Git!Checkout(c)
      PROVE  GitInv'
  BY <1>8 DEF Git!Checkout
<1>9. CASE Git!Compare
  BY <1>9 DEF Git!Compare
<1>10. CASE Git!Find
  BY <1>10 DEF Git!Find
<1>11. CASE UNCHANGED Git!vars
  BY <1>11 DEF Git!vars
<1> QED
  BY <1>1, <1>2, <1>3, <1>4, <1>5, <1>6, <1>7, <1>8, <1>9, <1>10, <1>11 DEF Git!Next, Git!Done

LEMMA GitInvariance == ASSUME Git!CommitAssumption PROVE Git!Spec => []GitInv
  BY GitStart, GitStep, PTL DEF Git!Spec

\* The server keeps what its branch reaches, a checkout is of the clone
\* (discover_compose, _run_git).
THEOREM CheckoutTyped == ASSUME Git!CommitAssumption PROVE Git!Spec => []Git!TypeOK
<1>1. GitInv => Git!TypeOK
  BY DEF GitInv, ServerWhole, CloneWhole, Pinned, Git!TypeOK
<1> QED
  BY <1>1, GitInvariance, PTL

\* Whatever is pushed, rewritten and dropped meanwhile, a Compose file is looked
\* for in a complete checkout of the commit that was resolved, that commit gives
\* one document, and short of a fault only a commit the server has dropped is not
\* read (discover_compose, _find_compose_path).
THEOREM CheckoutPinned == ASSUME Git!CommitAssumption PROVE Git!Spec => []CheckoutSafe
<1>1. GitInv => Git!ReadsWhatWasResolved
  BY DEF GitInv, CloneWhole, Pinned, Git!ReadsWhatWasResolved
<1>2. GitInv => Git!OneDocument
  <2> SUFFICES ASSUME GitInv, gitPc = "read" PROVE Git!OneDocument
    BY DEF Git!OneDocument
  <2>1. path \in Git!Chosen(Root[ref], Below[ref])
    BY DEF GitInv, Pinned
  <2> QED
    BY <2>1 DEF Git!Chosen, Git!OneDocument
<1>3. GitInv => Git!FailureIsEarned
  BY DEF GitInv
<1>4. GitInv => CheckoutSafe
  BY <1>1, <1>2, <1>3 DEF CheckoutSafe
<1> QED
  BY <1>4, GitInvariance, PTL

-----------------------------------------------------------------------------
(***************************************************************************)
(* One run of the agent CLI (AgentRun).  From the kill on nobody is left   *)
(* of the group who could change the answer's file, so what is examined is *)
(* what is read, although the file is opened and read in separate steps.   *)
(***************************************************************************)
Answer == [kind |-> "regular", text |-> "answer"]
Waiting == {"prepare", "check", "create", "start", "communicate", "kill"}
Reading == {"judge", "open", "read", "remove"}
AgentPosition ==
    /\ agentPc \in Agent!Ended \cup Waiting \cup Reading
    /\ agentPc \in {"prepare", "check", "create"} => ~directory
    /\ agentPc \in {"start", "communicate", "kill"} \cup Reading => directory
    /\ agentPc \in {"prepare", "check", "create", "start"} \cup Reading => alive = {}
    /\ agentPc \in {"answered", "refused"} => alive = {} /\ ~directory
    /\ agentPc \in Waiting => opened = Agent!Absent /\ result = Agent!Absent
    /\ agentPc \in {"open", "read"} => code = "zero" /\ result = Agent!Absent
    /\ agentPc = "judge" => opened = Agent!Absent /\ result = Agent!Absent
    /\ agentPc = "read" => opened = file /\ file.kind = "regular"
AgentInv ==
    /\ file \in Agent!File /\ opened \in Agent!File /\ result \in Agent!File
    /\ file # Agent!Absent => directory
    /\ opened # Agent!Absent => code = "zero" /\ alive = {}
    /\ result # Agent!Absent => result = opened /\ result = Answer
    /\ AgentPosition

LEMMA AgentStart == ASSUME Agent!Init PROVE AgentInv
BY DEF Agent!Init, AgentInv, AgentPosition, Agent!File, Agent!Ended, Waiting, Reading

\* A regular file's answer is one record.
LEMMA AnswerIs ==
    ASSUME NEW f \in Agent!File, f.kind = "regular", Agent!Valid(f.text)
    PROVE  f = Answer
BY DEF Agent!File, Agent!Absent, Agent!Valid, Answer

LEMMA AgentStep ==
    ASSUME Agent!RunAssumption, AgentInv, [Agent!Next]_(Agent!vars)
    PROVE  AgentInv'
<1> USE DEF AgentInv, AgentPosition, Agent!Ended, Waiting, Reading, Agent!group, Agent!Goto
<1>1. ASSUME NEW f \in Agent!File, Agent!Write(f)
      PROVE  AgentInv'
  BY <1>1 DEF Agent!Write
<1>2. ASSUME NEW h \in Helper, Agent!Spawn(h)
      PROVE  AgentInv'
  BY <1>2 DEF Agent!Spawn
<1>3. ASSUME NEW p \in Helper \cup {"cli"}, NEW c \in {"zero", "nonzero"}, Agent!Exit(p, c)
      PROVE  AgentInv'
  BY <1>3 DEF Agent!Exit
<1>4. CASE Agent!Prepare \/ Agent!Check
  BY <1>4 DEF Agent!Prepare, Agent!Check
<1>5. CASE Agent!Create
  BY <1>5 DEF Agent!Create
<1>6. CASE Agent!Start
  BY <1>6 DEF Agent!Start
<1>7. CASE Agent!Communicate \/ Agent!Timeout
  BY <1>7 DEF Agent!Communicate, Agent!Timeout
<1>8. CASE Agent!Kill
  BY <1>8 DEF Agent!Kill
<1>9. CASE Agent!Judge
  BY <1>9 DEF Agent!Judge
<1>10. CASE Agent!Open
  BY <1>10 DEF Agent!Open
<1>11. CASE Agent!Read
  <2>1. file.kind = "regular" /\ opened = file
    BY <1>11 DEF Agent!Read
  <2>2. result' = Agent!Absent \/ (result' = file /\ file = Answer)
    BY <1>11, <2>1, AnswerIs DEF Agent!Read
  <2>3. Agent!Absent \in Agent!File
    BY DEF Agent!File
  <2> QED
    BY <1>11, <2>1, <2>2, <2>3 DEF Agent!Read
<1>12. CASE Agent!Remove
  <2>1. Agent!Absent \in Agent!File
    BY DEF Agent!File
  <2> QED
    BY <1>12, <2>1 DEF Agent!Remove
<1>13. CASE Agent!Crash
  BY <1>13 DEF Agent!Crash
<1>14. CASE UNCHANGED Agent!vars
  BY <1>14 DEF Agent!vars
<1> QED
  BY <1>1, <1>2, <1>3, <1>4, <1>5, <1>6, <1>7, <1>8, <1>9, <1>10, <1>11, <1>12, <1>13, <1>14
     DEF Agent!Next, Agent!Done

LEMMA AgentInvariance == ASSUME Agent!RunAssumption PROVE Agent!Spec => []AgentInv
  BY AgentStart, AgentStep, PTL DEF Agent!Spec

\* Nothing is read of a CLI that has failed or run out of time (run_json).
THEOREM RunTyped == ASSUME Agent!RunAssumption PROVE Agent!Spec => []Agent!TypeOK
<1>1. AgentInv => Agent!TypeOK
  BY DEF AgentInv, AgentPosition, Agent!TypeOK, Agent!Ended, Waiting, Reading
<1> QED
  BY <1>1, AgentInvariance, PTL

\* Whatever the CLI and the helpers it has left behind write, replace or remove:
\* the answer returned is the file that was examined, and once a run has ended
\* and its worker has not died, neither a process of the group nor the directory
\* is left (_read_output, _kill_process_group).
THEOREM RunContained == ASSUME Agent!RunAssumption PROVE Agent!Spec => []RunIsContained
<1>1. AgentInv => Agent!AnswerIsExamined
  BY DEF AgentInv, Answer, Agent!AnswerIsExamined
<1>2. AgentInv => Agent!NothingLeft
  BY DEF AgentInv, AgentPosition, Agent!NothingLeft
<1>3. AgentInv => RunIsContained
  BY <1>1, <1>2 DEF RunIsContained
<1> QED
  BY <1>3, AgentInvariance, PTL

-----------------------------------------------------------------------------
(***************************************************************************)
(* The provider configuration (ProviderConfig).                            *)
(***************************************************************************)
Update == [pc : {"idle", "save"}, names : SUBSET Provider!Setting, seen : Provider!Config,
           value : 0..MaxEdits, process : Process \cup {Provider!Idle.process}]

\* A stored document is a whole one, and stays one.
Configured ==
    /\ edits \in 0..MaxEdits
    /\ stored \in Provider!Config \cup {Provider!Unreadable}
    /\ up \in [Process -> {"down", "found", "up"}]
    /\ req \in [Request -> Update]
    /\ wrote \in Provider!Config /\ \A f \in Provider!Setting : wrote[f] <= edits
    /\ \A r \in Request : req[r].pc = "save" => req[r].process \in Process /\ up[req[r].process] = "up" /\ req[r].value <= edits
    /\ Provider!StartedIsConfigured

\* With one request at a time, and one process that could find its environment,
\* nobody changes the document under an update.
OneAtATime == (\A r, q \in Request : r = q) /\ (\A p, q \in HasEnvironment : p = q)
Undisturbed ==
    /\ stored = Provider!Unreadable => wrote = Provider!Environment
    /\ \A p \in Process : up[p] = "found" => p \in HasEnvironment /\ stored = Provider!Unreadable
    /\ Provider!LastWriteStands
    /\ \A r \in Request : req[r].pc = "save" => req[r].seen = stored

LEMMA WholeIsReadable ==
    ASSUME Provider!EnvironmentAssumption
    PROVE  /\ Provider!Environment \in Provider!Config /\ Provider!Unreadable \notin Provider!Config
           /\ Provider!Idle \in Update /\ Provider!Idle.pc = "idle"
<1>1. "key" \in DOMAIN Provider!Environment /\ DOMAIN Provider!Unreadable = {}
  BY DEF Provider!Environment, Provider!Unreadable, Provider!Setting
<1>2. \A c \in Provider!Config : "key" \in DOMAIN c
  BY DEF Provider!Setting, Provider!Config
<1>3. 0 \in 0..MaxEdits /\ Provider!Environment \in Provider!Config
  BY DEF Provider!Environment, Provider!Config, Provider!EnvironmentAssumption
<1>4. Provider!Idle \in Update /\ Provider!Idle.pc = "idle"
  BY <1>3 DEF Provider!Idle, Update
<1> QED
  BY <1>1, <1>2, <1>3, <1>4

\* What an update stores is a whole configuration again.
LEMMA MergeIsWhole ==
    ASSUME Provider!EnvironmentAssumption, Configured, NEW r \in Request
    PROVE  /\ Provider!Merge(r) \in Provider!Config
           /\ \A f \in Provider!Setting :
                Provider!Merge(r)[f] = IF f \in req[r].names THEN req[r].value ELSE req[r].seen[f]
BY DEF Configured, Update, Provider!Merge, Provider!Config

LEMMA ConfiguredStep ==
    ASSUME Provider!EnvironmentAssumption, Configured, [Provider!Next]_(Provider!vars)
    PROVE  Configured'
<1> USE WholeIsReadable DEF Configured, Provider!StartedIsConfigured
<1>1. ASSUME NEW p \in Process, Provider!Start(p)
      PROVE  Configured'
  BY <1>1 DEF Provider!Start
<1>2. ASSUME NEW p \in Process, Provider!SaveEnvironment(p)
      PROVE  Configured'
  BY <1>2 DEF Provider!SaveEnvironment
<1>3. ASSUME NEW p \in Process, Provider!Stop(p)
      PROVE  Configured'
  BY <1>3 DEF Provider!Stop
<1>4. ASSUME NEW r \in Request, NEW p \in Process, NEW names \in (SUBSET Provider!Setting) \ {{}},
             Provider!Read(r, p, names)
      PROVE  Configured'
  <2>1. stored # Provider!Unreadable /\ Provider!Resolved \in Provider!Config
    BY <1>4 DEF Provider!Read, Provider!Resolved
  <2>2. edits' \in 0..MaxEdits /\ edits <= edits'
    BY <1>4 DEF Provider!Read, Provider!EnvironmentAssumption
  <2>3. [pc |-> "save", names |-> names, seen |-> Provider!Resolved, value |-> edits', process |-> p] \in Update
    BY <2>1, <2>2 DEF Update
  <2>4. \A f \in Provider!Setting : wrote[f] <= edits'
    BY <2>2 DEF Provider!Config
  <2> QED
    BY <1>4, <2>2, <2>3, <2>4 DEF Provider!Read, Update
<1>5. ASSUME NEW r \in Request, Provider!Save(r)
      PROVE  Configured'
  <2>1. /\ req[r].pc = "save" /\ stored' = Provider!Merge(r) /\ req' = [req EXCEPT ![r] = Provider!Idle]
        /\ wrote' = [f \in Provider!Setting |-> IF f \in req[r].names THEN req[r].value ELSE wrote[f]]
        /\ UNCHANGED <<up, edits>>
    BY <1>5 DEF Provider!Save
  <2>2. req[r] \in Update /\ req[r].value <= edits
    BY <2>1
  <2>3. wrote' \in Provider!Config /\ \A f \in Provider!Setting : wrote'[f] <= edits
    BY <2>1, <2>2 DEF Update, Provider!Config
  <2> QED
    BY <2>1, <2>3, MergeIsWhole
<1>6. CASE UNCHANGED Provider!vars
  BY <1>6 DEF Provider!vars
<1> QED
  BY <1>1, <1>2, <1>3, <1>4, <1>5, <1>6 DEF Provider!Next

LEMMA UndisturbedStep ==
    ASSUME Provider!EnvironmentAssumption, OneAtATime, Configured, Undisturbed, [Provider!Next]_(Provider!vars)
    PROVE  Undisturbed'
<1> USE WholeIsReadable DEF Configured, Provider!StartedIsConfigured, Undisturbed, Provider!LastWriteStands, OneAtATime
<1>1. ASSUME NEW p \in Process, Provider!Start(p)
      PROVE  Undisturbed'
  BY <1>1 DEF Provider!Start, Provider!Resolvable
<1>2. ASSUME NEW p \in Process, Provider!SaveEnvironment(p)
      PROVE  Undisturbed'
  BY <1>2 DEF Provider!SaveEnvironment
<1>3. ASSUME NEW p \in Process, Provider!Stop(p)
      PROVE  Undisturbed'
  BY <1>3 DEF Provider!Stop
<1>4. ASSUME NEW r \in Request, NEW p \in Process, NEW names \in (SUBSET Provider!Setting) \ {{}},
             Provider!Read(r, p, names)
      PROVE  Undisturbed'
  BY <1>4 DEF Provider!Read, Provider!Resolved
<1>5. ASSUME NEW r \in Request, Provider!Save(r)
      PROVE  Undisturbed'
  <2>1. /\ req[r].pc = "save" /\ stored' = Provider!Merge(r) /\ req' = [req EXCEPT ![r] = Provider!Idle]
        /\ wrote' = [f \in Provider!Setting |-> IF f \in req[r].names THEN req[r].value ELSE wrote[f]]
        /\ UNCHANGED <<up, edits>>
    BY <1>5 DEF Provider!Save
  <2>2. stored # Provider!Unreadable /\ req[r].seen = wrote
    BY <2>1
  <2>3. stored' = wrote'
    BY <2>1, <2>2 DEF Provider!Merge
  <2>4. stored' # Provider!Unreadable
    BY <2>1, MergeIsWhole
  <2>5. \A q \in Request : req'[q].pc = "idle"
    BY <2>1
  <2> QED
    BY <2>1, <2>2, <2>3, <2>4, <2>5
<1>6. CASE UNCHANGED Provider!vars
  BY <1>6 DEF Provider!vars
<1> QED
  BY <1>1, <1>2, <1>3, <1>4, <1>5, <1>6 DEF Provider!Next

LEMMA ConfiguredInvariance == ASSUME Provider!EnvironmentAssumption PROVE Provider!Spec => []Configured
<1>1. Provider!Init => Configured
  <2> SUFFICES ASSUME Provider!Init PROVE Configured
    OBVIOUS
  <2>1. 0 \in 0..MaxEdits /\ \A f \in Provider!Setting : Provider!Environment[f] <= 0
    BY DEF Provider!EnvironmentAssumption, Provider!Environment
  <2> QED
    BY <2>1, WholeIsReadable DEF Provider!Init, Configured, Provider!StartedIsConfigured
<1> QED
  BY <1>1, ConfiguredStep, PTL DEF Provider!Spec

\* A document is a whole configuration or none, and requests run in processes that
\* are up (update, validate_startup).
THEOREM ProviderTyped == ASSUME Provider!EnvironmentAssumption PROVE Provider!Spec => []Provider!TypeOK
<1>1. Configured => Provider!TypeOK
  BY DEF Configured, Provider!TypeOK
<1> QED
  BY <1>1, ConfiguredInvariance, PTL

\* What one process has started with every other can read, whatever starts, stops
\* and updates interleave (validate_startup).
THEOREM StartConfigures ==
    ASSUME Provider!EnvironmentAssumption
    PROVE  Provider!Spec => []Provider!StartedIsConfigured
<1>1. Configured => Provider!StartedIsConfigured
  BY DEF Configured
<1> QED
  BY <1>1, ConfiguredInvariance, PTL

\* Of requests one at a time, and if at most one process has a configuration in its
\* environment: moreover a field is what the last update that named it has set,
\* across restarts (update, validate_startup).
THEOREM WritesStand ==
    ASSUME Provider!EnvironmentAssumption, OneAtATime
    PROVE  Provider!Spec => []ProviderSafe
<1>1. Provider!Init => Undisturbed
  BY WholeIsReadable DEF Provider!Init, Undisturbed, Provider!LastWriteStands
<1>2. Configured /\ Undisturbed /\ [Provider!Next]_(Provider!vars) => Undisturbed'
  BY UndisturbedStep
<1>3. Configured /\ Undisturbed => ProviderSafe
  BY DEF Configured, Undisturbed, ProviderSafe
<1> QED
  BY <1>1, <1>2, <1>3, ConfiguredInvariance, PTL DEF Provider!Spec

-----------------------------------------------------------------------------
(***************************************************************************)
(* Mirroring of the base images (BaseImages).  Images in Harbor are only   *)
(* replaced, so what one worker has pushed others cannot take away; and a  *)
(* task that is lost goes back to the queue with all it still had to do.   *)
(***************************************************************************)
Version == 0..MaxTag
Mirroring == {"pull", "tag", "push", "save"}
AtImage(w) == syncPc[w] \in Mirroring \cup {"failed"}

ImagesTyped ==
    /\ upstream \in [Mirrored -> Version \ {0}] /\ harbor \in [Mirrored -> Version] /\ tagged \in [Mirrored -> Version]
    /\ images \in [Mirrored -> [status : {"none", "synced", "failed"}, digest : Version]]
    /\ queue \in Nat /\ syncs \in Nat
    /\ syncPc \in [Worker -> {"idle", "next", "failed"} \cup Mirroring]
    /\ syncTodo \in [Worker -> SUBSET Mirrored] /\ imageCurrent \in [Worker -> Mirrored \cup {Images!NoSource}]
    /\ image \in [Worker -> Version] /\ digest \in [Worker -> Version]

\* What a worker has in hand.
InHand(w) ==
    /\ syncPc[w] = "idle" => syncTodo[w] = {}
    /\ AtImage(w) => imageCurrent[w] \in Mirrored
    /\ syncPc[w] \in Mirroring => imageCurrent[w] \in Stable
    /\ syncPc[w] \in {"tag", "push"} => image[w] # 0
    /\ syncPc[w] = "push" => tagged[imageCurrent[w]] # 0
    /\ syncPc[w] = "save" => harbor[imageCurrent[w]] # 0

\* A task, waiting or running, goes on to what has no outcome yet.
Recorded(s) == images[s].status # "none"
Left(w, s) == s \in syncTodo[w] \/ (AtImage(w) /\ imageCurrent[w] = s)
Covers(w) == syncPc[w] # "idle" /\ \A s \in Mirrored : Recorded(s) \/ Left(w, s)
Covered == syncs > 0 => queue > 0 \/ (\A s \in Mirrored : Recorded(s)) \/ \E w \in Worker : Covers(w)

ImagesInv == ImagesTyped /\ (\A w \in Worker : InHand(w)) /\ Images!SyncedIsThere /\ Covered

\* Of a worker alone: the digest it holds is that of its push, and a digest
\* recorded is that of the mirror unless a task still has the image to do.
Alone(w) ==
    /\ syncPc[w] = "push" => tagged[imageCurrent[w]] = image[w]
    /\ syncPc[w] = "save" => digest[w] \in {Images!Unknown, harbor[imageCurrent[w]]}
Exact(s) == images[s].status = "synced" /\ images[s].digest # Images!Unknown => images[s].digest = harbor[s]
NobodyBeside(w) == \A u \in Worker \ {w} : syncPc[u] = "idle"
MirrorInv ==
    beside \/ /\ \A w \in Worker : syncPc[w] # "idle" => NobodyBeside(w)
              /\ \A w \in Worker : Alone(w)
              /\ \A s \in Mirrored : Exact(s) \/ queue > 0 \/ \E w \in Worker : Left(w, s)

\* What an action of a worker changes of it, and leaves to the others.
WorkerMoves(w) ==
    \A u \in Worker \ {w} :
       /\ syncPc'[u] = syncPc[u] /\ syncTodo'[u] = syncTodo[u] /\ imageCurrent'[u] = imageCurrent[u]
       /\ image'[u] = image[u] /\ digest'[u] = digest[u]
Grows ==
    \A s \in Mirrored : (tagged[s] # 0 => tagged'[s] # 0) /\ (harbor[s] # 0 => harbor'[s] # 0)

LEMMA OthersInHand ==
    ASSUME NEW w \in Worker, WorkerMoves(w), Grows, NEW u \in Worker \ {w}, InHand(u)
    PROVE  InHand(u)'
BY DEF WorkerMoves, Grows, InHand, AtImage, Mirroring

LEMMA OthersCover ==
    ASSUME NEW w \in Worker, WorkerMoves(w), \A s \in Mirrored : Recorded(s) => Recorded(s)', NEW u \in Worker \ {w}, Covers(u)
    PROVE  Covers(u)'
BY DEF WorkerMoves, Covers, Left, AtImage

\* A worker's step keeps the invariant if it keeps its own part.
LEMMA WorkerStep ==
    ASSUME ImagesInv, NEW w \in Worker, WorkerMoves(w), Grows, \A s \in Mirrored : Recorded(s) => Recorded(s)',
           UNCHANGED syncs, ImagesTyped', InHand(w)', Images!SyncedIsThere',
           \/ queue' > 0
           \/ \A s \in Mirrored : Recorded(s)'
           \/ Covers(w)'
           \/ queue' = queue /\ ~Covers(w)
    PROVE  ImagesInv'
<1>1. \A u \in Worker : InHand(u)'
  BY OthersInHand DEF ImagesInv
<1>2. Covered'
  BY OthersCover DEF ImagesInv, Covered
<1> QED
  BY <1>1, <1>2 DEF ImagesInv

LEMMA ImagesStart ==
    ASSUME Images!MirrorAssumption, Images!Init
    PROVE  ImagesInv
<1>1. 0 \in Version /\ 1 \in Version \ {0}
  BY DEF Version, Images!MirrorAssumption
<1> QED
  BY <1>1 DEF Images!Init, ImagesInv, ImagesTyped, InHand, AtImage, Mirroring, Images!SyncedIsThere, Covered,
              Images!Unknown, Images!NoSource

LEMMA TakingStep ==
    ASSUME Images!MirrorAssumption, ImagesInv, NEW w \in Worker,
           Images!Take(w) \/ Images!Ends(w) \/ Images!Crash(w) \/ \E s \in Mirrored : Images!NextSource(w, s)
    PROVE  ImagesInv'
<1> USE DEF Images!At, Images!Goto, Images!world, Images!Fault
<1>0. ImagesTyped /\ InHand(w) /\ Images!SyncedIsThere /\ 0 \in Version
  BY DEF ImagesInv, Version, Images!MirrorAssumption
<1>1. /\ UNCHANGED <<upstream, harbor, tagged, images, syncs>>
      /\ \E p \in {"idle", "next", "pull", "failed"} : syncPc' = [syncPc EXCEPT ![w] = p]
      /\ syncTodo' = syncTodo \/ \E t \in SUBSET Mirrored : syncTodo' = [syncTodo EXCEPT ![w] = t]
      /\ \/ imageCurrent' = imageCurrent
         \/ \E s \in Mirrored \cup {Images!NoSource} : imageCurrent' = [imageCurrent EXCEPT ![w] = s]
      /\ image' = image \/ image' = [image EXCEPT ![w] = 0]
      /\ digest' = digest \/ digest' = [digest EXCEPT ![w] = 0]
  <2> USE <1>0 DEF ImagesTyped, Images!Unknown
  <2>1. CASE Images!Take(w)
    BY <2>1 DEF Images!Take
  <2>2. CASE Images!Ends(w)
    BY <2>2 DEF Images!Ends
  <2>3. CASE Images!Crash(w)
    BY <2>3 DEF Images!Crash
  <2>4. ASSUME NEW s \in Mirrored, Images!NextSource(w, s)
        PROVE  /\ UNCHANGED <<upstream, harbor, tagged, images, syncs, queue>>
               /\ \E p \in {"pull", "failed"} : syncPc' = [syncPc EXCEPT ![w] = p]
               /\ \E t \in SUBSET Mirrored : syncTodo' = [syncTodo EXCEPT ![w] = t]
               /\ imageCurrent' = [imageCurrent EXCEPT ![w] = s]
               /\ image' = [image EXCEPT ![w] = 0] /\ digest' = [digest EXCEPT ![w] = 0]
    <3>1. syncTodo[w] \ {s} \in SUBSET Mirrored /\ syncTodo' = [syncTodo EXCEPT ![w] = syncTodo[w] \ {s}]
      BY <2>4 DEF Images!NextSource
    <3> QED
      BY <2>4, <3>1 DEF Images!NextSource
  <2> QED
    BY <2>1, <2>2, <2>3, <2>4
<1>10. queue' \in Nat
  BY <1>0 DEF Images!Take, Images!Ends, Images!Crash, Images!NextSource, ImagesTyped
<1>2. ImagesTyped'
  <2>0. UNCHANGED <<upstream, harbor, tagged, images, syncs>>
    BY <1>1
  <2>1. syncPc' \in [Worker -> {"idle", "next", "failed"} \cup Mirroring]
    BY <1>0, <1>1 DEF ImagesTyped, Mirroring
  <2>2. syncTodo' \in [Worker -> SUBSET Mirrored]
    BY <1>0, <1>1 DEF ImagesTyped
  <2>3. imageCurrent' \in [Worker -> Mirrored \cup {Images!NoSource}]
    BY <1>0, <1>1 DEF ImagesTyped
  <2>4. image' \in [Worker -> Version]
    BY <1>0, <1>1 DEF ImagesTyped
  <2>5. digest' \in [Worker -> Version]
    BY <1>0, <1>1 DEF ImagesTyped
  <2> QED
    BY <1>0, <1>10, <2>0, <2>1, <2>2, <2>3, <2>4, <2>5 DEF ImagesTyped
<1>3. WorkerMoves(w) /\ Grows
  <2>1. \A u \in Worker \ {w} : syncPc'[u] = syncPc[u] /\ syncTodo'[u] = syncTodo[u]
    BY <1>0, <1>1 DEF ImagesTyped
  <2>2. \A u \in Worker \ {w} : imageCurrent'[u] = imageCurrent[u]
    BY <1>0, <1>1 DEF ImagesTyped
  <2>3. \A u \in Worker \ {w} : image'[u] = image[u] /\ digest'[u] = digest[u]
    BY <1>0, <1>1 DEF ImagesTyped
  <2>4. Grows
    BY <1>1 DEF Grows
  <2> QED
    BY <2>1, <2>2, <2>3, <2>4 DEF WorkerMoves
<1>4. Images!SyncedIsThere'
  BY <1>0, <1>1 DEF Images!SyncedIsThere
<1>5. \A s \in Mirrored : Recorded(s)' <=> Recorded(s)
  BY <1>1 DEF Recorded
<1>6. CASE Images!Take(w)
  <2>1. syncPc'[w] = "next" /\ syncTodo'[w] = Mirrored
    BY <1>0, <1>6 DEF Images!Take, ImagesTyped
  <2>2. InHand(w)' /\ Covers(w)'
    BY <2>1 DEF InHand, AtImage, Mirroring, Covers, Left
  <2> QED
    BY <1>1, <1>2, <1>3, <1>4, <1>5, <2>2, WorkerStep
<1>7. CASE Images!Ends(w)
  <2>1. syncPc[w] = "next" /\ syncTodo[w] = {} /\ syncPc'[w] = "idle" /\ syncTodo' = syncTodo /\ queue' = queue
    BY <1>0, <1>7 DEF Images!Ends, ImagesTyped
  <2>2. InHand(w)'
    BY <2>1 DEF InHand, AtImage, Mirroring
  <2>3. Covers(w) => \A s \in Mirrored : Recorded(s)
    BY <2>1 DEF Covers, Left, AtImage, Mirroring
  <2> QED
    BY <1>1, <1>2, <1>3, <1>4, <1>5, <2>1, <2>2, <2>3, WorkerStep
<1>8. CASE Images!Crash(w)
  <2>1. syncPc'[w] = "idle" /\ syncTodo'[w] = {} /\ queue' > 0
    BY <1>0, <1>8 DEF Images!Crash, ImagesTyped
  <2>2. InHand(w)'
    BY <2>1 DEF InHand, AtImage, Mirroring
  <2> QED
    BY <1>1, <1>2, <1>3, <1>4, <1>5, <2>1, <2>2, WorkerStep
<1>9. ASSUME NEW s \in Mirrored, Images!NextSource(w, s)
      PROVE  ImagesInv'
  <2>1. /\ syncPc[w] = "next" /\ syncTodo'[w] = syncTodo[w] \ {s} /\ imageCurrent'[w] = s /\ queue' = queue
        /\ syncPc'[w] = IF s \in Stable THEN "pull" ELSE "failed"
    BY <1>0, <1>9 DEF Images!NextSource, ImagesTyped
  <2>2. InHand(w)'
    BY <2>1 DEF InHand, AtImage, Mirroring
  <2>3. Covers(w) => Covers(w)'
    BY <1>5, <2>1 DEF Covers, Left, AtImage, Mirroring
  <2> QED
    BY <1>1, <1>2, <1>3, <1>4, <1>5, <2>1, <2>2, <2>3, WorkerStep
<1> QED
  BY <1>6, <1>7, <1>8, <1>9

LEMMA ImageStep ==
    ASSUME Images!MirrorAssumption, ImagesInv, NEW w \in Worker,
           \/ Images!Pull(w) \/ Images!Tag(w) \/ Images!Fails(w) \/ \E told \in BOOLEAN : Images!Push(w, told)
    PROVE  ImagesInv'
<1> USE DEF Images!At, Images!Goto, Images!world, Images!work, Images!Fault
<1> DEFINE c == imageCurrent[w]
<1>0. /\ ImagesTyped /\ InHand(w) /\ Images!SyncedIsThere /\ 0 \in Version
      /\ syncPc[w] \in {"pull", "tag", "push"} /\ c \in Mirrored /\ c \in Stable
  BY DEF ImagesInv, Version, Images!MirrorAssumption, InHand, AtImage, Mirroring, Images!Pull, Images!Tag,
     Images!Fails,
         Images!Push
<1>1. /\ UNCHANGED <<upstream, images, syncs, queue, syncTodo, imageCurrent>>
      /\ \E p \in {"tag", "push", "save", "failed"} : syncPc' = [syncPc EXCEPT ![w] = p]
      /\ image' = image \/ image' = [image EXCEPT ![w] = upstream[c]]
      /\ digest' = digest \/ \E d \in {0, image[w], tagged[c]} : digest' = [digest EXCEPT ![w] = d]
      /\ harbor' = harbor \/ (syncPc[w] = "push" /\ harbor' = [harbor EXCEPT ![c] = tagged[c]])
      /\ tagged' = tagged \/ (syncPc[w] = "tag" /\ tagged' = [tagged EXCEPT ![c] = image[w]])
  BY DEF Images!Pull, Images!Tag, Images!Fails, Images!Push, Images!Unknown
<1>2. upstream[c] \in Version \ {0} /\ image[w] \in Version /\ tagged[c] \in Version
  BY <1>0 DEF ImagesTyped
<1>3. ImagesTyped'
  <2>0. UNCHANGED <<upstream, images, syncs, queue, syncTodo, imageCurrent>>
    BY <1>1
  <2>1. syncPc' \in [Worker -> {"idle", "next", "failed"} \cup Mirroring]
    BY <1>0, <1>1 DEF ImagesTyped, Mirroring
  <2>2. image' \in [Worker -> Version]
    BY <1>0, <1>1, <1>2 DEF ImagesTyped
  <2>3. \A d \in {0, image[w], tagged[c]} : d \in Version
    BY <1>2 DEF Images!MirrorAssumption, Version
  <2>4. digest' \in [Worker -> Version]
    BY <1>0, <1>1, <2>3 DEF ImagesTyped
  <2>5. harbor' \in [Mirrored -> Version] /\ tagged' \in [Mirrored -> Version]
    BY <1>0, <1>1, <1>2 DEF ImagesTyped
  <2> QED
    BY <1>0, <2>0, <2>1, <2>2, <2>4, <2>5 DEF ImagesTyped
<1>4. WorkerMoves(w)
  <2>1. \A u \in Worker \ {w} : syncPc'[u] = syncPc[u]
    BY <1>0, <1>1 DEF ImagesTyped
  <2>2. UNCHANGED <<syncTodo, imageCurrent>>
    BY <1>1
  <2>3. \A u \in Worker \ {w} : image'[u] = image[u] /\ digest'[u] = digest[u]
    BY <1>0, <1>1 DEF ImagesTyped
  <2> QED
    BY <2>1, <2>2, <2>3 DEF WorkerMoves
<1>5. Grows
  BY <1>0, <1>1 DEF Grows, InHand, ImagesTyped
<1>6. Images!SyncedIsThere'
  BY <1>0, <1>1, <1>5 DEF Images!SyncedIsThere, Grows
<1>7. InHand(w)'
  <2>1. syncPc'[w] \in {"tag", "push", "save", "failed"} /\ imageCurrent'[w] = c
    BY <1>0, <1>1 DEF ImagesTyped
  <2>2. CASE Images!Pull(w)
    <3>1. syncPc'[w] = "tag" /\ image'[w] = upstream[c]
      BY <1>0, <2>2 DEF Images!Pull, ImagesTyped
    <3> QED
      BY <1>0, <1>2, <2>1, <3>1 DEF InHand, AtImage, Mirroring
  <2>3. CASE Images!Tag(w)
    <3>1. syncPc'[w] = "push" /\ image'[w] = image[w] /\ tagged'[c] = image[w] /\ image[w] # 0
      BY <1>0, <2>3 DEF Images!Tag, ImagesTyped, InHand
    <3> QED
      BY <1>0, <2>1, <3>1 DEF InHand, AtImage, Mirroring
  <2>4. CASE Images!Fails(w)
    <3>1. syncPc'[w] = "failed"
      BY <1>0, <2>4 DEF Images!Fails, ImagesTyped
    <3> QED
      BY <1>0, <2>1, <3>1 DEF InHand, AtImage, Mirroring
  <2>5. CASE \E told \in BOOLEAN : Images!Push(w, told)
    <3>1. syncPc'[w] = "save" /\ harbor'[c] = tagged[c] /\ tagged[c] # 0
      BY <1>0, <2>5 DEF Images!Push, ImagesTyped, InHand
    <3> QED
      BY <1>0, <2>1, <3>1 DEF InHand, AtImage, Mirroring
  <2> QED
    BY <2>2, <2>3, <2>4, <2>5
<1>8. \A s \in Mirrored : Recorded(s)' <=> Recorded(s)
  BY <1>1 DEF Recorded
<1>9. Covers(w) => Covers(w)'
  <2>1. syncPc'[w] \in {"tag", "push", "save", "failed"}
    BY <1>0, <1>1 DEF ImagesTyped
  <2> QED
    BY <1>0, <1>1, <1>8, <2>1 DEF Covers, Left, AtImage, Mirroring
<1> QED
  BY <1>1, <1>3, <1>4, <1>5, <1>6, <1>7, <1>8, <1>9, WorkerStep

LEMMA OutcomeStep ==
    ASSUME Images!MirrorAssumption, ImagesInv, NEW w \in Worker,
           Images!Save(w) \/ Images!SaveFailure(w) \/ Images!NotConfigured(w)
    PROVE  ImagesInv'
<1> USE DEF Images!At, Images!Goto, Images!world, Images!work, Images!Fault, Images!Unknown, Images!SavedDigest
<1> DEFINE c == imageCurrent[w]
<1>0. ImagesTyped /\ InHand(w) /\ Images!SyncedIsThere /\ 0 \in Version /\ digest[w] \in Version
  BY DEF ImagesInv, Version, Images!MirrorAssumption, ImagesTyped
<1>1. /\ UNCHANGED <<upstream, harbor, tagged, syncs, queue, imageCurrent, image, digest>>
      /\ \/ \E s \in Mirrored :
              /\ c = s /\ AtImage(w) /\ syncTodo' = syncTodo /\ syncPc' = [syncPc EXCEPT ![w] = "next"]
              /\ \/ syncPc[w] = "save" /\ images' = [images EXCEPT ![s] = [status |-> "synced", digest |-> digest[w]]]
                 \/ images' = [images EXCEPT ![s] = [status |-> "failed", digest |-> 0]]
         \/ /\ syncPc[w] = "next" /\ syncPc' = syncPc /\ syncTodo' = [syncTodo EXCEPT ![w] = {}]
            /\ images' = [s \in Mirrored |-> [status |-> "failed", digest |-> 0]]
  <2>1. CASE Images!Save(w) \/ Images!SaveFailure(w)
    <3>1. c \in Mirrored /\ AtImage(w)
      BY <1>0, <2>1 DEF Images!Save, Images!SaveFailure, InHand, AtImage, Mirroring
    <3> QED
      BY <2>1, <3>1 DEF Images!Save, Images!SaveFailure
  <2>2. CASE Images!NotConfigured(w)
    BY <2>2 DEF Images!NotConfigured
  <2> QED
    BY <2>1, <2>2
<1>2. WorkerMoves(w) /\ Grows
  <2>1. UNCHANGED <<harbor, tagged, imageCurrent, image, digest>>
    BY <1>1
  <2>2. \A u \in Worker \ {w} : syncPc'[u] = syncPc[u] /\ syncTodo'[u] = syncTodo[u]
    BY <1>0, <1>1 DEF ImagesTyped
  <2> QED
    BY <2>1, <2>2 DEF WorkerMoves, Grows
<1>3. syncPc'[w] = "next" /\ InHand(w)'
  BY <1>0, <1>1 DEF InHand, AtImage, Mirroring, ImagesTyped
<1>4. \A s \in Mirrored : Recorded(s) => Recorded(s)'
  BY <1>0, <1>1 DEF Recorded, ImagesTyped
<1>5. ImagesTyped'
  <2>1. syncPc' \in [Worker -> {"idle", "next", "failed"} \cup Mirroring] /\ syncTodo' \in [Worker -> SUBSET Mirrored]
    BY <1>0, <1>1 DEF ImagesTyped
  <2>2. images' \in [Mirrored -> [status : {"none", "synced", "failed"}, digest : Version]]
    <3>1. \A t \in {"synced", "failed"}, d \in Version :
             [status |-> t, digest |-> d] \in [status : {"none", "synced", "failed"}, digest : Version]
      OBVIOUS
    <3>2. \/ \E s \in Mirrored, r \in [status : {"none", "synced", "failed"}, digest : Version] :
                images' = [images EXCEPT ![s] = r]
          \/ images' = [s \in Mirrored |-> [status |-> "failed", digest |-> 0]]
      BY <1>0, <1>1, <3>1
    <3> QED
      BY <1>0, <3>1, <3>2 DEF ImagesTyped
  <2>3. UNCHANGED <<upstream, harbor, tagged, syncs, queue, imageCurrent, image, digest>>
    BY <1>1
  <2> QED
    BY <1>0, <2>1, <2>2, <2>3 DEF ImagesTyped
<1>6. Images!SyncedIsThere'
  BY <1>0, <1>1 DEF Images!SyncedIsThere, InHand, Mirroring, ImagesTyped
<1>7. (\A s \in Mirrored : Recorded(s)') \/ (Covers(w) => Covers(w)')
  <2>1. CASE syncPc[w] = "next" /\ images' = [s \in Mirrored |-> [status |-> "failed", digest |-> 0]]
    BY <2>1 DEF Recorded
  <2>2. ASSUME NEW s \in Mirrored, c = s, syncTodo' = syncTodo, images'[s].status # "none"
        PROVE  Covers(w) => Covers(w)'
    BY <1>3, <1>4, <2>2 DEF Covers, Left, Recorded
  <2> QED
    BY <1>0, <1>1, <2>1, <2>2 DEF ImagesTyped
<1> QED
  BY <1>1, <1>2, <1>3, <1>4, <1>5, <1>6, <1>7, WorkerStep

LEMMA ImagesStep ==
    ASSUME Images!MirrorAssumption, ImagesInv, [Images!Next]_(Images!vars)
    PROVE  ImagesInv'
<1> USE DEF Images!world, Images!work
<1>1. ASSUME NEW s \in Mirrored, Images!Retag(s)
      PROVE  ImagesInv'
  <2>1. upstream' \in [Mirrored -> Version \ {0}]
    BY <1>1 DEF Images!Retag, ImagesInv, ImagesTyped, Version, Images!MirrorAssumption
  <2> QED
    BY <1>1, <2>1 DEF Images!Retag, ImagesInv, ImagesTyped, InHand, AtImage, Images!SyncedIsThere, Covered,
       Covers, Left,
                      Recorded
<1>2. CASE Images!Dispatch
  <2>1. queue' \in Nat /\ queue' > 0 /\ syncs' \in Nat
    BY <1>2 DEF Images!Dispatch, ImagesInv, ImagesTyped
  <2> QED
    BY <1>2, <2>1 DEF Images!Dispatch, ImagesInv, ImagesTyped, InHand, AtImage, Images!SyncedIsThere, Covered
<1>3. CASE UNCHANGED Images!vars
  BY <1>3 DEF Images!vars, ImagesInv, ImagesTyped, InHand, AtImage, Images!SyncedIsThere, Covered, Covers,
     Left, Recorded
<1> QED
  BY <1>1, <1>2, <1>3, TakingStep, ImageStep, OutcomeStep DEF Images!Next, Images!Quiet

LEMMA ImagesInvariance == ASSUME Images!MirrorAssumption PROVE Images!Spec => []ImagesInv
  BY ImagesStart, ImagesStep, PTL DEF Images!Spec

\* Images, records and what the workers hold keep their types; what is pushed has
\* been tagged (sync).
THEOREM ImagesKeepTypes == ASSUME Images!MirrorAssumption PROVE Images!Spec => []Images!TypeOK
<1>1. ASSUME Images!MirrorAssumption PROVE ImagesInv => Images!TypeOK
  <2> SUFFICES ASSUME ImagesInv PROVE Images!TypeOK
    OBVIOUS
  <2>1. \A s \in Mirrored : images[s] \in [status : {"none", "synced", "failed"}, digest : Version]
    BY DEF ImagesInv, ImagesTyped
  <2>2. \A s \in Mirrored : upstream[s] \in Version /\ harbor[s] \in Version /\ tagged[s] \in Version
    BY DEF ImagesInv, ImagesTyped
  <2> QED
    BY <2>1, <2>2 DEF ImagesInv, InHand, Images!TypeOK, Images!At, Version
<1> QED
  BY <1>1, ImagesInvariance, PTL

LEMMA MirrorStep ==
    ASSUME Images!MirrorAssumption, ImagesInv, MirrorInv, [Images!Next]_(Images!vars)
    PROVE  MirrorInv'
<1> USE DEF Images!At, Images!Goto, Images!world, Images!work, Images!Fault, Images!Unknown
<1> SUFFICES ASSUME ~beside' PROVE MirrorInv'
  BY DEF MirrorInv
<1>0. ImagesTyped /\ \A w \in Worker : InHand(w)
  BY DEF ImagesInv
<1>A. /\ \A w \in Worker : syncPc[w] # "idle" => NobodyBeside(w)
      /\ \A w \in Worker : Alone(w)
      /\ \A s \in Mirrored : Exact(s) \/ queue > 0 \/ \E w \in Worker : Left(w, s)
  <2>1. ~beside
    BY DEF Images!Next, Images!Retag, Images!Dispatch, Images!Take, Images!Pull, Images!Tag, Images!Save,
           Images!SaveFailure, Images!Ends, Images!NotConfigured, Images!Fails, Images!Crash, Images!NextSource,
           Images!Push, Images!Quiet, Images!vars
  <2> QED
    BY <2>1 DEF MirrorInv
\* the worker that moves keeps its part, and there is none beside it
<1>1. ASSUME NEW w \in Worker, NobodyBeside(w), \A u \in Worker \ {w} : syncPc'[u] = syncPc[u],
             Alone(w)', \A s \in Mirrored : Exact(s)' \/ queue' > 0 \/ Left(w, s)'
      PROVE  MirrorInv'
  <2>1. NobodyBeside(w)' /\ \A u \in Worker \ {w} : Alone(u)'
    BY <1>1 DEF NobodyBeside, Alone
  <2>2. \A u \in Worker : syncPc'[u] # "idle" => u = w
    BY <2>1 DEF NobodyBeside
  <2> QED
    BY <1>1, <2>1, <2>2 DEF MirrorInv
<1>2. ASSUME NEW w \in Worker, NobodyBeside(w)
      PROVE  \A s \in Mirrored : Exact(s) \/ queue > 0 \/ Left(w, s)
  <2>1. \A u \in Worker \ {w}, s \in Mirrored : ~Left(u, s)
    BY <1>0, <1>2 DEF NobodyBeside, InHand, Left, AtImage, Mirroring
  <2> QED
    BY <1>A, <2>1
<1>B. ASSUME NEW w \in Worker,
             \/ Images!Take(w) \/ Images!Pull(w) \/ Images!Tag(w) \/ Images!Save(w) \/ Images!SaveFailure(w)
             \/ Images!Ends(w) \/ Images!NotConfigured(w) \/ Images!Fails(w) \/ Images!Crash(w)
             \/ \E s \in Mirrored : Images!NextSource(w, s)
             \/ \E told \in BOOLEAN : Images!Push(w, told)
      PROVE  NobodyBeside(w) /\ \A u \in Worker \ {w} : syncPc'[u] = syncPc[u]
  <2>1. NobodyBeside(w)
    <3>1. CASE Images!Take(w)
      BY <3>1 DEF Images!Take, NobodyBeside
    <3>2. CASE syncPc[w] # "idle"
      BY <1>A, <3>2
    <3> QED
      BY <1>B, <3>1, <3>2 DEF Images!Pull, Images!Tag, Images!Save, Images!SaveFailure, Images!Ends,
         Images!NotConfigured, Images!Fails, Images!Crash, Images!NextSource, Images!Push
  <2>2. syncPc' = syncPc \/ \E p : syncPc' = [syncPc EXCEPT ![w] = p]
    BY <1>B DEF Images!Take, Images!Pull, Images!Tag, Images!Save, Images!SaveFailure, Images!Ends,
         Images!NotConfigured, Images!Fails, Images!Crash, Images!NextSource, Images!Push
  <2> QED
    BY <1>0, <2>1, <2>2 DEF ImagesTyped
<1>3. CASE (\E s \in Mirrored : Images!Retag(s)) \/ Images!Dispatch \/ UNCHANGED Images!vars
  <2>1. /\ UNCHANGED <<harbor, tagged, images, syncPc, syncTodo, imageCurrent, image, digest>>
        /\ queue > 0 => queue' > 0
    BY <1>0, <1>3 DEF Images!Retag, Images!Dispatch, Images!vars, ImagesTyped
  <2> QED
    BY <1>A, <2>1 DEF MirrorInv, NobodyBeside, Alone, Exact, Left, AtImage
<1>4. ASSUME NEW w \in Worker, Images!Take(w) \/ Images!Crash(w)
      PROVE  MirrorInv'
  <2>1. UNCHANGED <<harbor, tagged, images>> /\ syncPc'[w] \in {"idle", "next"} /\ (queue' > 0 \/ syncTodo'[w] = Mirrored)
    BY <1>0, <1>4 DEF Images!Take, Images!Crash, ImagesTyped
  <2> QED
    BY <1>1, <1>B, <1>4, <2>1 DEF Alone, Left
<1>5. ASSUME NEW w \in Worker, Images!Ends(w)
      PROVE  MirrorInv'
  <2>1. /\ UNCHANGED <<harbor, tagged, images, queue>> /\ syncPc'[w] = "idle" /\ syncPc[w] = "next"
        /\ syncTodo[w] = {}
    BY <1>0, <1>5 DEF Images!Ends, ImagesTyped
  <2>2. \A s \in Mirrored : ~Left(w, s)
    BY <2>1 DEF Left, AtImage, Mirroring
  <2> QED
    BY <1>1, <1>B, <1>5, <1>2, <2>1, <2>2 DEF Alone, Exact
<1>6. ASSUME NEW w \in Worker, NEW s \in Mirrored, Images!NextSource(w, s)
      PROVE  MirrorInv'
  <2>1. /\ UNCHANGED <<harbor, tagged, images, queue>> /\ syncPc'[w] \in {"pull", "failed"} /\ syncPc[w] = "next"
        /\ syncTodo'[w] = syncTodo[w] \ {s} /\ imageCurrent'[w] = s
    BY <1>0, <1>6 DEF Images!NextSource, ImagesTyped
  <2>2. \A r \in Mirrored : Left(w, r) => Left(w, r)'
    BY <2>1 DEF Left, AtImage, Mirroring
  <2> QED
    BY <1>1, <1>B, <1>6, <1>2, <2>1, <2>2 DEF Alone, Exact
<1>7. ASSUME NEW w \in Worker,
             Images!Pull(w) \/ Images!Tag(w) \/ Images!Fails(w) \/ \E told \in BOOLEAN : Images!Push(w, told)
      PROVE  MirrorInv'
  <2>1. /\ syncPc[w] \in {"pull", "tag", "push"} /\ syncPc'[w] \in {"tag", "push", "save", "failed"}
        /\ UNCHANGED <<images, queue, syncTodo, imageCurrent>> /\ imageCurrent[w] \in Mirrored
        /\ harbor' = harbor \/ harbor' = [harbor EXCEPT ![imageCurrent[w]] = tagged[imageCurrent[w]]]
    BY <1>0, <1>7 DEF Images!Pull, Images!Tag, Images!Fails, Images!Push, ImagesTyped, InHand, AtImage,
       Mirroring
  <2>2. \A r \in Mirrored : Left(w, r)' <=> Left(w, r)
    BY <2>1 DEF Left, AtImage, Mirroring
  <2>3. \A r \in Mirrored : r # imageCurrent[w] => (Exact(r)' <=> Exact(r))
    BY <1>0, <2>1 DEF Exact, ImagesTyped
  <2>4. Left(w, imageCurrent[w])'
    BY <2>1 DEF Left, AtImage, Mirroring
  <2>5. Alone(w)'
    <3>1. CASE Images!Pull(w) \/ Images!Fails(w)
      <4>1. syncPc'[w] \in {"tag", "failed"}
        BY <1>0, <3>1 DEF Images!Pull, Images!Fails, ImagesTyped
      <4> QED
        BY <4>1 DEF Alone
    <3>2. CASE Images!Tag(w)
      <4>1. syncPc'[w] = "push" /\ tagged'[imageCurrent[w]] = image[w] /\ UNCHANGED <<imageCurrent, image>>
        BY <1>0, <2>1, <3>2 DEF Images!Tag, ImagesTyped
      <4> QED
        BY <4>1 DEF Alone
    <3>3. ASSUME NEW told \in BOOLEAN, Images!Push(w, told)
          PROVE  Alone(w)'
      <4>1. tagged[imageCurrent[w]] = image[w]
        BY <1>A, <3>3 DEF Images!Push, Alone
      <4>2. /\ syncPc'[w] = "save" /\ harbor'[imageCurrent[w]] = tagged[imageCurrent[w]]
            /\ digest'[w] \in {0, image[w], tagged[imageCurrent[w]]} /\ UNCHANGED imageCurrent
        BY <1>0, <2>1, <3>3 DEF Images!Push, ImagesTyped
      <4> QED
        BY <4>1, <4>2 DEF Alone
    <3> QED
      BY <1>7, <3>1, <3>2, <3>3
  <2> QED
    BY <1>1, <1>B, <1>7, <1>2, <2>1, <2>2, <2>3, <2>4, <2>5
<1>8. ASSUME NEW w \in Worker, Images!Save(w) \/ Images!SaveFailure(w)
      PROVE  MirrorInv'
  <2> DEFINE s == imageCurrent[w]
  <2>1. s \in Mirrored /\ AtImage(w) /\ syncPc'[w] = "next" /\ UNCHANGED <<harbor, queue, syncTodo, imageCurrent>>
    BY <1>0, <1>8 DEF Images!Save, Images!SaveFailure, InHand, AtImage, Mirroring, ImagesTyped
  <2>2. \A r \in Mirrored \ {s} : images'[r] = images[r]
    BY <1>0, <1>8 DEF Images!Save, Images!SaveFailure, ImagesTyped
  <2>3. images'[s].status = "synced" => images'[s].digest \in {0, harbor[s]}
    <3>1. CASE Images!Save(w)
      <4>1. images'[s].digest = digest[w]
        BY <1>0, <2>1, <3>1 DEF Images!Save, Images!SavedDigest, ImagesTyped
      <4>2. digest[w] \in {0, harbor[s]}
        BY <1>A, <3>1 DEF Images!Save, Alone
      <4> QED
        BY <4>1, <4>2
    <3>2. CASE Images!SaveFailure(w)
      BY <1>0, <2>1, <3>2 DEF Images!SaveFailure, ImagesTyped
    <3> QED
      BY <1>8, <3>1, <3>2
  <2>4. \A r \in Mirrored \ {s} : (Exact(r) => Exact(r)') /\ (Left(w, r) => Left(w, r)')
    BY <2>1, <2>2 DEF Exact, Left
  <2>5. ASSUME NEW r \in Mirrored PROVE Exact(r)' \/ queue' > 0 \/ Left(w, r)'
    <3>1. CASE r = imageCurrent[w]
      BY <2>1, <2>3, <3>1 DEF Exact
    <3>2. CASE r # imageCurrent[w]
      BY <1>2, <1>B, <1>8, <2>1, <2>4, <3>2
    <3> QED
      BY <3>1, <3>2
  <2> QED
    BY <1>1, <1>B, <1>8, <2>1, <2>5 DEF Alone
<1>9. ASSUME NEW w \in Worker, Images!NotConfigured(w)
      PROVE  MirrorInv'
  <2>1. /\ syncPc'[w] = "next" /\ \A s \in Mirrored : images'[s].status = "failed"
    BY <1>9 DEF Images!NotConfigured
  <2> QED
    BY <1>1, <1>B, <1>9, <2>1 DEF Alone, Exact
<1> QED
  BY <1>3, <1>4, <1>5, <1>6, <1>7, <1>8, <1>9 DEF Images!Next, Images!Quiet

\* Once no task waits or runs every image of the catalog has its outcome, whatever
\* failed and whoever died, and one that is recorded as synced is in Harbor, whoever
\* else mirrors it; if no task has run beside another, a digest that is recorded is
\* that of the image in Harbor, also if a worker died between the push and the
\* record (sync_base_images, sync).
THEOREM ImagesMirrored == ASSUME Images!MirrorAssumption PROVE Images!Spec => []ImagesSafe
<1>1. Images!Init => MirrorInv
  BY DEF Images!Init, MirrorInv, NobodyBeside, Alone, Exact
<1>2. ImagesInv /\ MirrorInv /\ [Images!Next]_(Images!vars) => MirrorInv'
  BY MirrorStep
<1>3. ImagesInv => Images!EveryOutcomeIsSaved
  BY DEF ImagesInv, Covered, Covers, Recorded, Images!EveryOutcomeIsSaved, Images!Idle, Images!At
<1>4. ImagesInv /\ MirrorInv => Images!DigestIsOfTheMirror
  <2> SUFFICES ASSUME ImagesInv, MirrorInv, Images!Idle, ~beside, NEW s \in Mirrored PROVE Exact(s)
    BY DEF Images!DigestIsOfTheMirror, Exact
  <2>1. queue = 0 /\ \A w \in Worker : syncPc[w] = "idle" /\ syncTodo[w] = {}
    BY DEF Images!Idle, Images!At, ImagesInv, InHand
  <2> QED
    BY <2>1 DEF MirrorInv, Left, AtImage, Mirroring
<1>5. ImagesInv /\ MirrorInv => ImagesSafe
  BY <1>3, <1>4 DEF ImagesInv, ImagesSafe
<1> QED
  BY <1>1, <1>2, <1>5, ImagesInvariance, PTL DEF Images!Spec

-----------------------------------------------------------------------------
(***************************************************************************)
(* The technology stacks (TechStacks).  A deleted stack has no document,   *)
(* and whatever is not a creation or a seed leaves what has none alone.    *)
(* Of one process that serves one request at a time, the catalog is the    *)
(* collection but for the stack of the request in flight; while it starts, *)
(* nobody else writes, so what it has read is what is stored.              *)
(***************************************************************************)
WrittenContent == 0..(2 + stackEdits)
StackRequest == [kind : {"upsert", "remove"}, process : Server, stack : Stack, content : WrittenContent]

StacksTyped ==
    /\ stackEdits \in 0..MaxStackEdits
    /\ stacks \in [Stack -> WrittenContent]
    /\ catalog \in [Server -> [Stack -> WrittenContent]]
    /\ stacksListed \in [Server -> [Stack -> WrittenContent]]
    /\ stacksUp \in [Server -> {"down", "seeding", "read", "up"}]
    /\ stacksTodo \in [Server -> SUBSET Stack]
    /\ stacksReq \in [Request -> StackRequest \cup {Stacks!Idle}]
Serving ==
    /\ \A p \in Server : stacksUp[p] = "up" => stacksTodo[p] = {}
    /\ \A p \in Server : stacksUp[p] = "seeding" => stacksTodo[p] \subseteq Seeds
    /\ \A r \in Request : stacksReq[r] # Stacks!Idle => stacksUp[stacksReq[r].process] = "up"
StacksInv == StacksTyped /\ Serving /\ \A s \in deleted : s \in Stack => stacks[s] = Stacks!Gone

\* Of one process with one request at a time: what the process has in hand.
SameAs(p) ==
    /\ stacksUp[p] = "seeding" =>
          \A s \in Stack : /\ stacksListed[p][s] = Stacks!SeedCatalog[s]
                           /\ stacks[s] = IF s \in stacksTodo[p] THEN Stacks!Gone ELSE Stacks!SeedCatalog[s]
    /\ stacksUp[p] = "read" => \A s \in Stack : stacksListed[p][s] = stacks[s]
    /\ stacksUp[p] = "read" => \A s \in stacksTodo[p] : stacks[s] # Stacks!Gone
    /\ \A r \in Request : stacksReq[r] # Stacks!Idle => stacksReq[r].content = stacks[stacksReq[r].stack]
    /\ stacksUp[p] = "up" =>
          \A s \in Stack : \/ catalog[p][s] = stacks[s]
                           \/ \E r \in Request : stacksReq[r] # Stacks!Idle /\ stacksReq[r].stack = s
OneOfEach == (\A p, q \in Server : p = q) /\ (\A r, q \in Request : r = q)

LEMMA StackIdle ==
    /\ Stacks!Idle \notin StackRequest
    /\ Stacks!Idle.kind = "idle"
BY DEF Stacks!Idle, StackRequest

LEMMA Normal ==
    ASSUME NEW n \in Nat, NEW c \in 0..(2 + n)
    PROVE  /\ Stacks!Normalized(c) \in 0..(2 + n) /\ (Stacks!Normalized(c) = Stacks!Gone <=> c = Stacks!Gone)
           /\ (c > Stacks!Seeded => Stacks!Normalized(c) = c) /\ (c = Stacks!Gone => Stacks!Normalized(c) = c)
BY DEF Stacks!Normalized, Stacks!Old, Stacks!Seeded, Stacks!Gone

LEMMA SeedsAre ==
    ASSUME Stacks!SeedAssumption, StacksTyped
    PROVE  /\ Stacks!SeedCatalog \in [Stack -> WrittenContent] /\ Stacks!Seeded \in WrittenContent
           /\ Seeds \subseteq Stack /\ Stacks!Gone \in WrittenContent
           /\ \A s \in Stack : Stacks!SeedCatalog[s] = IF s \in Seeds THEN Stacks!Seeded ELSE Stacks!Gone
BY DEF Stacks!SeedAssumption, StacksTyped, WrittenContent, Stacks!SeedCatalog, Stacks!Seeded, Stacks!Gone

LEMMA StacksStart ==
    ASSUME Stacks!SeedAssumption, Stacks!Init
    PROVE  StacksInv
<1>1. stackEdits \in 0..MaxStackEdits /\ {Stacks!Gone, Stacks!Old} \subseteq WrittenContent
  BY DEF Stacks!SeedAssumption, Stacks!Init, WrittenContent, Stacks!Gone, Stacks!Old
<1>2. stacks \in [Stack -> WrittenContent]
  BY <1>1 DEF Stacks!Init
<1> QED
  BY <1>1, <1>2 DEF Stacks!Init, StacksInv, StacksTyped, Serving

\* The steps of a process: they edit nothing.
LEMMA ProcessStep ==
    ASSUME Stacks!SeedAssumption, StacksInv, NEW p \in Server,
           \/ Stacks!List(p) \/ Stacks!Load(p) \/ Stacks!Stop(p)
           \/ \E s \in Stack : Stacks!Seed(p, s) \/ Stacks!Migrate(p, s)
    PROVE  StacksInv'
<1>0. stackEdits' = stackEdits /\ WrittenContent' = WrittenContent /\ StackRequest' = StackRequest /\ deleted' \subseteq deleted
  BY DEF Stacks!List, Stacks!Load, Stacks!Stop, Stacks!Seed, Stacks!Migrate, WrittenContent, StackRequest
<1>1. CASE Stacks!List(p)
  <2>1. stacksListed' \in [Server -> [Stack -> WrittenContent]] /\ stacksTodo' \in [Server -> SUBSET Stack]
    <3>1. CASE Stacks!Present = {}
      BY <1>1, <3>1, SeedsAre DEF Stacks!List, StacksInv, StacksTyped
    <3>2. CASE Stacks!Present # {}
      <4>1. {s \in Stacks!Present : Stacks!Normalized(stacks[s]) # stacks[s]} \in SUBSET Stack
        BY DEF Stacks!Present
      <4> QED
        BY <1>1, <3>2, <4>1 DEF Stacks!List, StacksInv, StacksTyped
    <3> QED
      BY <3>1, <3>2
  <2>2. /\ stacksUp[p] = "down" /\ \E u \in {"seeding", "read"} : stacksUp' = [stacksUp EXCEPT ![p] = u]
        /\ UNCHANGED <<stacks, catalog, stacksReq, deleted>>
        /\ \A q \in Server \ {p} : stacksTodo'[q] = stacksTodo[q]
        /\ stacksUp'[p] = "seeding" => stacksTodo'[p] = Seeds
    BY <1>1 DEF Stacks!List, StacksInv, StacksTyped
  <2>3. StacksTyped'
    BY <1>0, <2>1, <2>2 DEF StacksInv, StacksTyped
  <2>4. Serving'
    BY <2>2, StackIdle DEF StacksInv, StacksTyped, Serving, StackRequest
  <2> QED
    BY <1>0, <2>2, <2>3, <2>4 DEF StacksInv
<1>2. CASE Stacks!Load(p)
  <2>1. /\ stacksTodo[p] = {} /\ catalog' = [catalog EXCEPT ![p] = stacksListed[p]]
        /\ stacksUp' = [stacksUp EXCEPT ![p] = "up"] /\ UNCHANGED <<stacks, stacksListed, stacksTodo, stacksReq, deleted>>
    BY <1>2 DEF Stacks!Load
  <2>2. StacksTyped'
    BY <1>0, <2>1 DEF StacksInv, StacksTyped
  <2>3. Serving'
    BY <2>1, StackIdle DEF StacksInv, StacksTyped, Serving, StackRequest
  <2> QED
    BY <1>0, <2>1, <2>2, <2>3 DEF StacksInv
<1>3. CASE Stacks!Stop(p)
  <2>1. /\ stacksReq' = [r \in Request |-> IF stacksReq[r].process = p THEN Stacks!Idle ELSE stacksReq[r]]
        /\ stacksUp' = [stacksUp EXCEPT ![p] = "down"] /\ UNCHANGED <<stacks, catalog, stacksListed, stacksTodo, deleted>>
    BY <1>3 DEF Stacks!Stop
  <2>2. StacksTyped'
    BY <1>0, <2>1 DEF StacksInv, StacksTyped
  <2>3. Serving'
    BY <2>1, StackIdle DEF StacksInv, StacksTyped, Serving, StackRequest
  <2> QED
    BY <1>0, <2>1, <2>2, <2>3 DEF StacksInv
<1>4. ASSUME NEW s \in Stack, Stacks!Seed(p, s)
      PROVE  StacksInv'
  <2>1. /\ UNCHANGED <<catalog, stacksListed, stacksReq>> /\ stacksUp[p] = "seeding"
        /\ \/ stacksUp' = [stacksUp EXCEPT ![p] = "down"] /\ UNCHANGED <<stacks, deleted, stacksTodo>>
           \/ /\ stacks' = [stacks EXCEPT ![s] = Stacks!Seeded] /\ deleted' = deleted \ {s}
              /\ stacksTodo' = [stacksTodo EXCEPT ![p] = stacksTodo[p] \ {s}] /\ UNCHANGED stacksUp
    BY <1>4 DEF Stacks!Seed, StacksInv, StacksTyped
  <2>2. StacksTyped'
    <3>1. stacks' \in [Stack -> WrittenContent]
      BY <2>1, SeedsAre DEF StacksInv, StacksTyped
    <3>2. stacksTodo' \in [Server -> SUBSET Stack]
      BY <2>1 DEF StacksInv, StacksTyped
    <3>3. stacksUp' \in [Server -> {"down", "seeding", "read", "up"}]
      BY <2>1 DEF StacksInv, StacksTyped
    <3> QED
      BY <1>0, <2>1, <3>1, <3>2, <3>3 DEF StacksInv, StacksTyped
  <2>3. Serving'
    <3>1. \A q \in Server : /\ stacksTodo'[q] \subseteq stacksTodo[q]
                            /\ stacksUp'[q] = stacksUp[q] \/ (q = p /\ stacksUp'[q] = "down")
      BY <2>1 DEF StacksInv, StacksTyped
    <3>2. \A r \in Request : stacksReq'[r] # Stacks!Idle => stacksReq[r].process # p /\ stacksReq[r].process \in Server
      BY <2>1 DEF StacksInv, StacksTyped, Serving, StackRequest
    <3> QED
      BY <2>1, <3>1, <3>2 DEF StacksInv, Serving
  <2>4. \A t \in deleted' : t \in Stack => stacks'[t] = Stacks!Gone
    BY <2>1 DEF StacksInv, StacksTyped
  <2> QED
    BY <2>2, <2>3, <2>4 DEF StacksInv, Stacks!Gone
<1>5. ASSUME NEW s \in Stack, Stacks!Migrate(p, s)
      PROVE  StacksInv'
  <2> DEFINE migrated == Stacks!Normalized(stacksListed[p][s])
  <2>1. /\ UNCHANGED <<catalog, stacksReq, stacksUp, deleted>> /\ stacksUp[p] = "read"
        /\ stacks' = IF stacks[s] = Stacks!Gone THEN stacks ELSE [stacks EXCEPT ![s] = migrated]
        /\ stacksListed' = [stacksListed EXCEPT ![p] = [stacksListed[p] EXCEPT ![s] = migrated]]
        /\ stacksTodo' = [stacksTodo EXCEPT ![p] = stacksTodo[p] \ {s}]
    BY <1>5 DEF Stacks!Migrate, StacksInv, StacksTyped
  <2>2. migrated \in WrittenContent
    BY Normal DEF StacksInv, StacksTyped, WrittenContent
  <2>3. StacksTyped'
    <3> HIDE DEF migrated
    <3>1. [stacksListed[p] EXCEPT ![s] = migrated] \in [Stack -> WrittenContent]
      BY <2>2 DEF StacksInv, StacksTyped
    <3> QED
      BY <1>0, <2>1, <2>2, <3>1 DEF StacksInv, StacksTyped
  <2> HIDE DEF migrated
  <2>4. Serving'
    BY <2>1, StackIdle DEF StacksInv, StacksTyped, Serving, StackRequest
  <2>5. \A t \in deleted' : t \in Stack => stacks'[t] = Stacks!Gone
    BY <2>1 DEF StacksInv, StacksTyped
  <2> QED
    BY <2>3, <2>4, <2>5 DEF StacksInv, Stacks!Gone
<1> QED
  BY <1>1, <1>2, <1>3, <1>4, <1>5

LEMMA MoreContent ==
    ASSUME NEW m \in Nat, NEW n \in Nat, m <= n
    PROVE  0..(2 + m) \subseteq 0..(2 + n)
OBVIOUS

\* The steps of a request.
LEMMA RequestStep ==
    ASSUME Stacks!SeedAssumption, StacksInv, NEW r \in Request, NEW p \in Server, NEW s \in Stack,
           Stacks!Create(r, p, s) \/ Stacks!Update(r, p, s) \/ Stacks!Delete(r, p, s)
    PROVE  StacksInv'
<1>0. stackEdits \in 0..MaxStackEdits /\ MaxStackEdits \in Nat
  BY DEF StacksInv, StacksTyped, Stacks!SeedAssumption
<1>1. /\ stackEdits' \in 0..MaxStackEdits /\ stackEdits <= stackEdits' /\ UNCHANGED <<catalog, stacksUp, stacksListed, stacksTodo>>
      /\ 2 + stackEdits' \in WrittenContent' /\ 0 \in WrittenContent' /\ 2 + stackEdits' # 0
  BY <1>0 DEF Stacks!Create, Stacks!Update, Stacks!Delete, Stacks!Edit, Stacks!Accept, Stacks!procVars,
     WrittenContent
<1>2. PICK k \in {"upsert", "remove"}, c \in WrittenContent' :
            /\ stacksReq' = [stacksReq EXCEPT ![r] = [kind |-> k, process |-> p, stack |-> s, content |-> c]]
            /\ stacks' = [stacks EXCEPT ![s] = c] /\ stacksUp[p] = "up"
            /\ deleted' \subseteq IF c = Stacks!Gone THEN deleted \cup {s} ELSE deleted \ {s}
  <2>1. CASE Stacks!Create(r, p, s)
    BY <1>1, <2>1 DEF Stacks!Create, Stacks!Accept, Stacks!Gone
  <2>2. CASE Stacks!Update(r, p, s)
    <3>1. s \notin deleted
      BY <2>2 DEF Stacks!Update, Stacks!Updates, StacksInv
    <3> QED
      BY <1>1, <2>2, <3>1 DEF Stacks!Update, Stacks!Accept, Stacks!Gone
  <2>3. CASE Stacks!Delete(r, p, s)
    BY <1>1, <2>3 DEF Stacks!Delete, Stacks!Accept, Stacks!Gone
  <2> QED
    BY <2>1, <2>2, <2>3
<1>3. WrittenContent \subseteq WrittenContent' /\ StackRequest \subseteq StackRequest'
  <2>1. WrittenContent \subseteq WrittenContent'
    <3>1. stackEdits \in Nat /\ stackEdits' \in Nat /\ stackEdits <= stackEdits'
      BY <1>0, <1>1
    <3> QED
      BY <3>1, MoreContent DEF WrittenContent
  <2> QED
    BY <2>1 DEF StackRequest
<1>4. StacksTyped'
  <2>1. [kind |-> k, process |-> p, stack |-> s, content |-> c] \in StackRequest'
    BY DEF StackRequest
  <2>2. stacksReq' \in [Request -> StackRequest' \cup {Stacks!Idle}]
    BY <1>2, <1>3, <2>1 DEF StacksInv, StacksTyped
  <2>3. stacks' \in [Stack -> WrittenContent']
    BY <1>2, <1>3 DEF StacksInv, StacksTyped
  <2>4. catalog' \in [Server -> [Stack -> WrittenContent']] /\ stacksListed' \in [Server -> [Stack -> WrittenContent']]
    BY <1>1, <1>3 DEF StacksInv, StacksTyped
  <2> QED
    BY <1>1, <2>2, <2>3, <2>4 DEF StacksInv, StacksTyped
<1>5. Serving'
  BY <1>1, <1>2 DEF StacksInv, StacksTyped, Serving
<1>6. \A t \in deleted' : t \in Stack => stacks'[t] = Stacks!Gone
  BY <1>2 DEF StacksInv, StacksTyped
<1> QED
  BY <1>4, <1>5, <1>6 DEF StacksInv, Stacks!Gone

LEMMA FinishStep ==
    ASSUME StacksInv, NEW r \in Request, Stacks!Finish(r)
    PROVE  StacksInv'
<1>1. /\ stacksReq[r] \in StackRequest /\ UNCHANGED <<stacks, stacksUp, stacksListed, stacksTodo, stackEdits, deleted>>
      /\ stacksReq' = [stacksReq EXCEPT ![r] = Stacks!Idle]
      /\ catalog' = [catalog EXCEPT ![stacksReq[r].process] =
                        [catalog[stacksReq[r].process] EXCEPT ![stacksReq[r].stack] = stacksReq[r].content]]
  BY DEF Stacks!Finish, StacksInv, StacksTyped
<1>2. WrittenContent' = WrittenContent /\ StackRequest' = StackRequest
  BY <1>1 DEF WrittenContent, StackRequest
<1>3. StacksTyped'
  <2>1. [catalog[stacksReq[r].process] EXCEPT ![stacksReq[r].stack] = stacksReq[r].content] \in [Stack -> WrittenContent]
    BY <1>1 DEF StacksInv, StacksTyped, StackRequest
  <2> QED
    BY <1>1, <1>2, <2>1 DEF StacksInv, StacksTyped
<1>4. Serving'
  BY <1>1, StackIdle DEF StacksInv, StacksTyped, Serving
<1> QED
  BY <1>1, <1>3, <1>4 DEF StacksInv

LEMMA StacksInvariance == ASSUME Stacks!SeedAssumption PROVE Stacks!Spec => []StacksInv
<1>1. ASSUME StacksInv, [Stacks!Next]_(Stacks!vars) PROVE StacksInv'
  <2>1. CASE UNCHANGED Stacks!vars
    BY <1>1, <2>1 DEF Stacks!vars, Stacks!procVars, StacksInv, StacksTyped, Serving, WrittenContent,
       StackRequest
  <2> QED
    BY <1>1, <2>1, ProcessStep, RequestStep, FinishStep DEF Stacks!Next
<1> QED
  BY <1>1, StacksStart, PTL DEF Stacks!Spec

\* The collection, the catalogs and the requests keep their types (TechStackService).
THEOREM StacksKeepTypes == ASSUME Stacks!SeedAssumption PROVE Stacks!Spec => []Stacks!TypeOK
<1>1. ASSUME StacksInv PROVE Stacks!TypeOK
  <2>1. WrittenContent \subseteq Stacks!Content
    BY <1>1 DEF StacksInv, StacksTyped, WrittenContent, Stacks!Content, Stacks!SeedAssumption
  <2>2. stacks \in [Stack -> Stacks!Content] /\ \A s \in Stack : stacks[s] <= 2 + stackEdits
    BY <1>1, <2>1 DEF StacksInv, StacksTyped, WrittenContent
  <2>3. catalog \in [Server -> [Stack -> Stacks!Content]]
    BY <1>1, <2>1 DEF StacksInv, StacksTyped
  <2> QED
    BY <1>1, <2>2, <2>3 DEF StacksInv, StacksTyped, Serving, Stacks!TypeOK
<1> QED
  BY <1>1, StacksInvariance, PTL

\* A stack a client has deleted comes back only by its creation, or with the
\* seeds of a process that started on an empty collection: no update, no
\* migration and no late step of any process revives it (find_one_and_update,
\* _synchronize_catalog).
THEOREM DeletionsStand == ASSUME Stacks!SeedAssumption PROVE Stacks!Spec => Stacks!DeletedStaysDeleted
<1> DEFINE A == \A s \in deleted : stacks'[s] # Stacks!Gone =>
                   \/ stackEdits' = stackEdits + 1 /\ stacks'[s] = 2 + stackEdits'
                   \/ s \in Seeds /\ stacks'[s] = Stacks!Seeded
<1>0. Stacks!Init => deleted \subseteq Stack
  BY DEF Stacks!Init
<1>1. deleted \subseteq Stack /\ [Stacks!Next]_(Stacks!vars) => (deleted \subseteq Stack)'
  BY DEF Stacks!Next, Stacks!vars, Stacks!List, Stacks!Load, Stacks!Stop, Stacks!Seed, Stacks!Migrate,
     Stacks!Create,
         Stacks!Update, Stacks!Delete, Stacks!Finish
<1>2. ASSUME StacksInv, deleted \subseteq Stack, Stacks!Next PROVE A
  <2> SUFFICES ASSUME NEW s \in deleted, stacks'[s] # Stacks!Gone
               PROVE  \/ stackEdits' = stackEdits + 1 /\ stacks'[s] = 2 + stackEdits'
                      \/ s \in Seeds /\ stacks'[s] = Stacks!Seeded
    OBVIOUS
  <2>0. s \in Stack /\ stacks[s] = Stacks!Gone /\ stacks'[s] # stacks[s] /\ stacks \in [Stack -> WrittenContent]
    BY <1>2 DEF StacksInv, StacksTyped
  <2>1. ASSUME NEW p \in Server, NEW t \in Stack, Stacks!Seed(p, t)
        PROVE  s \in Seeds /\ stacks'[s] = Stacks!Seeded
    BY <1>2, <2>0, <2>1 DEF Stacks!Seed, StacksInv, Serving
  <2>2. ASSUME NEW r \in Request, NEW p \in Server, NEW t \in Stack, Stacks!Create(r, p, t)
        PROVE  stackEdits' = stackEdits + 1 /\ stacks'[s] = 2 + stackEdits'
    BY <2>0, <2>2 DEF Stacks!Create, Stacks!Edit
  <2>3. ASSUME NEW r \in Request, NEW p \in Server, NEW t \in Stack, Stacks!Update(r, p, t) \/ Stacks!Delete(r, p, t)
        PROVE  FALSE
    BY <2>0, <2>3 DEF Stacks!Update, Stacks!Updates, Stacks!Delete
  <2>4. ASSUME NEW p \in Server, NEW t \in Stack, Stacks!Migrate(p, t)
        PROVE  FALSE
    BY <2>0, <2>4 DEF Stacks!Migrate
  <2>5. \A p \in Server : ~Stacks!List(p) /\ ~Stacks!Load(p) /\ ~Stacks!Stop(p)
    BY <2>0 DEF Stacks!List, Stacks!Load, Stacks!Stop
  <2>6. \A r \in Request : ~Stacks!Finish(r)
    BY <2>0 DEF Stacks!Finish
  <2> QED
    BY <1>2, <2>1, <2>2, <2>3, <2>4, <2>5, <2>6 DEF Stacks!Next
<1>3. StacksInv /\ deleted \subseteq Stack /\ [Stacks!Next]_(Stacks!vars) => [A]_<<stacks, stackEdits>>
  BY <1>2 DEF Stacks!vars
<1> QED
  BY <1>0, <1>1, <1>3, StacksInvariance, PTL DEF Stacks!Spec, Stacks!DeletedStaysDeleted

\* One process and one request: nobody else writes what the process has read.
LEMMA SameStep ==
    ASSUME Stacks!SeedAssumption, OneOfEach, StacksInv, NEW p \in Server, SameAs(p), [Stacks!Next]_(Stacks!vars)
    PROVE  SameAs(p)'
<1> USE DEF SameAs
<1>0. /\ stacks \in [Stack -> WrittenContent] /\ catalog \in [Server -> [Stack -> WrittenContent]]
      /\ stacksListed \in [Server -> [Stack -> WrittenContent]] /\ stacksTodo \in [Server -> SUBSET Stack]
      /\ stacksUp \in [Server -> {"down", "seeding", "read", "up"}] /\ stacksReq \in [Request -> StackRequest \cup {Stacks!Idle}]
      /\ Serving /\ stackEdits \in Nat
  BY DEF StacksInv, StacksTyped, Stacks!SeedAssumption
<1>1. stacksUp[p] # "up" => \A r \in Request : stacksReq[r] = Stacks!Idle
  BY <1>0 DEF OneOfEach, Serving, StackRequest
<1>2. CASE Stacks!List(p)
  <2>1. stacksUp[p] = "down" /\ UNCHANGED <<stacks, catalog, stacksReq>>
    BY <1>2 DEF Stacks!List
  <2>2. CASE Stacks!Present = {}
    <3>1. /\ stacksListed'[p] = Stacks!SeedCatalog /\ stacksTodo'[p] = Seeds /\ stacksUp'[p] = "seeding"
      BY <1>0, <1>2, <2>2 DEF Stacks!List
    <3>2. \A s \in Stack : stacks[s] = Stacks!Gone
      BY <2>2 DEF Stacks!Present
    <3> QED
      BY <1>1, <2>1, <3>1, <3>2, SeedsAre DEF StacksInv
  <2>3. CASE Stacks!Present # {}
    <3>1. /\ stacksListed'[p] = stacks /\ stacksTodo'[p] \subseteq Stacks!Present /\ stacksUp'[p] = "read"
      BY <1>0, <1>2, <2>3 DEF Stacks!List
    <3> QED
      BY <1>1, <2>1, <3>1 DEF Stacks!Present
  <2> QED
    BY <2>2, <2>3
<1>3. CASE Stacks!Load(p)
  <2>1. /\ stacksUp[p] \in {"seeding", "read"} /\ stacksTodo[p] = {} /\ catalog'[p] = stacksListed[p] /\ stacksUp'[p] = "up"
        /\ UNCHANGED <<stacks, stacksReq>>
    BY <1>0, <1>3 DEF Stacks!Load
  <2> QED
    BY <1>1, <2>1
<1>4. CASE Stacks!Stop(p)
  <2>1. stacksUp'[p] = "down" /\ UNCHANGED stacks /\ \A r \in Request : stacksReq'[r] \in {stacksReq[r], Stacks!Idle}
    BY <1>0, <1>4 DEF Stacks!Stop
  <2> QED
    BY <2>1
<1>5. ASSUME NEW s \in Stack, Stacks!Seed(p, s)
      PROVE  SameAs(p)'
  <2>1. stacksUp[p] = "seeding" /\ s \in stacksTodo[p] /\ stacks[s] = Stacks!Gone /\ UNCHANGED <<stacksReq, stacksListed>>
    BY <1>5 DEF Stacks!Seed
  <2>2. /\ stacks' = [stacks EXCEPT ![s] = Stacks!Seeded] /\ stacksTodo'[p] = stacksTodo[p] \ {s} /\ stacksUp'[p] = "seeding"
    BY <1>0, <1>5, <2>1 DEF Stacks!Seed
  <2>3. Stacks!SeedCatalog[s] = Stacks!Seeded
    BY <1>0, <2>1, SeedsAre DEF Serving, StacksInv
  <2>4. \A t \in Stack : stacks'[t] = IF t = s THEN Stacks!Seeded ELSE stacks[t]
    BY <1>0, <2>2
  <2> QED
    BY <1>1, <2>1, <2>2, <2>3, <2>4
<1>6. ASSUME NEW s \in Stack, Stacks!Migrate(p, s)
      PROVE  SameAs(p)'
  <2> DEFINE migrated == Stacks!Normalized(stacksListed[p][s])
  <2>1. stacksUp[p] = "read" /\ s \in stacksTodo[p] /\ UNCHANGED <<stacksReq, stacksUp>> /\ stacksTodo'[p] = stacksTodo[p] \ {s}
    BY <1>0, <1>6 DEF Stacks!Migrate
  <2>2. \A t \in Stack : /\ stacks'[t] = IF t = s THEN migrated ELSE stacks[t]
                         /\ stacksListed'[p][t] = IF t = s THEN migrated ELSE stacksListed[p][t]
    BY <1>0, <1>6, <2>1 DEF Stacks!Migrate
  <2>3. migrated # Stacks!Gone
    BY <1>0, <2>1, Normal DEF WrittenContent
  <2>4. \A t \in stacksTodo[p] : t \in Stack
    BY <1>0
  <2> HIDE DEF migrated
  <2>5. \A t \in Stack : stacksListed'[p][t] = stacks'[t]
    BY <2>1, <2>2
  <2>6. \A t \in stacksTodo'[p] : stacks'[t] # Stacks!Gone
    BY <2>1, <2>2, <2>3, <2>4
  <2> QED
    BY <1>1, <2>1, <2>5, <2>6
<1>7. ASSUME NEW r \in Request, NEW s \in Stack, Stacks!Create(r, p, s) \/ Stacks!Update(r, p, s) \/ Stacks!Delete(r, p, s)
      PROVE  SameAs(p)'
  <2>1. /\ UNCHANGED <<catalog, stacksUp, stacksListed, stacksTodo>> /\ stacksUp[p] = "up" /\ stacksReq[r] = Stacks!Idle
        /\ \E c \in {0, 2 + stackEdits'} :
              /\ stacks' = [stacks EXCEPT ![s] = c]
              /\ \E k \in {"upsert", "remove"} :
                    stacksReq' = [stacksReq EXCEPT ![r] = [kind |-> k, process |-> p, stack |-> s, content |-> c]]
    <3>1. CASE Stacks!Create(r, p, s)
      BY <1>0, <3>1 DEF Stacks!Create, Stacks!Edit, Stacks!Accept, Stacks!procVars
    <3>2. CASE Stacks!Update(r, p, s)
      BY <1>0, <3>2 DEF Stacks!Update, Stacks!Edit, Stacks!Accept, Stacks!procVars
    <3>3. CASE Stacks!Delete(r, p, s)
      BY <1>0, <3>3 DEF Stacks!Delete, Stacks!Edit, Stacks!Accept, Stacks!procVars, Stacks!Gone
    <3> QED
      BY <1>7, <3>1, <3>2, <3>3
  <2>2. \A q \in Request : q = r
    BY DEF OneOfEach
  <2> QED
    BY <1>0, <2>1, <2>2, StackIdle
<1>8. ASSUME NEW r \in Request, Stacks!Finish(r)
      PROVE  SameAs(p)'
  <2>1. stacksReq[r] # Stacks!Idle /\ stacksReq[r] \in StackRequest /\ stacksReq[r].process = p
    BY <1>0, <1>8 DEF Stacks!Finish, OneOfEach, StackRequest
  <2>2. /\ UNCHANGED <<stacks, stacksUp, stacksListed, stacksTodo>> /\ stacksReq'[r] = Stacks!Idle
        /\ \A t \in Stack : catalog'[p][t] = IF t = stacksReq[r].stack THEN stacksReq[r].content ELSE catalog[p][t]
    BY <1>0, <1>8, <2>1 DEF Stacks!Finish
  <2>3. \A q \in Request : q = r
    BY DEF OneOfEach
  <2>4. \A t \in Stack : t # stacksReq[r].stack => catalog[p][t] = stacks[t]
    BY <1>0, <2>1, <2>3 DEF Serving
  <2> QED
    BY <1>0, <2>1, <2>2, <2>3, <2>4 DEF Serving
<1>9. CASE UNCHANGED Stacks!vars
  BY <1>9 DEF Stacks!vars, Stacks!procVars
<1>10. \A q \in Server : q = p
  BY DEF OneOfEach
<1> QED
  BY <1>2, <1>3, <1>4, <1>5, <1>6, <1>7, <1>8, <1>9, <1>10 DEF Stacks!Next

LEMMA SameInvariance ==
    ASSUME Stacks!SeedAssumption, OneOfEach
    PROVE  Stacks!Spec => [](StacksInv /\ \A p \in Server : SameAs(p))
<1>1. Stacks!Init => \A p \in Server : SameAs(p)
  BY DEF Stacks!Init, SameAs
<1>2. StacksInv /\ (\A p \in Server : SameAs(p)) /\ [Stacks!Next]_(Stacks!vars) => (\A p \in Server : SameAs(p))'
  BY SameStep
<1> QED
  BY <1>1, <1>2, StacksInvariance, PTL DEF Stacks!Spec

\* Of one process with one request at a time: with no request in flight a process
\* composes from what is stored ("CRUD changes are synchronized to the Compose
\* composer", docs/architecture.md:68).
LEMMA CatalogIsStored ==
    ASSUME Stacks!SeedAssumption, OneOfEach
    PROVE  Stacks!Spec => []Stacks!CatalogFollows
<1>1. ASSUME StacksInv, \A p \in Server : SameAs(p) PROVE Stacks!CatalogFollows
  <2> SUFFICES ASSUME NEW p \in Server, Stacks!Settled(p) PROVE catalog[p] = stacks
    BY DEF Stacks!CatalogFollows
  <2>1. \A s \in Stack : catalog[p][s] = stacks[s]
    BY <1>1 DEF SameAs, Stacks!Settled
  <2>2. catalog[p] \in [Stack -> WrittenContent] /\ stacks \in [Stack -> WrittenContent]
    BY <1>1 DEF StacksInv, StacksTyped
  <2> QED
    BY <2>1, <2>2
<1> QED
  BY <1>1, SameInvariance, PTL

\* Of one process: a start never replaces what the user has written
\* (_synchronize_catalog).
LEMMA EditsKept ==
    ASSUME Stacks!SeedAssumption, OneOfEach
    PROVE  Stacks!Spec => Stacks!EditsSurviveStart
<1> DEFINE A == \A s \in Stack : stacks[s] > Stacks!Seeded /\ stackEdits' = stackEdits => stacks'[s] \in {stacks[s], Stacks!Gone}
<1>1. ASSUME StacksInv, \A p \in Server : SameAs(p), Stacks!Next PROVE A
  <2> SUFFICES ASSUME NEW s \in Stack, stacks[s] > Stacks!Seeded, stackEdits' = stackEdits
               PROVE  stacks'[s] \in {stacks[s], Stacks!Gone}
    OBVIOUS
  <2>0. stacks \in [Stack -> WrittenContent] /\ stackEdits \in Nat /\ stacks[s] # Stacks!Gone
    BY <1>1 DEF StacksInv, StacksTyped, Stacks!SeedAssumption, Stacks!Gone, Stacks!Seeded
  <2>1. ASSUME NEW p \in Server, NEW t \in Stack, Stacks!Seed(p, t) PROVE stacks'[s] = stacks[s]
    BY <2>0, <2>1 DEF Stacks!Seed
  <2>2. ASSUME NEW p \in Server, NEW t \in Stack, Stacks!Migrate(p, t) PROVE stacks'[s] = stacks[s]
    <3>1. stacksListed[p][t] = stacks[t] /\ stacks[t] \in 0..(2 + stackEdits)
      BY <1>1, <2>0, <2>2 DEF Stacks!Migrate, SameAs, WrittenContent
    <3>2. stacks'[s] = IF s = t THEN Stacks!Normalized(stacks[s]) ELSE stacks[s]
      BY <2>0, <2>2, <3>1 DEF Stacks!Migrate
    <3> QED
      BY <2>0, <3>1, <3>2, Normal
  <2>3. ASSUME NEW r \in Request, NEW p \in Server, NEW t \in Stack,
               Stacks!Create(r, p, t) \/ Stacks!Update(r, p, t) \/ Stacks!Delete(r, p, t)
        PROVE  stacks'[s] \in {stacks[s], Stacks!Gone}
    BY <2>0, <2>3 DEF Stacks!Create, Stacks!Update, Stacks!Delete, Stacks!Edit
  <2>4. ASSUME NEW p \in Server, Stacks!List(p) \/ Stacks!Load(p) \/ Stacks!Stop(p) PROVE stacks' = stacks
    BY <2>4 DEF Stacks!List, Stacks!Load, Stacks!Stop
  <2>5. ASSUME NEW r \in Request, Stacks!Finish(r) PROVE stacks' = stacks
    BY <2>5 DEF Stacks!Finish
  <2> QED
    BY <1>1, <2>1, <2>2, <2>3, <2>4, <2>5 DEF Stacks!Next
<1>2. StacksInv /\ (\A p \in Server : SameAs(p)) /\ [Stacks!Next]_(Stacks!vars) => [A]_<<stacks, stackEdits>>
  BY <1>1 DEF Stacks!vars
<1> QED
  BY <1>2, SameInvariance, PTL DEF Stacks!Spec, Stacks!EditsSurviveStart

\* Of one process that serves one request at a time, all that is promised of the
\* stacks: the catalog follows the collection, and what is deleted stays deleted and
\* what is edited edited (TechStackService, _synchronize_catalog).
THEOREM StacksKept == ASSUME Stacks!SeedAssumption, OneOfEach PROVE Stacks!Spec => StacksSafe
  BY CatalogIsStored, DeletionsStand, EditsKept DEF StacksSafe

-----------------------------------------------------------------------------
(***************************************************************************)
(* An application record (Applications).  What concurrent requests may do  *)
(* to it, and what they may not when they come one at a time: then nobody  *)
(* else writes between a request's reading and its writing, and from the   *)
(* write to the check the request has the record as it is.                 *)
(***************************************************************************)
Found == Apps!Commit \cup {Apps!NoCommit}
AppRequest ==
    [pc : {"idle", "create", "update", "sync", "resolve", "save", "schedule"}, kind : {"none", "create", "update", "sync"},
     names : SUBSET {"ref", "route", "compose"}, ref : Branch, route : BOOLEAN,
     commit : Found, source : Found, since : [Branch -> 0..MaxHead]]

AppTyped ==
    /\ head \in [Branch -> 1..MaxHead]
    /\ app \in [exists : BOOLEAN, ref : Branch, route : BOOLEAN, compose : Apps!Document, source : Found]
    /\ appWrote \in [ref : Branch, route : BOOLEAN]
    /\ appReq \in [Client -> AppRequest]

\* What exists stays: commits are only added, so what a request has resolved
\* since it came in is no older than the head was then.
Resolved(r) ==
    /\ \A b \in Branch : appReq[r].since[b] <= head[b]
    /\ appReq[r].commit # Apps!NoCommit =>
          /\ appReq[r].commit.n <= head[appReq[r].commit.branch]
          /\ appReq[r].commit.n >= appReq[r].since[appReq[r].commit.branch]
    /\ appReq[r].pc \in {"create", "update", "sync"} => appReq[r].kind = appReq[r].pc
    /\ appReq[r].pc = "resolve" => appReq[r].kind = "update"
    /\ appReq[r].kind = "sync" /\ appReq[r].pc = "save" => appReq[r].source # Apps!NoCommit
AppInv ==
    /\ AppTyped
    /\ checks \subseteq {c \in Apps!Commit : c.n <= head[c.branch]}
    /\ \A r \in Client : Resolved(r)
    /\ Apps!ComposeIsSource /\ Apps!LastWriteStands

\* With one request at a time: what the one has in hand.
InTurn(r) ==
    /\ appReq[r].pc \in {"create", "update", "sync", "resolve"} => appReq[r].commit = Apps!NoCommit
    /\ appReq[r].commit # Apps!NoCommit => appReq[r].commit.branch = appReq[r].ref \/ appReq[r].kind = "sync"
    /\ appReq[r].pc = "save" /\ appReq[r].kind = "create" =>
          appReq[r].source \in {Apps!NoCommit, appReq[r].commit}
    /\ appReq[r].pc \in {"resolve", "save"} /\ appReq[r].kind = "update" =>
          /\ "ref" \notin appReq[r].names => appReq[r].ref = app.ref
          /\ "route" \notin appReq[r].names => appReq[r].route = app.route
    /\ appReq[r].pc = "save" /\ appReq[r].kind = "sync" =>
          appReq[r].source.branch = app.ref /\ appReq[r].commit = appReq[r].source
    /\ appReq[r].pc = "schedule" =>
          /\ appReq[r].ref = app.ref /\ appReq[r].route = app.route
          /\ appReq[r].commit # Apps!NoCommit => appReq[r].commit.branch = app.ref
Writing == \E r \in Client : appReq[r].pc = "schedule"
SerialInv ==
    /\ Apps!OneAtATime /\ (\A r \in Client : InTurn(r))
    /\ Apps!SourceMatchesRef
    /\ app.exists /\ app.route /\ ~Writing => \E c \in checks : c.branch = app.ref

LEMMA AppFacts ==
    ASSUME Apps!BoundAssumption
    PROVE  /\ Apps!NoCommit \notin Apps!Commit /\ Apps!AnyBranch \in Branch
           /\ Apps!Idle \in AppRequest /\ Apps!Idle.pc = "idle" /\ Apps!Idle.commit = Apps!NoCommit
           /\ Apps!Idle.kind = "none" /\ Apps!Idle.source = Apps!NoCommit /\ \A b \in Branch : Apps!Idle.since[b] = 0
           /\ Found \subseteq Apps!Document \cup {Apps!NoCommit}
<1>1. Apps!AnyBranch \in Branch
  BY DEF Apps!AnyBranch, Apps!BoundAssumption
<1>2. Apps!NoCommit \notin Apps!Commit
  BY DEF Apps!NoCommit, Apps!Commit
<1>3. [b \in Branch |-> 0] \in [Branch -> 0..MaxHead]
  BY DEF Apps!BoundAssumption
<1> QED
  BY <1>1, <1>2, <1>3 DEF Apps!Idle, AppRequest, Found, Apps!Document

\* The head of a branch is a commit, and nobody has one that is newer.
LEMMA HeadIs ==
    ASSUME Apps!BoundAssumption, AppTyped, NEW b \in Branch
    PROVE  Apps!Head(b) \in Apps!Commit /\ Apps!Head(b).branch = b /\ Apps!Head(b).n = head[b]
BY DEF AppTyped, Apps!Head, Apps!Commit

LEMMA AppStart == ASSUME Apps!BoundAssumption, Apps!Init PROVE AppInv
<1>1. \A b \in Branch : head[b] = 1
  BY DEF Apps!Init
<1>2. AppTyped
  BY AppFacts DEF Apps!BoundAssumption, Apps!Init, AppTyped, Found, Apps!Document
<1>3. \A r \in Client : Resolved(r)
  BY <1>1, AppFacts DEF Apps!Init, Resolved
<1> QED
  BY <1>2, <1>3 DEF Apps!Init, AppInv, Apps!ComposeIsSource, Apps!LastWriteStands

\* A step of one request that neither pushes nor checks.
LEMMA RequestKeeps ==
    ASSUME Apps!BoundAssumption, AppInv, NEW r \in Client, NEW q \in AppRequest, appReq' = [appReq EXCEPT ![r] = q],
           UNCHANGED <<head, app, checks, appWrote>>, Resolved(r)'
    PROVE  AppInv'
<1>1. AppTyped'
  BY DEF AppInv, AppTyped
<1>2. \A s \in Client : Resolved(s)'
  BY DEF AppInv, AppTyped, Resolved
<1> QED
  BY <1>1, <1>2 DEF AppInv, Apps!ComposeIsSource, Apps!LastWriteStands

LEMMA ReadingStep ==
    ASSUME Apps!BoundAssumption, AppInv, NEW r \in Client,
           \/ \E k \in {"create", "update", "sync"}, names \in SUBSET {"ref", "route", "compose"}, asked \in Branch, route \in BOOLEAN :
                 Apps!Accept(r, k, names, asked, route)
           \/ Apps!Refuse(r) \/ Apps!Fail(r) \/ Apps!Discover(r) \/ Apps!ReadForUpdate(r) \/ Apps!Resolve(r) \/ Apps!Inspect(r)
    PROVE  AppInv'
<1>0. appReq \in [Client -> AppRequest] /\ AppTyped /\ app.ref \in Branch /\ app.route \in BOOLEAN
      /\ appReq[r] \in AppRequest /\ Resolved(r) /\ head \in [Branch -> 1..MaxHead] /\ MaxHead \in Nat
  BY DEF AppInv, AppTyped, Apps!BoundAssumption
<1>1. ASSUME NEW k \in {"create", "update", "sync"}, NEW names \in SUBSET {"ref", "route", "compose"}, NEW asked \in Branch,
             NEW route \in BOOLEAN, Apps!Accept(r, k, names, asked, route)
      PROVE  AppInv'
  <2> DEFINE q == [Apps!Idle EXCEPT !.pc = k, !.kind = k, !.names = names, !.ref = asked, !.route = route, !.since = head]
  <2>0. head \in [Branch -> 0..MaxHead] /\ \A b \in Branch : head[b] <= head[b]
    BY <1>0
  <2>1. /\ q \in AppRequest /\ q.commit = Apps!NoCommit /\ q.since = head
        /\ q.kind = q.pc /\ q.pc \notin {"save", "resolve"}
    BY <2>0, AppFacts DEF AppRequest
  <2>2. appReq' = [appReq EXCEPT ![r] = q] /\ UNCHANGED <<head, app, checks, appWrote>>
    BY <1>1 DEF Apps!Accept
  <2> HIDE DEF q
  <2>3. Resolved(r)'
    BY <1>0, <2>0, <2>1, <2>2 DEF Resolved
  <2> QED
    BY <2>1, <2>2, <2>3, RequestKeeps
<1>2. CASE Apps!Refuse(r) \/ Apps!Fail(r)
  <2>1. appReq' = [appReq EXCEPT ![r] = Apps!Idle] /\ UNCHANGED <<head, app, checks, appWrote>>
    BY <1>2 DEF Apps!Refuse, Apps!Fail
  <2>2. Resolved(r)'
    BY <1>0, <2>1, AppFacts DEF Resolved
  <2> QED
    BY <2>1, <2>2, AppFacts, RequestKeeps
<1>3. CASE Apps!Discover(r)
  <2>1. PICK c \in {Apps!NoCommit, Apps!Head(appReq[r].ref)}, s \in {Apps!NoCommit, Apps!Head(appReq[r].ref)} :
           /\ appReq' = [appReq EXCEPT ![r] = [appReq[r] EXCEPT !.pc = "save", !.source = s, !.commit = c]]
           /\ UNCHANGED <<head, app, checks, appWrote>>
    BY <1>0, <1>3 DEF Apps!Discover
  <2>2. {c, s} \subseteq Found /\ (c # Apps!NoCommit => c.branch \in Branch /\ c.n = head[c.branch])
    BY <1>0, <2>1, HeadIs DEF Found, AppRequest
  <2>3. [appReq[r] EXCEPT !.pc = "save", !.source = s, !.commit = c] \in AppRequest
    BY <1>0, <2>2 DEF AppRequest
  <2>4. appReq[r].kind \notin {"none", "sync"}
    BY <1>0, <1>3 DEF Resolved, Apps!Discover
  <2>5. Resolved(r)'
    BY <1>0, <2>1, <2>2, <2>4 DEF Resolved, AppRequest
  <2> QED
    BY <2>1, <2>3, <2>5, RequestKeeps
<1>4. CASE Apps!ReadForUpdate(r)
  <2>1. PICK asked \in Branch, route \in BOOLEAN :
           /\ appReq' = [appReq EXCEPT ![r] = [appReq[r] EXCEPT !.pc = "resolve", !.ref = asked, !.route = route]]
           /\ UNCHANGED <<head, app, checks, appWrote>>
    <3> DEFINE asked == IF "ref" \in appReq[r].names THEN appReq[r].ref ELSE app.ref
               route == IF "route" \in appReq[r].names THEN appReq[r].route ELSE app.route
    <3>1. appReq' = [appReq EXCEPT ![r] = [appReq[r] EXCEPT !.pc = "resolve", !.ref = asked, !.route = route]]
      BY <1>4 DEF Apps!ReadForUpdate
    <3>2. asked \in Branch /\ route \in BOOLEAN
      BY <1>0 DEF AppRequest
    <3>3. UNCHANGED <<head, app, checks, appWrote>>
      BY <1>4 DEF Apps!ReadForUpdate
    <3> HIDE DEF asked, route
    <3> QED
      BY <3>1, <3>2, <3>3
  <2>2. [appReq[r] EXCEPT !.pc = "resolve", !.ref = asked, !.route = route] \in AppRequest
    BY <1>0 DEF AppRequest
  <2>3. appReq[r].kind = "update"
    BY <1>0, <1>4 DEF Resolved, Apps!ReadForUpdate
  <2>4. Resolved(r)'
    BY <1>0, <2>1, <2>3 DEF Resolved, AppRequest
  <2> QED
    BY <2>1, <2>2, <2>4, RequestKeeps
<1>5. CASE Apps!Resolve(r)
  <2>1. PICK c \in {Apps!NoCommit, Apps!Head(appReq[r].ref)} :
           /\ appReq' = [appReq EXCEPT ![r] = [appReq[r] EXCEPT !.pc = "save", !.commit = c]]
           /\ UNCHANGED <<head, app, checks, appWrote>>
    BY <1>0, <1>5 DEF Apps!Resolve
  <2>2. c \in Found /\ (c # Apps!NoCommit => c.branch \in Branch /\ c.n = head[c.branch])
    BY <1>0, <2>1, HeadIs DEF Found, AppRequest
  <2>3. [appReq[r] EXCEPT !.pc = "save", !.commit = c] \in AppRequest
    BY <1>0, <2>2 DEF AppRequest
  <2>4. appReq[r].kind \notin {"none", "sync"}
    BY <1>0, <1>5 DEF Resolved, Apps!Resolve
  <2>5. Resolved(r)'
    BY <1>0, <2>1, <2>2, <2>4 DEF Resolved, AppRequest
  <2> QED
    BY <2>1, <2>3, <2>5, RequestKeeps
<1>6. CASE Apps!Inspect(r)
  <2>1. /\ appReq' = [appReq EXCEPT ![r] = [appReq[r] EXCEPT !.pc = "save", !.commit = Apps!Head(app.ref), !.source = Apps!Head(app.ref)]]
        /\ UNCHANGED <<head, app, checks, appWrote>>
    BY <1>0, <1>6 DEF Apps!Inspect
  <2>2. Apps!Head(app.ref) \in Found \ {Apps!NoCommit} /\ Apps!Head(app.ref).branch \in Branch
        /\ Apps!Head(app.ref).n = head[Apps!Head(app.ref).branch]
    BY <1>0, HeadIs, AppFacts DEF Found
  <2>3. [appReq[r] EXCEPT !.pc = "save", !.commit = Apps!Head(app.ref), !.source = Apps!Head(app.ref)] \in AppRequest
    BY <1>0, <2>2 DEF AppRequest
  <2>5. Resolved(r)'
    BY <1>0, <2>1, <2>2 DEF Resolved, AppRequest
  <2> QED
    BY <2>1, <2>3, <2>5, RequestKeeps
<1> QED
  BY <1>1, <1>2, <1>3, <1>4, <1>5, <1>6

LEMMA WritingStep ==
    ASSUME Apps!BoundAssumption, AppInv, NEW r \in Client,
           Apps!Create(r) \/ Apps!Update(r) \/ Apps!Synchronize(r)
    PROVE  AppInv'
<1>0. /\ appReq \in [Client -> AppRequest] /\ appReq[r] \in AppRequest /\ head \in [Branch -> 1..MaxHead]
      /\ app \in [exists : BOOLEAN, ref : Branch, route : BOOLEAN, compose : Apps!Document, source : Found]
      /\ appWrote \in [ref : Branch, route : BOOLEAN] /\ \A s \in Client : Resolved(s)
  BY DEF AppInv, AppTyped
<1>1. ASSUME app' \in [exists : BOOLEAN, ref : Branch, route : BOOLEAN, compose : Apps!Document, source : Found],
             appWrote' \in [ref : Branch, route : BOOLEAN],
             Apps!Written(r), UNCHANGED <<head, checks>>, Apps!ComposeIsSource', Apps!LastWriteStands'
      PROVE  AppInv'
  <2> DEFINE q == [appReq[r] EXCEPT !.pc = "schedule", !.ref = app'.ref, !.route = app'.route]
  <2>1. appReq' = [appReq EXCEPT ![r] = q]
    BY <1>0, <1>1 DEF Apps!Written
  <2>2. q \in AppRequest /\ q.pc = "schedule" /\ q.commit = appReq[r].commit /\ q.since = appReq[r].since
    BY <1>0, <1>1 DEF AppRequest
  <2> HIDE DEF q
  <2>3. \A s \in Client : Resolved(s)'
    <3> SUFFICES ASSUME NEW s \in Client PROVE Resolved(s)'
      OBVIOUS
    <3>1. CASE s = r
      BY <1>0, <1>1, <2>1, <2>2, <3>1 DEF Resolved
    <3>2. CASE s # r
      BY <1>0, <1>1, <2>1, <3>2 DEF Resolved
    <3> QED
      BY <3>1, <3>2
  <2> QED
    BY <1>0, <1>1, <2>1, <2>2, <2>3 DEF AppInv, AppTyped
<1>2. CASE Apps!Create(r)
  <2>1. CASE app.exists
    <3>1. appReq' = [appReq EXCEPT ![r] = Apps!Idle] /\ UNCHANGED <<head, app, checks, appWrote>>
      BY <1>2, <2>1 DEF Apps!Create
    <3>2. Resolved(r)'
      BY <1>0, <3>1, AppFacts DEF Resolved
    <3> QED
      BY <3>1, <3>2, AppFacts, RequestKeeps
  <2>2. CASE ~app.exists
    <3>1. /\ app' = [exists |-> TRUE, ref |-> appReq[r].ref, route |-> appReq[r].route, source |-> appReq[r].source,
                     compose |-> IF appReq[r].source = Apps!NoCommit THEN Apps!ByUser ELSE appReq[r].source]
          /\ appWrote' = [ref |-> appReq[r].ref, route |-> appReq[r].route]
          /\ Apps!Written(r) /\ UNCHANGED <<head, checks>>
      BY <1>2, <2>2 DEF Apps!Create
    <3>2. app' \in [exists : BOOLEAN, ref : Branch, route : BOOLEAN, compose : Apps!Document, source : Found]
      BY <1>0, <3>1 DEF AppRequest, Found, Apps!Document
    <3>3. appWrote' \in [ref : Branch, route : BOOLEAN]
      BY <1>0, <3>1 DEF AppRequest
    <3>4. Apps!ComposeIsSource' /\ Apps!LastWriteStands'
      BY <3>1 DEF Apps!ComposeIsSource, Apps!LastWriteStands
    <3> QED
      BY <1>1, <3>1, <3>2, <3>3, <3>4
  <2> QED
    BY <2>1, <2>2
<1>3. CASE Apps!Update(r)
  <2>1. /\ app' = [app EXCEPT !.ref = IF "ref" \in appReq[r].names THEN appReq[r].ref ELSE app.ref,
                              !.route = IF "route" \in appReq[r].names THEN appReq[r].route ELSE app.route,
                              !.compose = IF "compose" \in appReq[r].names THEN Apps!ByUser ELSE app.compose,
                              !.source = IF appReq[r].names \cap {"compose", "ref"} # {} THEN Apps!NoCommit ELSE app.source]
        /\ appWrote' = [ref |-> IF "ref" \in appReq[r].names THEN appReq[r].ref ELSE appWrote.ref,
                        route |-> IF "route" \in appReq[r].names THEN appReq[r].route ELSE appWrote.route]
        /\ Apps!Written(r) /\ UNCHANGED <<head, checks>>
    BY <1>0, <1>3 DEF Apps!Update, Apps!Fields, Apps!Source
  <2>2. app' \in [exists : BOOLEAN, ref : Branch, route : BOOLEAN, compose : Apps!Document, source : Found]
    BY <1>0, <2>1 DEF AppRequest, Found, Apps!Document
  <2>3. appWrote' \in [ref : Branch, route : BOOLEAN]
    BY <1>0, <2>1 DEF AppRequest
  <2>4. Apps!ComposeIsSource'
    BY <1>0, <2>1 DEF AppInv, Apps!ComposeIsSource
  <2>5. Apps!LastWriteStands'
    BY <1>0, <2>1 DEF AppInv, Apps!LastWriteStands
  <2> QED
    BY <1>1, <2>1, <2>2, <2>3, <2>4, <2>5
<1>4. CASE Apps!Synchronize(r)
  <2>1. /\ app' = [app EXCEPT !.compose = appReq[r].source, !.source = appReq[r].source]
        /\ Apps!Written(r) /\ UNCHANGED <<head, checks, appWrote>> /\ appReq[r].source # Apps!NoCommit
    BY <1>0, <1>4 DEF Apps!Synchronize, Resolved
  <2>2. app' \in [exists : BOOLEAN, ref : Branch, route : BOOLEAN, compose : Apps!Document, source : Found]
    BY <1>0, <2>1 DEF AppRequest, Found, Apps!Document
  <2>3. Apps!ComposeIsSource' /\ Apps!LastWriteStands'
    BY <1>0, <2>1 DEF AppInv, Apps!ComposeIsSource, Apps!LastWriteStands
  <2> QED
    BY <1>0, <1>1, <2>1, <2>2, <2>3
<1> QED
  BY <1>2, <1>3, <1>4

\* What a check is scheduled of is a commit that is there, and was the head
\* of its branch since the request came in.
LEMMA CheckedIs ==
    ASSUME Apps!BoundAssumption, AppInv, NEW r \in Client
    PROVE  /\ Apps!Checked(r) \in Apps!Commit /\ Apps!Checked(r).n <= head[Apps!Checked(r).branch]
           /\ Apps!Checked(r).n >= appReq[r].since[Apps!Checked(r).branch]
<1>0. appReq[r] \in AppRequest /\ AppTyped /\ Resolved(r) /\ appReq[r].ref \in Branch
  BY DEF AppInv, AppTyped, AppRequest
<1>1. CASE appReq[r].commit # Apps!NoCommit
  BY <1>0, <1>1 DEF Apps!Checked, Resolved, AppRequest, Found
<1>2. CASE appReq[r].commit = Apps!NoCommit
  <2>1. Apps!Checked(r) = Apps!Head(appReq[r].ref)
    BY <1>2 DEF Apps!Checked
  <2>2. appReq[r].since[appReq[r].ref] <= head[appReq[r].ref] /\ head[appReq[r].ref] \in 1..MaxHead
    BY <1>0 DEF Resolved, AppTyped
  <2> QED
    BY <1>0, <2>1, <2>2, HeadIs DEF Apps!BoundAssumption
<1> QED
  BY <1>1, <1>2

LEMMA AppStep ==
    ASSUME Apps!BoundAssumption, AppInv, [Apps!Next]_(Apps!vars)
    PROVE  AppInv'
<1>0. /\ appReq \in [Client -> AppRequest] /\ head \in [Branch -> 1..MaxHead] /\ AppTyped
      /\ checks \subseteq {c \in Apps!Commit : c.n <= head[c.branch]}
      /\ (\A r \in Client : Resolved(r)) /\ MaxHead \in Nat
  BY DEF AppInv, AppTyped, Apps!BoundAssumption
<1>1. ASSUME NEW b \in Branch, Apps!Push(b) PROVE AppInv'
  <2>1. /\ head' = [head EXCEPT ![b] = head[b] + 1] /\ head[b] < MaxHead /\ UNCHANGED <<app, checks, appReq, appWrote>>
    BY <1>1 DEF Apps!Push
  <2>2. head' \in [Branch -> 1..MaxHead] /\ \A d \in Branch : head[d] <= head'[d]
    BY <1>0, <2>1
  <2>3. AppTyped'
    BY <2>1, <2>2 DEF AppInv, AppTyped
  <2>4. \A c \in Apps!Commit : c.branch \in Branch /\ c.n \in 1..MaxHead
    BY DEF Apps!Commit
  <2>5. checks' \subseteq {c \in Apps!Commit : c.n <= head'[c.branch]}
    BY <1>0, <2>1, <2>2, <2>4
  <2>6. ASSUME NEW r \in Client PROVE Resolved(r)'
    <3>1. \A d \in Branch : appReq[r].since[d] \in 0..MaxHead /\ appReq[r].since[d] <= head'[d]
      BY <1>0, <2>2 DEF Resolved, AppRequest
    <3>2. appReq[r].commit # Apps!NoCommit => appReq[r].commit.n <= head'[appReq[r].commit.branch]
      BY <1>0, <2>2, <2>4 DEF Resolved, AppRequest, Found
    <3> QED
      BY <1>0, <2>1, <3>1, <3>2 DEF Resolved
  <2> QED
    BY <2>1, <2>3, <2>5, <2>6 DEF AppInv, Apps!ComposeIsSource, Apps!LastWriteStands
<1>2. CASE Apps!Restart
  <2>1. appReq' = [r \in Client |-> Apps!Idle] /\ UNCHANGED <<head, app, checks, appWrote>>
    BY <1>2 DEF Apps!Restart
  <2>2. AppTyped' /\ \A r \in Client : Resolved(r)'
    BY <1>0, <2>1, AppFacts DEF AppTyped, Resolved
  <2> QED
    BY <2>1, <2>2 DEF AppInv, Apps!ComposeIsSource, Apps!LastWriteStands
<1>3. ASSUME NEW r \in Client, Apps!Schedule(r) PROVE AppInv'
  <2>1. /\ checks' \subseteq checks \cup {Apps!Checked(r)} /\ appReq' = [appReq EXCEPT ![r] = Apps!Idle]
        /\ UNCHANGED <<head, app, appWrote>>
    BY <1>3 DEF Apps!Schedule
  <2>2. AppTyped' /\ \A s \in Client : Resolved(s)'
    BY <1>0, <2>1, AppFacts DEF AppTyped, Resolved
  <2>3. checks' \subseteq {c \in Apps!Commit : c.n <= head'[c.branch]}
    BY <1>0, <2>1, CheckedIs
  <2> QED
    BY <2>1, <2>2, <2>3 DEF AppInv, Apps!ComposeIsSource, Apps!LastWriteStands
<1>4. CASE UNCHANGED Apps!vars
  BY <1>4 DEF Apps!vars, AppInv, AppTyped, Resolved, Apps!ComposeIsSource, Apps!LastWriteStands
<1> QED
  BY <1>1, <1>2, <1>3, <1>4, ReadingStep, WritingStep, AppFacts DEF Apps!Next

LEMMA AppInvariance == ASSUME Apps!BoundAssumption PROVE Apps!Spec => []AppInv
BY AppStart, AppStep, PTL DEF Apps!Spec

\* The record and the requests hold branches and commits that exist
\* (ApplicationService).
THEOREM ApplicationTyped == ASSUME Apps!BoundAssumption PROVE Apps!Spec => []Apps!TypeOK
<1>1. AppInv => Apps!TypeOK
  BY DEF AppInv, AppTyped, Resolved, Apps!TypeOK, Found
<1> QED
  BY <1>1, AppInvariance, PTL

\* However requests overlap, the recorded source commit is the one the document
\* was read from, and branch and route are what the last write that named them
\* set (update_app, sync_app).
LEMMA RecordHonest ==
    ASSUME Apps!BoundAssumption
    PROVE  Apps!Spec => [](Apps!ComposeIsSource /\ Apps!LastWriteStands)
<1>1. AppInv => Apps!ComposeIsSource /\ Apps!LastWriteStands
  BY DEF AppInv
<1> QED
  BY <1>1, AppInvariance, PTL

\* A check is scheduled of a commit that was the head of its branch while the
\* request ran, never of one remembered in the record (schedule_for_app).
LEMMA ChecksFresh == ASSUME Apps!BoundAssumption PROVE Apps!Spec => Apps!CheckIsFresh
<1> DEFINE A == \A c \in checks' \ checks :
                   \E r \in Client : appReq[r].pc = "schedule" /\ appReq'[r] = Apps!Idle /\ c.n >= appReq[r].since[c.branch]
<1>1. ASSUME AppInv, Apps!Next, checks' # checks PROVE A
  <2>1. PICK r \in Client : Apps!Schedule(r)
    BY <1>1 DEF Apps!Next, Apps!Push, Apps!Restart, Apps!Accept, Apps!Refuse, Apps!Fail, Apps!Discover,
       Apps!Create,
         Apps!ReadForUpdate, Apps!Resolve, Apps!Update, Apps!Inspect, Apps!Synchronize
  <2>2. /\ appReq[r].pc = "schedule" /\ checks' \subseteq checks \cup {Apps!Checked(r)} /\ appReq'[r] = Apps!Idle
    BY <1>1, <2>1 DEF Apps!Schedule, AppInv, AppTyped
  <2> QED
    BY <1>1, <2>2, CheckedIs
<1>2. AppInv /\ [Apps!Next]_(Apps!vars) => [A]_checks
  BY <1>1 DEF Apps!vars
<1> QED
  BY <1>2, AppInvariance, PTL DEF Apps!Spec, Apps!CheckIsFresh

\* What a step of the one request must keep, when the others are idle.
LEMMA TurnKeeps ==
    ASSUME Apps!BoundAssumption, AppInv, SerialInv, NEW r \in Client, NEW q, appReq' = [appReq EXCEPT ![r] = q],
           appReq[r] # Apps!Idle \/ q # Apps!Idle, Apps!OneAtATime', InTurn(r)', Apps!SourceMatchesRef',
           q.pc # "schedule" /\ app'.exists /\ app'.route => \E c \in checks' : c.branch = app'.ref
    PROVE  SerialInv'
<1>1. appReq \in [Client -> AppRequest]
  BY DEF AppInv, AppTyped
<1>2. \A s \in Client \ {r} : appReq'[s] = Apps!Idle
  BY <1>1 DEF SerialInv, Apps!OneAtATime
<1>3. \A s \in Client \ {r} : InTurn(s)'
  BY <1>2, AppFacts DEF InTurn
<1>4. appReq'[r] = q
  BY <1>1
<1> QED
  BY <1>3, <1>4 DEF SerialInv, Writing

LEMMA SerialStep ==
    ASSUME Apps!BoundAssumption, AppInv, SerialInv, [Apps!SteadyNext]_(Apps!vars)
    PROVE  SerialInv'
<1>0. /\ appReq \in [Client -> AppRequest] /\ AppTyped /\ \A r \in Client : Resolved(r) /\ InTurn(r)
      /\ app \in [exists : BOOLEAN, ref : Branch, route : BOOLEAN, compose : Apps!Document, source : Found]
      /\ Apps!SourceMatchesRef
  BY DEF AppInv, AppTyped, SerialInv
<1>1. CASE UNCHANGED Apps!vars
  BY <1>1 DEF Apps!vars, SerialInv, Apps!OneAtATime, InTurn, Writing, Apps!SourceMatchesRef
<1>2. ASSUME NEW b \in Branch, Apps!Push(b) PROVE SerialInv'
  BY <1>2 DEF Apps!Push, SerialInv, Apps!OneAtATime, InTurn, Writing, Apps!SourceMatchesRef
<1>3. SUFFICES ASSUME NEW r \in Client, Apps!OneAtATime',
                      \/ \E k \in {"create", "update", "sync"}, names \in SUBSET {"ref", "route", "compose"},
                            asked \in Branch, route \in BOOLEAN : Apps!Accept(r, k, names, asked, route)
                      \/ Apps!Refuse(r) \/ Apps!Discover(r) \/ Apps!Create(r) \/ Apps!ReadForUpdate(r) \/ Apps!Resolve(r)
                      \/ Apps!Update(r) \/ Apps!Inspect(r) \/ Apps!Synchronize(r) \/ Apps!Schedule(r)
               PROVE  SerialInv'
  BY <1>1, <1>2, AppFacts DEF Apps!SteadyNext, Apps!Next
<1>a. appReq[r] \in AppRequest /\ app.ref \in Branch /\ app.route \in BOOLEAN
  BY <1>0
\* the check the record has, if nobody has written since
<1>4. appReq[r].pc # "schedule" /\ app.exists /\ app.route =>
         (\E c \in checks : c.branch = app.ref) \/ \E s \in Client : s # r /\ appReq[s].pc = "schedule"
  BY DEF SerialInv, Writing
<1>5. appReq[r] # Apps!Idle => \A s \in Client \ {r} : appReq[s] = Apps!Idle
  BY DEF SerialInv, Apps!OneAtATime
<1>6. ASSUME NEW k \in {"create", "update", "sync"}, NEW names \in SUBSET {"ref", "route", "compose"}, NEW asked \in Branch,
             NEW route \in BOOLEAN, Apps!Accept(r, k, names, asked, route)
      PROVE  SerialInv'
  <2> DEFINE q == [Apps!Idle EXCEPT !.pc = k, !.kind = k, !.names = names, !.ref = asked, !.route = route, !.since = head]
  <2>1. q.pc = k /\ q.commit = Apps!NoCommit /\ q # Apps!Idle
    BY AppFacts DEF AppRequest
  <2>2. appReq' = [appReq EXCEPT ![r] = q] /\ UNCHANGED <<app, checks>> /\ appReq[r] = Apps!Idle
    BY <1>6 DEF Apps!Accept
  <2> HIDE DEF q
  <2>3. InTurn(r)'
    BY <1>0, <2>1, <2>2 DEF InTurn
  <2>4. \A s \in Client \ {r} : appReq[s] = Apps!Idle
    BY <1>0, <2>1, <2>2, <1>3 DEF Apps!OneAtATime
  <2>5. app'.exists /\ app'.route => \E c \in checks' : c.branch = app'.ref
    BY <1>4, <2>2, <2>4, AppFacts
  <2> QED
    BY <1>0, <1>3, <2>1, <2>2, <2>3, <2>5, TurnKeeps DEF Apps!SourceMatchesRef
<1>7. ASSUME appReq[r].pc \notin {"idle", "schedule"}, NEW q \in AppRequest, appReq' = [appReq EXCEPT ![r] = q],
             UNCHANGED <<app, checks>>, InTurn(r)'
      PROVE  SerialInv'
  <2>1. appReq[r] # Apps!Idle
    BY <1>7, AppFacts
  <2>2. app'.exists /\ app'.route => \E c \in checks' : c.branch = app'.ref
    BY <1>4, <1>5, <1>7, <2>1, AppFacts
  <2> QED
    BY <1>0, <1>3, <1>7, <2>1, <2>2, TurnKeeps DEF Apps!SourceMatchesRef
<1>8. CASE Apps!Refuse(r)
  <2>1. InTurn(r)'
    BY <1>0, <1>8, AppFacts DEF InTurn, Apps!Refuse
  <2> QED
    BY <1>7, <1>8, <2>1, AppFacts DEF Apps!Refuse
<1>9. CASE Apps!Discover(r)
  <2> DEFINE given == "compose" \in appReq[r].names
             tip == Apps!Head(appReq[r].ref)
             q == [appReq[r] EXCEPT !.pc = "save", !.source = IF given THEN Apps!NoCommit ELSE tip,
                                    !.commit = IF given /\ ~appReq[r].route THEN Apps!NoCommit ELSE tip]
  <2>1. appReq[r].pc = "create" /\ appReq[r].kind = "create" /\ appReq' = [appReq EXCEPT ![r] = q] /\ UNCHANGED <<app, checks>>
    BY <1>0, <1>9 DEF Apps!Discover, Resolved
  <2>2. tip \in Found /\ tip.branch = appReq[r].ref /\ Apps!NoCommit \in Found
    BY <1>0, HeadIs DEF AppRequest, Found
  <2>3. q \in AppRequest /\ q.pc = "save" /\ q.kind = "create" /\ q.source \in {Apps!NoCommit, q.commit}
        /\ (q.commit # Apps!NoCommit => q.commit.branch = q.ref)
    <3> HIDE DEF tip
    <3> QED
      BY <1>a, <2>1, <2>2 DEF AppRequest
  <2> HIDE DEF q
  <2>4. InTurn(r)'
    BY <1>0, <2>1, <2>3 DEF InTurn
  <2> QED
    BY <1>7, <2>1, <2>3, <2>4
<1>10. CASE Apps!ReadForUpdate(r)
  <2> DEFINE q == [appReq[r] EXCEPT !.pc = "resolve",
                                    !.ref = IF "ref" \in appReq[r].names THEN appReq[r].ref ELSE app.ref,
                                    !.route = IF "route" \in appReq[r].names THEN appReq[r].route ELSE app.route]
  <2>1. appReq[r].pc = "update" /\ appReq[r].kind = "update" /\ appReq' = [appReq EXCEPT ![r] = q] /\ UNCHANGED <<app, checks>>
    BY <1>0, <1>10 DEF Apps!ReadForUpdate, Resolved
  <2>2. appReq[r].commit = Apps!NoCommit
    BY <1>0, <2>1 DEF InTurn
  <2>3. /\ q \in AppRequest /\ q.pc = "resolve" /\ q.kind = "update" /\ q.commit = Apps!NoCommit /\ q.names = appReq[r].names
        /\ ("ref" \notin q.names => q.ref = app.ref) /\ ("route" \notin q.names => q.route = app.route)
    BY <1>a, <2>1, <2>2 DEF AppRequest
  <2> HIDE DEF q
  <2>4. InTurn(r)'
    BY <1>0, <2>1, <2>3 DEF InTurn
  <2> QED
    BY <1>7, <2>1, <2>3, <2>4
<1>11. CASE Apps!Resolve(r)
  <2> DEFINE c == IF appReq[r].route THEN Apps!Head(appReq[r].ref) ELSE Apps!NoCommit
             q == [appReq[r] EXCEPT !.pc = "save", !.commit = c]
  <2>1. appReq[r].pc = "resolve" /\ appReq[r].kind = "update" /\ appReq' = [appReq EXCEPT ![r] = q] /\ UNCHANGED <<app, checks>>
    BY <1>0, <1>11 DEF Apps!Resolve, Resolved
  <2>2. c \in Found /\ (c # Apps!NoCommit => c.branch = appReq[r].ref)
    BY <1>0, HeadIs DEF AppRequest, Found
  <2> HIDE DEF c
  <2>3. /\ q \in AppRequest /\ q.pc = "save" /\ q.kind = "update" /\ q.commit = c /\ q.names = appReq[r].names
        /\ q.ref = appReq[r].ref /\ q.route = appReq[r].route
    BY <1>a, <2>1, <2>2 DEF AppRequest
  <2> HIDE DEF q
  <2>4. InTurn(r)'
    BY <1>0, <2>1, <2>2, <2>3 DEF InTurn
  <2> QED
    BY <1>7, <2>1, <2>3, <2>4
<1>12. CASE Apps!Inspect(r)
  <2> DEFINE tip == Apps!Head(app.ref)
             q == [appReq[r] EXCEPT !.pc = "save", !.commit = tip, !.source = tip]
  <2>1. appReq[r].pc = "sync" /\ appReq[r].kind = "sync" /\ appReq' = [appReq EXCEPT ![r] = q] /\ UNCHANGED <<app, checks>>
    BY <1>0, <1>12 DEF Apps!Inspect, Resolved
  <2>2. tip \in Found /\ tip.branch = app.ref
    BY <1>0, HeadIs DEF Found
  <2> HIDE DEF tip
  <2>3. q \in AppRequest /\ q.pc = "save" /\ q.kind = "sync" /\ q.commit = tip /\ q.source = tip
    BY <1>a, <2>1, <2>2 DEF AppRequest
  <2> HIDE DEF q
  <2>4. InTurn(r)'
    BY <1>0, <2>1, <2>2, <2>3 DEF InTurn
  <2> QED
    BY <1>7, <2>1, <2>3, <2>4
<1>13. ASSUME appReq[r].pc = "save", Apps!Written(r), Apps!SourceMatchesRef',
              app' \in [exists : BOOLEAN, ref : Branch, route : BOOLEAN, compose : Apps!Document, source : Found],
              appReq[r].commit # Apps!NoCommit => appReq[r].commit.branch = app'.ref
       PROVE  SerialInv'
  <2> DEFINE q == [appReq[r] EXCEPT !.pc = "schedule", !.ref = app'.ref, !.route = app'.route]
  <2>1. appReq' = [appReq EXCEPT ![r] = q] /\ appReq[r] # Apps!Idle
    BY <1>0, <1>13, AppFacts DEF Apps!Written
  <2>2. q.pc = "schedule" /\ q.ref = app'.ref /\ q.route = app'.route /\ q.commit = appReq[r].commit
    BY <1>0, <1>13 DEF AppRequest
  <2> HIDE DEF q
  <2>3. InTurn(r)'
    BY <1>0, <1>13, <2>1, <2>2 DEF InTurn
  <2> QED
    BY <1>3, <1>13, <2>1, <2>2, <2>3, TurnKeeps
<1>14. CASE Apps!Create(r)
  <2>1. CASE app.exists
    <3>1. appReq' = [appReq EXCEPT ![r] = Apps!Idle] /\ UNCHANGED <<app, checks>> /\ appReq[r].pc = "save"
      BY <1>14, <2>1 DEF Apps!Create
    <3>2. InTurn(r)'
      BY <1>0, <3>1, AppFacts DEF InTurn
    <3> QED
      BY <1>7, <3>1, <3>2, AppFacts
  <2>2. CASE ~app.exists
    <3>1. /\ app' = [exists |-> TRUE, ref |-> appReq[r].ref, route |-> appReq[r].route, source |-> appReq[r].source,
                     compose |-> IF appReq[r].source = Apps!NoCommit THEN Apps!ByUser ELSE appReq[r].source]
          /\ Apps!Written(r) /\ appReq[r].pc = "save" /\ appReq[r].kind = "create"
      BY <1>14, <2>2 DEF Apps!Create
    <3>2. app' \in [exists : BOOLEAN, ref : Branch, route : BOOLEAN, compose : Apps!Document, source : Found]
      BY <1>0, <3>1 DEF AppRequest, Found, Apps!Document
    <3>3. /\ (appReq[r].commit # Apps!NoCommit => appReq[r].commit.branch = appReq[r].ref)
          /\ appReq[r].source \in {Apps!NoCommit, appReq[r].commit}
      BY <1>0, <3>1 DEF InTurn
    <3>4. Apps!SourceMatchesRef'
      BY <3>1, <3>3 DEF Apps!SourceMatchesRef
    <3> QED
      BY <1>13, <3>1, <3>2, <3>3, <3>4
  <2> QED
    BY <2>1, <2>2
<1>15. CASE Apps!Update(r)
  <2>1. /\ app' = [app EXCEPT !.ref = IF "ref" \in appReq[r].names THEN appReq[r].ref ELSE app.ref,
                              !.route = IF "route" \in appReq[r].names THEN appReq[r].route ELSE app.route,
                              !.compose = IF "compose" \in appReq[r].names THEN Apps!ByUser ELSE app.compose,
                              !.source = IF appReq[r].names \cap {"compose", "ref"} # {} THEN Apps!NoCommit ELSE app.source]
        /\ Apps!Written(r) /\ appReq[r].pc = "save" /\ appReq[r].kind = "update"
    BY <1>0, <1>15 DEF Apps!Update, Apps!Fields, Apps!Source
  <2>2. app' \in [exists : BOOLEAN, ref : Branch, route : BOOLEAN, compose : Apps!Document, source : Found]
    BY <1>0, <2>1 DEF AppRequest, Found, Apps!Document
  <2>3. appReq[r].commit # Apps!NoCommit => appReq[r].commit.branch = app'.ref
    BY <1>0, <2>1 DEF InTurn
  <2>4. Apps!SourceMatchesRef'
    BY <1>0, <2>1 DEF Apps!SourceMatchesRef
  <2> QED
    BY <1>13, <2>1, <2>2, <2>3, <2>4
<1>16. CASE Apps!Synchronize(r)
  <2>1. /\ app' = [app EXCEPT !.compose = appReq[r].source, !.source = appReq[r].source]
        /\ Apps!Written(r) /\ appReq[r].pc = "save" /\ appReq[r].kind = "sync"
    BY <1>0, <1>16 DEF Apps!Synchronize
  <2>2. /\ appReq[r].source # Apps!NoCommit /\ appReq[r].source.branch = app.ref /\ appReq[r].commit = appReq[r].source
    BY <1>0, <2>1 DEF InTurn, Resolved
  <2>3. app' \in [exists : BOOLEAN, ref : Branch, route : BOOLEAN, compose : Apps!Document, source : Found]
    BY <1>0, <2>1, <2>2 DEF AppRequest, Found, Apps!Document
  <2>4. Apps!SourceMatchesRef'
    BY <1>0, <2>1, <2>2 DEF Apps!SourceMatchesRef
  <2> QED
    BY <1>0, <1>13, <2>1, <2>2, <2>3, <2>4
<1>17. CASE Apps!Schedule(r)
  <2>1. /\ appReq[r].pc = "schedule" /\ UNCHANGED app /\ appReq' = [appReq EXCEPT ![r] = Apps!Idle]
        /\ checks' = IF appReq[r].route THEN checks \cup {Apps!Checked(r)} ELSE checks
    BY <1>17 DEF Apps!Schedule
  <2>2. appReq[r].ref = app.ref /\ appReq[r].route = app.route
        /\ (appReq[r].commit # Apps!NoCommit => appReq[r].commit.branch = app.ref)
    BY <1>0, <2>1 DEF InTurn
  <2>3. Apps!Checked(r).branch = app.ref
    BY <1>0, <2>2, HeadIs DEF Apps!Checked
  <2>4. InTurn(r)'
    BY <1>0, <2>1, AppFacts DEF InTurn
  <2>5. app'.route => \E c \in checks' : c.branch = app'.ref
    BY <2>1, <2>2, <2>3
  <2> QED
    BY <1>0, <1>3, <2>1, <2>4, <2>5, TurnKeeps, AppFacts DEF Apps!SourceMatchesRef
<1> QED
  BY <1>3, <1>6, <1>8, <1>9, <1>10, <1>11, <1>12, <1>14, <1>15, <1>16, <1>17

\* Where requests that come one at a time start from, and what it amounts to.
LEMMA SerialStart == ASSUME Apps!BoundAssumption, Apps!Init PROVE SerialInv
<1>1. \A r \in Client : appReq[r] = Apps!Idle
  BY DEF Apps!Init
<1>2. ~app.exists /\ app.source = Apps!NoCommit
  BY DEF Apps!Init
<1>3. \A r \in Client : InTurn(r)
  BY <1>1, AppFacts DEF InTurn
<1> QED
  BY <1>1, <1>2, <1>3 DEF SerialInv, Apps!OneAtATime, Apps!SourceMatchesRef

LEMMA SerialHolds == ASSUME Apps!BoundAssumption, SerialInv PROVE Apps!SourceMatchesRef /\ Apps!CheckedAsSaved
BY AppFacts DEF SerialInv, Apps!CheckedAsSaved, Apps!Quiet, Writing

\* Requests one at a time are requests.
LEMMA RecordIsApplication == RecordSpec => Apps!Spec
<1>1. RecordInit => Apps!Init
  BY DEF RecordInit
<1>2. [RecordNext]_appVars => [Apps!Next]_(Apps!vars)
  BY DEF RecordNext, appVars, Apps!vars, Apps!SteadyNext
<1> QED
  BY <1>1, <1>2, PTL DEF RecordSpec, Apps!Spec

\* An application record keeps what is promised of it, under requests as they come
\* and under requests one at a time (ApplicationService).
THEOREM ApplicationsKept == ASSUME Apps!BoundAssumption PROVE RecordSpec => ApplicationsSafe
<1> DEFINE Turn == inTurn => SerialInv
<1>1. RecordInit => Apps!Init
  BY DEF RecordInit
<1>3. RecordSpec => Apps!Spec
  BY RecordIsApplication
<1>4. RecordInit => Turn
  BY <1>1, SerialStart DEF RecordInit
<1>5. AppInv /\ Turn /\ [RecordNext]_appVars => Turn'
  <2> SUFFICES ASSUME AppInv, inTurn' => SerialInv, inTurn', [RecordNext]_appVars PROVE SerialInv'
    BY DEF RecordNext, appVars
  <2>1. [Apps!SteadyNext]_(Apps!vars) /\ SerialInv
    BY DEF RecordNext, appVars, Apps!vars
  <2> QED
    BY <2>1, SerialStep
<1>6. SerialInv => Apps!SourceMatchesRef /\ Apps!CheckedAsSaved
  BY SerialHolds
<1>7. Turn => (inTurn => Apps!SourceMatchesRef /\ Apps!CheckedAsSaved)
  BY <1>6
<1>8. RecordSpec => []Turn
  <2> HIDE DEF Turn
  <2> QED
    BY <1>3, <1>4, <1>5, AppInvariance, PTL DEF RecordSpec
<1>9. RecordSpec => [](inTurn => Apps!SourceMatchesRef /\ Apps!CheckedAsSaved)
  <2> HIDE DEF Turn
  <2> QED
    BY <1>7, <1>8, PTL
<1> QED
  BY <1>3, <1>9, RecordHonest, ChecksFresh, PTL DEF ApplicationsSafe

-----------------------------------------------------------------------------
(***************************************************************************)
(* A service that is waited for (ServiceReadiness), for any number of      *)
(* tasks, ports and failures.  A slot has one task that is wanted at a     *)
(* time, so as many running ones as there are slots are one in every slot; *)
(* a task that has failed stays failed, so the failed ones are no more     *)
(* than there were failures; and a sleep ends by the deadline, so only the *)
(* calls themselves take the clock beyond it.                              *)
(***************************************************************************)
TaskRecord == [slot : Ready!Slot, revision : {1, 2}, wanted : BOOLEAN, state : {"new", "running", "shutdown", "failed"}]

TasksTyped == serviceTasks \in Seq(TaskRecord)
WaitTyped ==
    /\ waitPc \in Ready!Ended \cup {"read", "late", "sleep", "next"}
    /\ target \in 0..PublishedPorts
    /\ {since, wake, readAt, clock, failures, delays} \subseteq Nat

OneWanted ==
    \A i, j \in DOMAIN serviceTasks :
        serviceTasks[i].wanted /\ serviceTasks[j].wanted /\ serviceTasks[i].slot = serviceTasks[j].slot => i = j

\* the indices of the failed tasks
FailuresCounted == IsFiniteSet(Ready!Failed) /\ Cardinality(Ready!Failed) <= failures

SlotsSeen ==
    waitPc \in {"next", "up"} \/ target > 0 =>
        \A s \in Ready!Slot : \E t \in seen : t.slot = s /\ t.wanted /\ t.state = "running"

InTime ==
    /\ waitPc \in {"read", "next"} => clock <= since + WaitTimeout
    /\ waitPc = "sleep" => clock <= wake /\ wake <= since + WaitTimeout
    /\ waitPc = "late" => clock <= since + WaitTimeout + delays /\ clock <= readAt + delays

ReadyInv == TasksTyped /\ WaitTyped /\ OneWanted /\ FailuresCounted /\ SlotsSeen /\ InTime
               /\ Ready!OneFailureIsForgiven /\ Ready!LastLookAtDeadline

LEMMA TaskUpdated ==
    ASSUME NEW T, NEW s \in Seq(T), NEW i \in DOMAIN s, NEW a \in T
    PROVE  LET u == [s EXCEPT ![i] = a]
           IN /\ u \in Seq(T) /\ DOMAIN u = DOMAIN s /\ Len(u) = Len(s) /\ u[i] = a
              /\ \A j \in DOMAIN s \ {i} : u[j] = s[j]
  OBVIOUS

LEMMA TaskAdded ==
    ASSUME NEW T, NEW s \in Seq(T), NEW b \in T
    PROVE  LET u == Append(s, b)
           IN /\ u \in Seq(T) /\ DOMAIN u = DOMAIN s \cup {Len(s) + 1} /\ u[Len(s) + 1] = b
              /\ Len(s) + 1 \notin DOMAIN s
              /\ \A j \in DOMAIN s : u[j] = s[j]
  OBVIOUS

\* A step of one task, which does not come to be wanted.
LEMMA TaskChanges ==
    ASSUME TasksTyped, OneWanted, NEW i \in DOMAIN serviceTasks, NEW a \in TaskRecord,
           a.wanted => serviceTasks[i].wanted, a.slot = serviceTasks[i].slot,
           serviceTasks' = [serviceTasks EXCEPT ![i] = a]
    PROVE  /\ TasksTyped' /\ OneWanted'
           /\ Ready!Failed' = IF a.state = "failed" THEN Ready!Failed \cup {i} ELSE Ready!Failed \ {i}
<1>1. /\ serviceTasks' \in Seq(TaskRecord) /\ DOMAIN serviceTasks' = DOMAIN serviceTasks
      /\ serviceTasks'[i] = a /\ \A j \in DOMAIN serviceTasks \ {i} : serviceTasks'[j] = serviceTasks[j]
  BY TaskUpdated DEF TasksTyped
<1>2. OneWanted'
  BY <1>1 DEF OneWanted
<1>3. Ready!Failed' = IF a.state = "failed" THEN Ready!Failed \cup {i} ELSE Ready!Failed \ {i}
  BY <1>1 DEF Ready!Failed
<1> QED
  BY <1>1, <1>2, <1>3 DEF TasksTyped

\* A task takes the place of another in its slot.
LEMMA TaskReplaced ==
    ASSUME TasksTyped, OneWanted, NEW i \in DOMAIN serviceTasks, serviceTasks[i].wanted,
           NEW b \in TaskRecord, b.slot = serviceTasks[i].slot, b.state = "new",
           serviceTasks' = Append([serviceTasks EXCEPT ![i].wanted = FALSE], b)
    PROVE  TasksTyped' /\ OneWanted' /\ Ready!Failed' = Ready!Failed
<1> DEFINE a == [serviceTasks[i] EXCEPT !.wanted = FALSE]
           u == [serviceTasks EXCEPT ![i] = a]
           n == Len(u) + 1
<1>1. serviceTasks[i] \in TaskRecord
  BY DEF TasksTyped
<1>2. a \in TaskRecord /\ a.wanted = FALSE /\ a.state = serviceTasks[i].state /\ a.slot = serviceTasks[i].slot
  BY <1>1 DEF TaskRecord
<1>3. /\ u \in Seq(TaskRecord) /\ DOMAIN u = DOMAIN serviceTasks /\ u[i] = a
      /\ \A j \in DOMAIN serviceTasks \ {i} : u[j] = serviceTasks[j]
  <2> HIDE DEF a
  <2> QED
    BY <1>2, TaskUpdated DEF TasksTyped
<1>4. serviceTasks' = Append(u, b)
  OBVIOUS
<1>5. /\ serviceTasks' \in Seq(TaskRecord) /\ DOMAIN serviceTasks' = DOMAIN serviceTasks \cup {n} /\ serviceTasks'[n] = b
      /\ n \notin DOMAIN serviceTasks /\ \A j \in DOMAIN serviceTasks : serviceTasks'[j] = u[j]
  <2> HIDE DEF a, u
  <2>1. u \in Seq(TaskRecord)
    BY <1>3
  <2>2. /\ Append(u, b) \in Seq(TaskRecord) /\ DOMAIN Append(u, b) = DOMAIN u \cup {Len(u) + 1}
        /\ Append(u, b)[Len(u) + 1] = b /\ Len(u) + 1 \notin DOMAIN u
        /\ \A j \in DOMAIN u : Append(u, b)[j] = u[j]
    BY <2>1, TaskAdded
  <2> QED
    BY <1>3, <1>4, <2>2
<1> HIDE DEF a, u, n
<1>6. OneWanted'
  <2> SUFFICES ASSUME NEW j \in DOMAIN serviceTasks', NEW k \in DOMAIN serviceTasks',
                      serviceTasks'[j].wanted, serviceTasks'[k].wanted, serviceTasks'[j].slot = serviceTasks'[k].slot
               PROVE  j = k
    BY DEF OneWanted
  <2>1. j # i /\ k # i
    BY <1>2, <1>3, <1>5
  <2>2. CASE j # n /\ k # n
    BY <2>1, <2>2, <1>3, <1>5 DEF OneWanted
  <2>3. CASE j = n /\ k # n
    BY <2>1, <2>3, <1>3, <1>5 DEF OneWanted
  <2>4. CASE j # n /\ k = n
    BY <2>1, <2>4, <1>3, <1>5 DEF OneWanted
  <2> QED
    BY <2>2, <2>3, <2>4
<1>7. Ready!Failed' = Ready!Failed
  BY <1>2, <1>3, <1>5 DEF Ready!Failed
<1> QED
  BY <1>5, <1>6, <1>7 DEF TasksTyped

\* As many wanted running tasks as there are slots are one in every slot.
LEMMA RunningFills ==
    ASSUME Ready!ReadinessAssumption, TasksTyped, OneWanted, Cardinality(Ready!Running(Ready!Tasks)) >= Replicas
    PROVE  \A s \in Ready!Slot : \E t \in Ready!Tasks : t.slot = s /\ t.wanted /\ t.state = "running"
<1> DEFINE R == Ready!Running(Ready!Tasks)
           f == [t \in R |-> t.slot]
<1>0. \A i \in DOMAIN serviceTasks : serviceTasks[i] \in TaskRecord
  BY DEF TasksTyped
<1>1. \A t \in R : t.slot \in Ready!Slot /\ t \in Ready!Tasks /\ t.wanted /\ t.state = "running"
  BY <1>0 DEF Ready!Tasks, Ready!Running, TaskRecord
<1>2. \A t, v \in R : t.slot = v.slot => t = v
  BY DEF OneWanted, Ready!Tasks, Ready!Running
<1>3. f \in Injection(R, Ready!Slot)
  <2> HIDE DEF R
  <2> QED
    BY <1>1, <1>2 DEF Injection, IsInjective
<1>4. IsFiniteSet(Ready!Slot) /\ Cardinality(Ready!Slot) = Replicas
  BY FS_Interval DEF Ready!Slot, Ready!ReadinessAssumption
<1>5. /\ IsFiniteSet(R) /\ Cardinality(R) <= Replicas
      /\ Cardinality(R) = Replicas => f \in Surjection(R, Ready!Slot)
  <2> HIDE DEF R, f
  <2> QED
    BY <1>3, <1>4, FS_Injection
<1>6. Cardinality(R) \in Nat
  BY <1>5, FS_CardinalityType
<1>7. f \in Surjection(R, Ready!Slot)
  BY <1>5, <1>6 DEF Ready!ReadinessAssumption
<1>8. \A s \in Ready!Slot : \E t \in R : t.slot = s
  <2> HIDE DEF R
  <2> QED
    BY <1>7 DEF Surjection
<1> QED
  BY <1>1, <1>8

LEMMA ReadyStart == Ready!ReadinessAssumption /\ Ready!Init => ReadyInv
<1> SUFFICES ASSUME Ready!ReadinessAssumption, Ready!Init PROVE ReadyInv
  OBVIOUS
<1>1. Replicas \in Nat /\ PublishedPorts \in Nat /\ WaitTimeout \in Nat
  BY DEF Ready!ReadinessAssumption
<1>2. /\ serviceTasks \in [1..Replicas -> TaskRecord]
      /\ \A s \in 1..Replicas : serviceTasks[s].slot = s /\ serviceTasks[s].state # "failed"
  BY DEF Ready!Init, Ready!Task, Ready!Slot, TaskRecord
<1>3. TasksTyped
  BY <1>1, <1>2 DEF TasksTyped
<1>4. OneWanted
  BY <1>2 DEF OneWanted
<1>5. FailuresCounted
  <2>1. Ready!Failed = {}
    BY <1>2 DEF Ready!Failed
  <2>2. failures = 0
    BY DEF Ready!Init
  <2> QED
    BY <2>1, <2>2, FS_EmptySet DEF FailuresCounted
<1>6. WaitTyped /\ InTime
  BY <1>1 DEF Ready!Init, WaitTyped, InTime, Ready!Ended
<1>7. SlotsSeen /\ Ready!OneFailureIsForgiven /\ Ready!LastLookAtDeadline
  BY <1>1 DEF Ready!Init, SlotsSeen, Ready!Slot, Ready!OneFailureIsForgiven, Ready!LastLookAtDeadline
<1> QED
  BY <1>3, <1>4, <1>5, <1>6, <1>7 DEF ReadyInv

\* What Swarm does leaves the wait alone.
LEMMA SwarmKeepsWait ==
    ASSUME ReadyInv, Ready!SwarmStep, failures' \in Nat, failures' >= failures
    PROVE  /\ WaitTyped' /\ SlotsSeen' /\ InTime' /\ Ready!OneFailureIsForgiven' /\ Ready!LastLookAtDeadline'
<1>1. UNCHANGED <<waitPc, target, since, wake, seen, readAt, clock, delays>> /\ waitPc # "failed"
  BY DEF Ready!SwarmStep, Ready!Ended
<1> QED
  BY <1>1 DEF ReadyInv, WaitTyped, SlotsSeen, InTime, Ready!OneFailureIsForgiven, Ready!LastLookAtDeadline

LEMMA SwarmKeeps ==
    ASSUME Ready!ReadinessAssumption, ReadyInv, NEW i \in DOMAIN serviceTasks,
           Ready!Roll(i) \/ Ready!Starts(i) \/ Ready!Stops(i) \/ Ready!Fails(i) \/ Ready!Restarts(i)
    PROVE  ReadyInv'
<1>0. /\ TasksTyped /\ OneWanted /\ FailuresCounted /\ failures \in Nat
      /\ serviceTasks[i] \in TaskRecord
  BY DEF ReadyInv, WaitTyped, TasksTyped
<1>1. ASSUME Ready!SwarmStep, UNCHANGED failures, TasksTyped', OneWanted', Ready!Failed' = Ready!Failed PROVE ReadyInv'
  <2>1. FailuresCounted'
    BY <1>0, <1>1 DEF FailuresCounted
  <2> QED
    BY <1>0, <1>1, <2>1, SwarmKeepsWait DEF ReadyInv
<1>2. CASE Ready!Roll(i)
  <2> DEFINE b == Ready!Task(serviceTasks[i].slot, 2)
  <2>1. b \in TaskRecord /\ b.slot = serviceTasks[i].slot /\ b.state = "new"
    BY <1>0 DEF Ready!Task, TaskRecord
  <2>2. /\ serviceTasks[i].wanted /\ serviceTasks' = Append([serviceTasks EXCEPT ![i].wanted = FALSE], b)
        /\ Ready!SwarmStep /\ UNCHANGED failures
    BY <1>2 DEF Ready!Roll
  <2> HIDE DEF b
  <2> QED
    BY <1>0, <1>1, <2>1, <2>2, TaskReplaced
<1>3. CASE Ready!Restarts(i)
  <2> DEFINE b == Ready!Task(serviceTasks[i].slot, serviceTasks[i].revision)
  <2>1. b \in TaskRecord /\ b.slot = serviceTasks[i].slot /\ b.state = "new"
    BY <1>0 DEF Ready!Task, TaskRecord
  <2>2. /\ serviceTasks[i].wanted /\ serviceTasks' = Append([serviceTasks EXCEPT ![i].wanted = FALSE], b)
        /\ Ready!SwarmStep /\ UNCHANGED failures
    BY <1>3 DEF Ready!Restarts
  <2> HIDE DEF b
  <2> QED
    BY <1>0, <1>1, <2>1, <2>2, TaskReplaced
<1>4. ASSUME NEW state \in {"running", "shutdown"}, serviceTasks[i].state # "failed", Ready!SwarmStep, UNCHANGED failures,
             serviceTasks' = [serviceTasks EXCEPT ![i].state = state]
      PROVE  ReadyInv'
  <2> DEFINE a == [serviceTasks[i] EXCEPT !.state = state]
  <2>1. a \in TaskRecord /\ a.slot = serviceTasks[i].slot /\ a.wanted = serviceTasks[i].wanted /\ a.state # "failed"
    BY <1>0 DEF TaskRecord
  <2>2. serviceTasks' = [serviceTasks EXCEPT ![i] = a]
    BY <1>4
  <2>3. i \notin Ready!Failed
    BY <1>4 DEF Ready!Failed
  <2> HIDE DEF a
  <2>4. TasksTyped' /\ OneWanted' /\ Ready!Failed' = Ready!Failed
    BY <1>0, <2>1, <2>2, <2>3, TaskChanges
  <2> QED
    BY <1>1, <1>4, <2>4
<1>5. CASE Ready!Starts(i)
  BY <1>4, <1>5 DEF Ready!Starts
<1>6. CASE Ready!Stops(i)
  BY <1>4, <1>6 DEF Ready!Stops
<1>7. CASE Ready!Fails(i)
  <2> DEFINE a == [serviceTasks[i] EXCEPT !.state = "failed"]
  <2>1. a \in TaskRecord /\ a.slot = serviceTasks[i].slot /\ a.wanted = serviceTasks[i].wanted /\ a.state = "failed"
    BY <1>0 DEF TaskRecord
  <2>2. serviceTasks' = [serviceTasks EXCEPT ![i] = a] /\ failures' = failures + 1 /\ Ready!SwarmStep
    BY <1>7 DEF Ready!Fails
  <2>3. i \notin Ready!Failed
    BY <1>7 DEF Ready!Failed, Ready!Fails
  <2> HIDE DEF a
  <2>4. TasksTyped' /\ OneWanted' /\ Ready!Failed' = Ready!Failed \cup {i}
    BY <1>0, <2>1, <2>2, TaskChanges
  <2>5. /\ IsFiniteSet(Ready!Failed) /\ Cardinality(Ready!Failed) <= failures
        /\ Cardinality(Ready!Failed) \in Nat
    BY <1>0, FS_CardinalityType DEF FailuresCounted
  <2>6. IsFiniteSet(Ready!Failed') /\ Cardinality(Ready!Failed') = Cardinality(Ready!Failed) + 1
    BY <2>3, <2>4, <2>5, FS_AddElement
  <2>7. FailuresCounted'
    BY <1>0, <2>2, <2>5, <2>6 DEF FailuresCounted
  <2> QED
    BY <1>0, <2>2, <2>4, <2>7, SwarmKeepsWait DEF ReadyInv
<1> QED
  BY <1>2, <1>3, <1>5, <1>6, <1>7

\* The instance counts as FiniteSets does.
LEMMA SameCount == ASSUME NEW S PROVE Ready!Cardinality(S) = Cardinality(S)
  BY DEF Ready!Cardinality, Cardinality

LEMMA VerdictIs ==
    /\ Ready!Verdict = "next" => Cardinality(Ready!Running(Ready!Tasks)) >= Replicas
    /\ Ready!Verdict = "failed" => Cardinality(Ready!Failed) >= Ready!Tolerated
  BY SameCount DEF Ready!Verdict

\* What the wait does leaves the tasks alone.
LEMMA WaitKeeps ==
    ASSUME Ready!ReadinessAssumption, ReadyInv,
           Ready!ReadTasks \/ Ready!ReadFails \/ Ready!Connect \/ Ready!Late \/ Ready!Wake \/ Ready!NextTarget \/ Ready!Tick
    PROVE  ReadyInv'
<1>0. /\ Replicas \in Nat /\ PublishedPorts \in Nat /\ WaitTimeout \in Nat /\ Interval \in Nat \ {0}
      /\ TasksTyped /\ OneWanted /\ FailuresCounted /\ WaitTyped /\ SlotsSeen /\ InTime
      /\ Ready!OneFailureIsForgiven /\ Ready!LastLookAtDeadline
  BY DEF ReadyInv, Ready!ReadinessAssumption
<1>1. UNCHANGED <<serviceTasks, failures>> => TasksTyped' /\ OneWanted' /\ FailuresCounted'
  BY <1>0 DEF TasksTyped, OneWanted, FailuresCounted, Ready!Failed
<1>t. /\ {since, wake, readAt, clock, failures, delays} \subseteq Nat /\ target \in 0..PublishedPorts
  BY <1>0 DEF WaitTyped
<1>2. CASE Ready!ReadTasks
  <2>1. /\ waitPc = "read" /\ target = 0 /\ waitPc' = Ready!Verdict /\ readAt' = clock
        /\ seen' = (IF Ready!Verdict = "next" THEN Ready!Tasks ELSE {})
        /\ UNCHANGED <<serviceTasks, target, since, wake, clock, failures, delays>>
    BY <1>2 DEF Ready!ReadTasks, Ready!swarm, Ready!counters
  <2>2. Ready!Verdict \in {"next", "failed", "late"}
    BY DEF Ready!Verdict
  <2>3. WaitTyped' /\ InTime'
    BY <1>0, <1>t, <2>1, <2>2 DEF WaitTyped, InTime, Ready!Ended
  <2>4. SlotsSeen'
    <3>1. CASE Ready!Verdict = "next"
      <4>1. Cardinality(Ready!Running(Ready!Tasks)) >= Replicas
        BY <3>1, VerdictIs
      <4> QED
        BY <1>0, <2>1, <3>1, <4>1, RunningFills DEF SlotsSeen
    <3>2. CASE Ready!Verdict # "next"
      BY <2>1, <2>2, <3>2 DEF SlotsSeen
    <3> QED
      BY <3>1, <3>2
  <2>5. Ready!OneFailureIsForgiven'
    <3> SUFFICES ASSUME Ready!Verdict = "failed" PROVE failures >= 2
      BY <2>1 DEF Ready!OneFailureIsForgiven
    <3>1. Cardinality(Ready!Failed) >= Ready!Tolerated
      BY VerdictIs
    <3>2. Ready!Tolerated >= 2 /\ Ready!Tolerated \in Nat
      BY <1>0 DEF Ready!Tolerated
    <3>3. Cardinality(Ready!Failed) \in Nat /\ Cardinality(Ready!Failed) <= failures
      BY <1>0, FS_CardinalityType DEF FailuresCounted
    <3> QED
      BY <1>t, <3>1, <3>2, <3>3
  <2>6. Ready!LastLookAtDeadline'
    BY <2>1, <2>2 DEF Ready!LastLookAtDeadline
  <2> QED
    BY <1>1, <2>1, <2>3, <2>4, <2>5, <2>6 DEF ReadyInv
<1>3. CASE Ready!ReadFails
  <2>1. /\ waitPc = "read" /\ target = 0 /\ waitPc' = "error"
        /\ UNCHANGED <<serviceTasks, target, since, wake, seen, readAt, clock, failures, delays>>
    BY <1>3 DEF Ready!ReadFails, Ready!swarm, Ready!counters
  <2> QED
    BY <1>0, <1>1, <2>1 DEF ReadyInv, WaitTyped, InTime, SlotsSeen, Ready!OneFailureIsForgiven,
       Ready!LastLookAtDeadline, Ready!Ended
<1>4. CASE Ready!Connect
  <2>1. /\ waitPc = "read" /\ target \in 1..PublishedPorts /\ waitPc' \in {"next", "late"} /\ readAt' = clock
        /\ UNCHANGED <<serviceTasks, target, since, wake, seen, clock, failures, delays>>
    BY <1>4 DEF Ready!Connect, Ready!swarm, Ready!counters
  <2>2. WaitTyped' /\ InTime'
    BY <1>0, <1>t, <2>1 DEF WaitTyped, InTime
  <2>3. SlotsSeen' /\ Ready!OneFailureIsForgiven' /\ Ready!LastLookAtDeadline'
    BY <1>0, <2>1 DEF SlotsSeen, Ready!OneFailureIsForgiven, Ready!LastLookAtDeadline
  <2> QED
    BY <1>1, <2>1, <2>2, <2>3 DEF ReadyInv
<1>5. CASE Ready!Late
  <2>1. /\ waitPc = "late" /\ UNCHANGED <<serviceTasks, target, since, seen, readAt, clock, failures, delays>>
        /\ \/ clock >= since + WaitTimeout /\ waitPc' = "timed_out" /\ UNCHANGED wake
           \/ clock < since + WaitTimeout /\ waitPc' = "sleep" /\ wake' = clock + Ready!Nap
    BY <1>5, <1>0, <1>t DEF Ready!Late, Ready!swarm, Ready!counters
  <2>2. clock < since + WaitTimeout => Ready!Nap \in Nat /\ clock + Ready!Nap <= since + WaitTimeout
    BY <1>0, <1>t DEF Ready!Nap
  <2>3. WaitTyped' /\ InTime'
    BY <1>0, <1>t, <2>1, <2>2 DEF WaitTyped, InTime, Ready!Ended
  <2>4. SlotsSeen' /\ Ready!OneFailureIsForgiven'
    BY <1>0, <2>1 DEF SlotsSeen, Ready!OneFailureIsForgiven
  <2>5. Ready!LastLookAtDeadline'
    BY <1>0, <1>t, <2>1 DEF InTime, Ready!LastLookAtDeadline
  <2> QED
    BY <1>1, <2>1, <2>3, <2>4, <2>5 DEF ReadyInv
<1>6. CASE Ready!Wake
  <2>1. /\ waitPc = "sleep" /\ clock = wake /\ waitPc' = "read"
        /\ UNCHANGED <<serviceTasks, target, since, wake, seen, readAt, clock, failures, delays>>
    BY <1>6 DEF Ready!Wake, Ready!swarm, Ready!counters
  <2> QED
    BY <1>0, <1>1, <1>t, <2>1 DEF ReadyInv, WaitTyped, InTime, SlotsSeen, Ready!OneFailureIsForgiven,
       Ready!LastLookAtDeadline
<1>7. CASE Ready!NextTarget
  <2>1. /\ waitPc = "next" /\ UNCHANGED <<serviceTasks, wake, seen, readAt, clock, failures, delays>>
        /\ \/ waitPc' = "up" /\ UNCHANGED <<target, since>>
           \/ target # PublishedPorts /\ waitPc' = "read" /\ target' = target + 1 /\ since' = clock
    BY <1>7 DEF Ready!NextTarget, Ready!swarm, Ready!counters
  <2>2. WaitTyped' /\ InTime'
    BY <1>0, <1>t, <2>1 DEF WaitTyped, InTime, Ready!Ended
  <2>3. SlotsSeen' /\ Ready!OneFailureIsForgiven' /\ Ready!LastLookAtDeadline'
    BY <1>0, <2>1 DEF SlotsSeen, Ready!OneFailureIsForgiven, Ready!LastLookAtDeadline
  <2> QED
    BY <1>1, <2>1, <2>2, <2>3 DEF ReadyInv
<1>8. CASE Ready!Tick
  <2>1. /\ UNCHANGED <<serviceTasks, waitPc, target, since, wake, seen, readAt, failures>> /\ clock' = clock + 1
        /\ \/ waitPc = "sleep" /\ clock < wake /\ UNCHANGED delays
           \/ waitPc = "late" /\ delays' = delays + 1
    BY <1>8 DEF Ready!Tick, Ready!swarm
  <2>2. WaitTyped' /\ InTime'
    BY <1>0, <1>t, <2>1 DEF WaitTyped, InTime
  <2>3. SlotsSeen' /\ Ready!OneFailureIsForgiven' /\ Ready!LastLookAtDeadline'
    BY <1>0, <2>1 DEF SlotsSeen, Ready!OneFailureIsForgiven, Ready!LastLookAtDeadline
  <2> QED
    BY <1>1, <2>1, <2>2, <2>3 DEF ReadyInv
<1> QED
  BY <1>2, <1>3, <1>4, <1>5, <1>6, <1>7, <1>8

LEMMA ReadyStep == Ready!ReadinessAssumption /\ ReadyInv /\ [Ready!Next]_(Ready!vars) => ReadyInv'
<1> SUFFICES ASSUME Ready!ReadinessAssumption, ReadyInv, [Ready!Next]_(Ready!vars) PROVE ReadyInv'
  OBVIOUS
<1>1. CASE UNCHANGED Ready!vars
  BY <1>1 DEF Ready!vars, Ready!swarm, Ready!counters, ReadyInv, TasksTyped, OneWanted, FailuresCounted,
     Ready!Failed,
              WaitTyped, SlotsSeen, InTime, Ready!OneFailureIsForgiven, Ready!LastLookAtDeadline
<1>2. ASSUME NEW p, Ready!Listens(p) PROVE ReadyInv'
  <2>1. Ready!SwarmStep /\ UNCHANGED <<serviceTasks, failures>>
    BY <1>2 DEF Ready!Listens
  <2>2. TasksTyped' /\ OneWanted' /\ FailuresCounted' /\ failures \in Nat
    BY <2>1 DEF ReadyInv, WaitTyped, TasksTyped, OneWanted, FailuresCounted, Ready!Failed
  <2> QED
    BY <2>1, <2>2, SwarmKeepsWait DEF ReadyInv
<1> QED
  BY <1>1, <1>2, SwarmKeeps, WaitKeeps DEF Ready!Next, Ready!Done

LEMMA ReadyInvariant == Ready!ReadinessAssumption /\ Ready!Spec => []ReadyInv
<1> SUFFICES ASSUME Ready!ReadinessAssumption PROVE Ready!Spec => []ReadyInv
  OBVIOUS
<1> QED
  BY ReadyStart, ReadyStep, PTL DEF Ready!Spec

\* The wait keeps its position, its target and one wanted task for each slot;
\* whenever it sleeps, its end is ahead.
THEOREM ReadinessTyped == Ready!ReadinessAssumption /\ Ready!Spec => []Ready!TypeOK
<1>1. ReadyInv => Ready!TypeOK
  BY DEF ReadyInv, WaitTyped, OneWanted, InTime, Ready!TypeOK
<1> QED
  BY <1>1, ReadyInvariant, PTL

\* A service counts as up only by a reading in which every slot has a task
\* that runs and is to run, although the code only counts tasks
\* (_wait_for_service_ready).
THEOREM SlotsRun == Ready!ReadinessAssumption /\ Ready!Spec => []EverySlotRuns
<1>1. ReadyInv => EverySlotRuns
  BY DEF ReadyInv, SlotsSeen, Ready!EverySlotRuns, EverySlotRuns
<1> QED
  BY <1>1, ReadyInvariant, PTL

\* One task that fails is forgiven; a wait lasts no longer than its timeout
\* and the calls themselves; and it looks a last time at its deadline
\* (_wait_for_service_ready, _probe_public_ports).
THEOREM WaitsAreExact == Ready!ReadinessAssumption /\ Ready!Spec => []WaitIsExact
<1>1. Ready!ReadinessAssumption /\ ReadyInv => Ready!EndsInTime
  <2> SUFFICES ASSUME Ready!ReadinessAssumption, ReadyInv PROVE Ready!EndsInTime
    OBVIOUS
  <2>1. /\ waitPc \in Ready!Ended \cup {"read", "late", "sleep", "next"} /\ WaitTimeout \in Nat
        /\ since \in Nat /\ clock \in Nat /\ delays \in Nat /\ wake \in Nat /\ InTime
    BY DEF ReadyInv, WaitTyped, Ready!ReadinessAssumption
  <2> QED
    BY <2>1 DEF InTime, Ready!EndsInTime
<1>2. ReadyInv => Ready!OneFailureIsForgiven /\ Ready!LastLookAtDeadline
  BY DEF ReadyInv
<1>3. Ready!ReadinessAssumption /\ ReadyInv => WaitIsExact
  BY <1>1, <1>2 DEF WaitIsExact
<1> SUFFICES ASSUME Ready!ReadinessAssumption PROVE Ready!Spec => []WaitIsExact
  OBVIOUS
<1> QED
  BY <1>3, ReadyInvariant, PTL

-----------------------------------------------------------------------------
(***************************************************************************)
(* The polling of one build (PollingChains), for any intervals that the    *)
(* assumption allows and any number of crashes.  Every message, and the    *)
(* operation at work, has a bound on the time in which it is done with,    *)
(* crashes and redeliveries included (TimeLeft).  A message that a poll or *)
(* a start has sent comes to its end before the last poll is stale; one    *)
(* that recovery has sent does so before recovery's next tick (Soon).      *)
(* Bags matter only by what they contain.                                  *)
(***************************************************************************)
\* what the crashes to come may cost
Spare == 2 * Lateness * (MaxCrashes - crashes)

\* the time in which a message is done with, and so an operation
TimeLeft(m, spare) == m.wait + 2 * Lateness + spare
LeftNow(e, spare) == Lateness - e + spare

\* the longest life of a start message, of a poll, and of a poll after a start
StartLife == 2 * Lateness * (1 + MaxCrashes)
PollLife == PollInterval + StartLife
Both == PollLife + 2 * Lateness

\* what is done with in d, of a build polled p ago and t before the next tick
Soon(kind, d, p, t) ==
    \/ p = Chains!Never
    \/ p + d <= IF kind = "start" THEN StartLife ELSE Both
    \/ kind = "poll" /\ RecoveryInterval - t + d <= PollLife

ChainsTyped ==
    /\ status \in {"queued", "building", "deploying", "ended"}
    /\ polled \in Nat \cup {Chains!Never}
    /\ at \in {"idle", "start", "poll", "deploy", "done"} /\ elapsed \in Nat
    /\ timer \in 0..RecoveryInterval /\ crashes \in 0..MaxCrashes
    /\ \A m \in DOMAIN pending : m \in Chains!Message /\ (m.kind = "start" => m.wait <= 0)
    /\ task \in Chains!Message

Placement ==
    /\ at = "start" /\ task.kind = "poll" => status = "queued"
    /\ at = "poll" => status # "queued" /\ task.kind = "poll"
    /\ at = "deploy" => status = "deploying"
    /\ at \in {"start", "poll"} \/ (at = "done" /\ status = "building") => elapsed <= Lateness
    /\ status = "queued" => polled = Chains!Never

DoneInTime ==
    status = "building" =>
        /\ \A m \in DOMAIN pending : Soon(m.kind, TimeLeft(m, Spare), polled, timer)
        /\ at # "idle" => Soon(task.kind, LeftNow(elapsed, Spare), polled, timer)

ChainsInv == ChainsTyped /\ Placement /\ DoneInTime

\* What bags contain.
LEMMA Sent == ASSUME NEW m, Chains!Send(m) PROVE DOMAIN pending' = DOMAIN pending \cup {m}
  BY DEF Chains!Send, Chains!SetToBag, Chains!(+)

LEMMA Taken ==
    ASSUME NEW m, Chains!Deliver(m) \/ Chains!Drop(m)
    PROVE  DOMAIN pending' \subseteq DOMAIN pending
  BY DEF Chains!Deliver, Chains!Drop, Chains!SetToBag, Chains!(-)

\* What the assumption says of the intervals.
LEMMA Intervals ==
    ASSUME Chains!ChainsAssumption
    PROVE  /\ {PollInterval, RecoveryInterval, Lateness, MaxCrashes, StartLife, PollLife, Both} \subseteq Nat
           /\ Lateness > 0 /\ MaxAttempts \in Nat
           /\ PollLife = PollInterval + StartLife /\ Both = PollLife + 2 * Lateness
           /\ PollLife < RecoveryInterval /\ Both < 2 * RecoveryInterval
           /\ 2 * RecoveryInterval <= Chains!StaleAfter /\ Chains!StaleAfter \in Nat
           /\ 2 * Lateness <= StartLife
<1>1. /\ PollInterval \in Nat /\ RecoveryInterval \in Nat /\ Lateness \in Nat \ {0} /\ MaxCrashes \in Nat
      /\ MaxAttempts \in Nat /\ ReadinessTimeout \in Nat
      /\ RecoveryInterval > PollInterval + 2 * Lateness * (1 + MaxCrashes)
  BY DEF Chains!ChainsAssumption
<1>2. StartLife \in Nat /\ 2 * Lateness <= StartLife
  <2>1. 2 * Lateness * (1 + MaxCrashes) = 2 * Lateness + 2 * Lateness * MaxCrashes /\ 2 * Lateness * MaxCrashes \in Nat
    BY <1>1
  <2> QED
    BY <1>1, <2>1 DEF StartLife
<1>3. /\ PollLife = PollInterval + StartLife /\ Both = PollLife + 2 * Lateness
      /\ PollLife < RecoveryInterval
  BY <1>1, <1>2 DEF PollLife, Both, StartLife
<1>4. 2 * RecoveryInterval <= Chains!StaleAfter /\ Chains!StaleAfter \in Nat
  BY <1>1 DEF Chains!StaleAfter, Chains!Max
<1> QED
  BY <1>1, <1>2, <1>3, <1>4

LEMMA SpareIs ==
    ASSUME Chains!ChainsAssumption, crashes \in 0..MaxCrashes
    PROVE  Spare \in Nat /\ 2 * Lateness + Spare <= StartLife
<1>1. Lateness \in Nat /\ MaxCrashes \in Nat
  BY Intervals
<1>2. PICK k \in Nat : k = MaxCrashes - crashes /\ k <= MaxCrashes
  BY <1>1
<1>3. 2 * Lateness * k \in Nat /\ 2 * Lateness * k <= 2 * Lateness * MaxCrashes
  BY <1>1, <1>2
<1>4. 2 * Lateness * (1 + MaxCrashes) = 2 * Lateness + 2 * Lateness * MaxCrashes
  BY <1>1
<1> QED
  BY <1>1, <1>2, <1>3, <1>4 DEF Spare, StartLife

\* The less there is left, the sooner it is done.
LEMMA SoonerIsSoon ==
    ASSUME Chains!ChainsAssumption, NEW kind, NEW d \in Int, NEW e \in Int, e <= d,
           NEW p \in Nat \cup {Chains!Never}, NEW t \in Int, Soon(kind, d, p, t)
    PROVE  Soon(kind, e, p, t)
  BY Intervals DEF Soon, Chains!Never

\* A message or an operation has at most its life left.
LEMMA LeftIs ==
    ASSUME Chains!ChainsAssumption, crashes \in 0..MaxCrashes
    PROVE  /\ \A m \in Chains!Message :
                  /\ TimeLeft(m, Spare) \in Nat /\ TimeLeft(m, Spare) <= PollLife
                  /\ m.wait <= 0 => TimeLeft(m, Spare) <= StartLife
           /\ \A e \in Nat : e <= Lateness => LeftNow(e, Spare) \in Nat /\ LeftNow(e, Spare) <= StartLife
<1>1. /\ Spare \in Nat /\ 2 * Lateness + Spare <= StartLife
      /\ PollInterval \in Nat /\ Lateness \in Nat /\ StartLife \in Nat /\ PollLife = PollInterval + StartLife
  BY Intervals, SpareIs
<1>2. ASSUME NEW m \in Chains!Message
      PROVE  /\ TimeLeft(m, Spare) \in Nat /\ TimeLeft(m, Spare) <= PollLife
             /\ m.wait <= 0 => TimeLeft(m, Spare) <= StartLife
  <2>1. m.wait \in Int /\ m.wait >= -Lateness /\ m.wait <= PollInterval
    BY <1>1 DEF Chains!Message
  <2> QED
    BY <1>1, <2>1 DEF TimeLeft
<1> QED
  BY <1>1, <1>2 DEF LeftNow

LEMMA ChainsStart == ASSUME Chains!ChainsAssumption, Chains!Init PROVE ChainsInv
<1>1. DOMAIN pending = {Chains!StartMessage}
  BY DEF Chains!Init, Chains!SetToBag
<1>2. Chains!StartMessage \in Chains!Message /\ Chains!StartMessage.wait = 0 /\ Chains!StartMessage.kind = "start"
  BY Intervals DEF Chains!StartMessage, Chains!Message
<1>3. RecoveryInterval \in Nat /\ MaxCrashes \in Nat
  BY Intervals
<1>4. ChainsTyped
  BY <1>1, <1>2, <1>3 DEF Chains!Init, ChainsTyped
<1> QED
  BY <1>4 DEF Chains!Init, ChainsInv, Placement, DoneInTime

LEMMA StartMessageIs ==
    ASSUME Chains!ChainsAssumption
    PROVE  Chains!StartMessage \in Chains!Message /\ Chains!StartMessage.wait = 0 /\ Chains!StartMessage.kind = "start"
  BY Intervals DEF Chains!StartMessage, Chains!Message

LEMMA PollMessageIs ==
    ASSUME Chains!ChainsAssumption, NEW a \in 0..MaxAttempts
    PROVE  LET m == Chains!PollMessage(a)
           IN m \in Chains!Message /\ m.kind = "poll" /\ m.wait = PollInterval
  BY Intervals DEF Chains!PollMessage, Chains!Message

LEMMA DeliverKeeps ==
    ASSUME Chains!ChainsAssumption, ChainsInv, NEW m \in DOMAIN pending, Chains!Deliver(m)
    PROVE  ChainsInv'
<1>1. /\ ChainsTyped /\ m \in Chains!Message /\ m.wait \in Int /\ m.wait >= -Lateness /\ m.kind \in {"start", "poll"}
      /\ Lateness \in Nat /\ Spare \in Nat
  BY Intervals, SpareIs DEF ChainsInv, ChainsTyped, Chains!Message
<1>2. /\ at = "idle" /\ m.wait <= 0 /\ status # "ended"
      /\ at' = (IF m.kind = "start" \/ status = "queued" THEN "start" ELSE "poll")
      /\ task' = m /\ elapsed' = 0 /\ UNCHANGED <<status, polled, timer, crashes>>
      /\ DOMAIN pending' \subseteq DOMAIN pending
  BY Taken DEF Chains!Deliver
<1>3. ChainsTyped' /\ Placement'
  BY <1>1, <1>2 DEF ChainsInv, ChainsTyped, Placement
<1>4. LeftNow(0, Spare) \in Int /\ LeftNow(0, Spare) <= TimeLeft(m, Spare) /\ TimeLeft(m, Spare) \in Int
  BY <1>1 DEF LeftNow, TimeLeft
<1>5. ASSUME status = "building" PROVE Soon(m.kind, LeftNow(0, Spare), polled, timer)
  <2>1. Soon(m.kind, TimeLeft(m, Spare), polled, timer)
    BY <1>5 DEF ChainsInv, DoneInTime
  <2>2. polled \in Nat \cup {Chains!Never} /\ timer \in Int
    BY <1>1, Intervals DEF ChainsTyped
  <2> QED
    BY <1>4, <2>1, <2>2, SoonerIsSoon
<1>6. Spare' = Spare
  BY <1>2 DEF Spare
<1>7. DoneInTime'
  BY <1>2, <1>5, <1>6 DEF ChainsInv, DoneInTime
<1> QED
  BY <1>3, <1>7 DEF ChainsInv

LEMMA DropKeeps ==
    ASSUME Chains!ChainsAssumption, ChainsInv, NEW m \in DOMAIN pending, Chains!Drop(m)
    PROVE  ChainsInv'
<1>1. DOMAIN pending' \subseteq DOMAIN pending /\ UNCHANGED <<status, polled, at, task, elapsed, timer, crashes>>
  BY Taken DEF Chains!Drop
<1>2. Spare' = Spare
  BY <1>1 DEF Spare
<1> QED
  BY <1>1, <1>2 DEF ChainsInv, ChainsTyped, Placement, DoneInTime

\* At a tick, what recovery has sent before is done with.
LEMMA RecoverKeeps ==
    ASSUME Chains!ChainsAssumption, ChainsInv, Chains!Recover
    PROVE  ChainsInv'
<1> DEFINE p == Chains!PollMessage(0)
<1>1. /\ ChainsTyped /\ timer = 0 /\ timer' = RecoveryInterval
      /\ UNCHANGED <<status, polled, at, task, elapsed, crashes>> /\ RecoveryInterval \in Nat
      /\ crashes \in 0..MaxCrashes
  BY Intervals DEF ChainsInv, ChainsTyped, Chains!Recover
<1>2. ASSUME NEW kind, NEW d \in Nat, Soon(kind, d, polled, 0) PROVE Soon(kind, d, polled, RecoveryInterval)
  BY <1>1, <1>2, Intervals DEF Soon
<1>3. \/ UNCHANGED pending
      \/ status = "queued" /\ Chains!Send(Chains!StartMessage)
      \/ status # "queued" /\ Chains!Send(p)
  BY DEF Chains!Recover
<1>4. p \in Chains!Message /\ p.kind = "poll" /\ TimeLeft(p, Spare) \in Nat /\ TimeLeft(p, Spare) <= PollLife
  BY <1>1, PollMessageIs, LeftIs, Intervals
<1> HIDE DEF p
<1>5. Soon("poll", TimeLeft(p, Spare), polled, RecoveryInterval)
  BY <1>1, <1>4, Intervals DEF Soon
<1>6. ChainsTyped' /\ Placement'
  <2>1. \A m \in DOMAIN pending' : m \in Chains!Message /\ (m.kind = "start" => m.wait <= 0)
    <3>1. DOMAIN pending' \subseteq DOMAIN pending \cup {Chains!StartMessage, p}
      BY <1>3, Sent
    <3>2. \A m \in DOMAIN pending : m \in Chains!Message /\ (m.kind = "start" => m.wait <= 0)
      BY <1>1 DEF ChainsTyped
    <3> QED
      BY <1>4, <3>1, <3>2, StartMessageIs
  <2>2. ChainsTyped'
    BY <1>1, <2>1 DEF ChainsTyped
  <2>3. Placement'
    BY <1>1 DEF ChainsInv, Placement
  <2> QED
    BY <2>2, <2>3
<1>7. ASSUME status = "building", NEW m \in DOMAIN pending PROVE Soon(m.kind, TimeLeft(m, Spare), polled, RecoveryInterval)
  <2>1. Soon(m.kind, TimeLeft(m, Spare), polled, 0) /\ TimeLeft(m, Spare) \in Nat
    BY <1>1, <1>7, LeftIs DEF ChainsInv, DoneInTime, ChainsTyped
  <2> QED
    BY <1>2, <2>1
<1>8. ASSUME status = "building", at # "idle" PROVE Soon(task.kind, LeftNow(elapsed, Spare), polled, RecoveryInterval)
  <2>1. elapsed <= Lateness /\ elapsed \in Nat
    BY <1>8 DEF ChainsInv, ChainsTyped, Placement
  <2>2. Soon(task.kind, LeftNow(elapsed, Spare), polled, 0) /\ LeftNow(elapsed, Spare) \in Nat
    BY <1>1, <1>8, <2>1, LeftIs DEF ChainsInv, DoneInTime
  <2> QED
    BY <1>2, <2>2
<1>9. Spare' = Spare
  BY <1>1 DEF Spare
<1>10. DOMAIN pending' \subseteq DOMAIN pending \cup {p} \/ status = "queued"
  BY <1>3, Sent
<1>11. DoneInTime'
  BY <1>1, <1>4, <1>5, <1>7, <1>8, <1>9, <1>10 DEF DoneInTime
<1> QED
  BY <1>6, <1>11 DEF ChainsInv

LEMMA StartKeeps == ASSUME Chains!ChainsAssumption, ChainsInv, Chains!Start PROVE ChainsInv'
<1> DEFINE m == Chains!PollMessage(0)
<1>1. /\ ChainsTyped /\ at = "start" /\ at' = "done" /\ status' = (IF status = "queued" THEN "building" ELSE status)
      /\ UNCHANGED <<polled, task, elapsed, timer, crashes>> /\ elapsed <= Lateness
      /\ DOMAIN pending' = DOMAIN pending \cup {m}
  BY Sent DEF ChainsInv, Placement, Chains!Start
<1>2. m \in Chains!Message /\ m.kind = "poll" /\ m.wait = PollInterval
  BY <1>1, PollMessageIs, Intervals
<1> HIDE DEF m
<1>3. ChainsTyped'
  BY <1>1, <1>2 DEF ChainsTyped
<1>4. Placement'
  BY <1>1 DEF ChainsInv, Placement
<1>5. Spare' = Spare
  BY <1>1 DEF Spare
<1>6. CASE status = "queued"
  <2>1. polled' = Chains!Never
    BY <1>1, <1>6 DEF ChainsInv, Placement
  <2>2. DoneInTime'
    BY <2>1 DEF DoneInTime, Soon
  <2> QED
    BY <1>3, <1>4, <2>2 DEF ChainsInv
<1>7. CASE status # "queued"
  <2>1. /\ task.kind = "start" /\ elapsed \in Nat /\ Lateness \in Nat /\ PollInterval \in Nat /\ Spare \in Nat
        /\ polled \in Nat \cup {Chains!Never}
    BY <1>1, <1>7, Intervals, SpareIs DEF ChainsInv, ChainsTyped, Placement, Chains!Message
  <2>2. /\ LeftNow(elapsed, Spare) \in Nat /\ TimeLeft(m, Spare) \in Nat
        /\ TimeLeft(m, Spare) <= LeftNow(elapsed, Spare) + PollInterval + 2 * Lateness
    BY <1>1, <1>2, <2>1 DEF LeftNow, TimeLeft
  <2>3. Soon("start", LeftNow(elapsed, Spare), polled, timer) => Soon("poll", TimeLeft(m, Spare), polled, timer)
    BY <2>1, <2>2, Intervals DEF Soon
  <2>4. DoneInTime'
    BY <1>1, <1>2, <1>5, <1>7, <2>1, <2>3 DEF ChainsInv, DoneInTime
  <2> QED
    BY <1>3, <1>4, <2>4 DEF ChainsInv
<1> QED
  BY <1>6, <1>7

\* With a poll, every message is a fresh one.
LEMMA PollKeeps == ASSUME Chains!ChainsAssumption, ChainsInv, Chains!Poll PROVE ChainsInv'
<1> DEFINE m == Chains!PollMessage(task.attempt + 1)
<1>1. /\ ChainsTyped /\ at = "poll" /\ status = "building" /\ task.kind = "poll" /\ elapsed <= Lateness
      /\ elapsed \in Nat /\ crashes \in 0..MaxCrashes
  BY DEF ChainsInv, ChainsTyped, Placement, Chains!Poll
<1>2. /\ at' = "done" /\ polled' = 0 /\ UNCHANGED <<status, task, elapsed, timer, crashes>>
      /\ DOMAIN pending' = DOMAIN pending \cup {m}
  BY Sent DEF Chains!Poll
<1>3. task.attempt \in 0..MaxAttempts /\ ~(task.attempt >= MaxAttempts) /\ MaxAttempts \in Nat
  BY <1>1, Intervals DEF ChainsTyped, Chains!Message, Chains!Poll, Chains!Limited
<1>4. m \in Chains!Message /\ m.kind = "poll" /\ m.wait = PollInterval
  BY <1>3, PollMessageIs
<1> HIDE DEF m
<1>5. ChainsTyped' /\ Placement'
  BY <1>1, <1>2, <1>4 DEF ChainsInv, ChainsTyped, Placement
<1>6. ASSUME NEW n \in DOMAIN pending' PROVE Soon(n.kind, TimeLeft(n, Spare), 0, timer)
  <2>1. n \in Chains!Message /\ (n.kind = "start" => n.wait <= 0)
    BY <1>1, <1>2, <1>4 DEF ChainsTyped
  <2>2. TimeLeft(n, Spare) \in Nat /\ TimeLeft(n, Spare) <= PollLife /\ (n.kind = "start" => TimeLeft(n, Spare) <= StartLife)
    BY <1>1, <2>1, LeftIs
  <2> QED
    BY <2>2, Intervals DEF Soon
<1>7. Soon(task.kind, LeftNow(elapsed, Spare), 0, timer)
  <2>1. LeftNow(elapsed, Spare) \in Nat /\ LeftNow(elapsed, Spare) <= StartLife
    BY <1>1, LeftIs
  <2> QED
    BY <2>1, Intervals DEF Soon
<1>8. Spare' = Spare
  BY <1>2 DEF Spare
<1>9. DoneInTime'
  BY <1>2, <1>6, <1>7, <1>8 DEF DoneInTime
<1> QED
  BY <1>5, <1>9 DEF ChainsInv

\* What sends nothing, and does not let the build go on building.
LEMMA OtherOperationsKeep ==
    ASSUME Chains!ChainsAssumption, ChainsInv, Chains!Fail \/ Chains!PollSucceeds \/ Chains!Deploy \/ Chains!Return
    PROVE  ChainsInv'
<1>1. CASE Chains!Fail \/ Chains!Deploy
  BY <1>1 DEF Chains!Fail, Chains!Deploy, ChainsInv, ChainsTyped, Placement, DoneInTime
<1>2. CASE Chains!PollSucceeds
  BY <1>2 DEF Chains!PollSucceeds, ChainsInv, ChainsTyped, Placement, DoneInTime
<1>3. CASE Chains!Return
  <2>1. Spare' = Spare
    BY <1>3 DEF Chains!Return, Spare
  <2> QED
    BY <1>3, <2>1 DEF Chains!Return, ChainsInv, ChainsTyped, Placement, DoneInTime
<1> QED
  BY <1>1, <1>2, <1>3

\* A redelivery takes what the crash has cost from what is left.
LEMMA CrashKeeps == ASSUME Chains!ChainsAssumption, ChainsInv, Chains!Crash PROVE ChainsInv'
<1> DEFINE m == [task EXCEPT !.wait = 0]
<1>1. /\ ChainsTyped /\ at # "idle" /\ crashes < MaxCrashes /\ at' = "idle" /\ crashes' = crashes + 1
      /\ UNCHANGED <<status, polled, task, elapsed, timer>> /\ DOMAIN pending' = DOMAIN pending \cup {m}
      /\ Lateness \in Nat /\ MaxCrashes \in Nat /\ crashes \in 0..MaxCrashes /\ elapsed \in Nat
      /\ polled \in Nat \cup {Chains!Never} /\ timer \in Int
  <2>1. /\ ChainsTyped /\ Lateness \in Nat /\ MaxCrashes \in Nat /\ crashes \in 0..MaxCrashes /\ elapsed \in Nat
        /\ polled \in Nat \cup {Chains!Never} /\ timer \in Int
    BY Intervals DEF ChainsInv, ChainsTyped
  <2>2. /\ at # "idle" /\ crashes < MaxCrashes /\ at' = "idle" /\ crashes' = crashes + 1
        /\ UNCHANGED <<status, polled, task, elapsed, timer>> /\ Chains!Send(m)
    BY DEF Chains!Crash
  <2> QED
    BY <2>1, <2>2, Sent
<1>2. m \in Chains!Message /\ m.kind = task.kind /\ m.wait = 0
  BY <1>1, Intervals DEF ChainsTyped, Chains!Message
<1> HIDE DEF m
<1>3. ChainsTyped'
  BY <1>1, <1>2 DEF ChainsTyped
<1>4. Placement'
  <2>1. at' = "idle" /\ UNCHANGED <<status, polled>>
    BY <1>1
  <2> QED
    BY <2>1 DEF ChainsInv, Placement
<1>5. Spare \in Nat /\ Spare' \in Int /\ Spare' = Spare - 2 * Lateness
  <2>1. Spare \in Nat
    BY <1>1, SpareIs
  <2>2. 2 * Lateness * (MaxCrashes - (crashes + 1)) = 2 * Lateness * (MaxCrashes - crashes) - 2 * Lateness
    BY <1>1
  <2> QED
    BY <1>1, <2>1, <2>2 DEF Spare
<1>6. ASSUME status = "building" PROVE Soon(m.kind, TimeLeft(m, Spare'), polled, timer)
  <2>1. elapsed <= Lateness
    BY <1>1, <1>6 DEF ChainsInv, ChainsTyped, Placement
  <2>2. /\ LeftNow(elapsed, Spare) \in Int /\ TimeLeft(m, Spare') \in Int
        /\ TimeLeft(m, Spare') <= LeftNow(elapsed, Spare)
    BY <1>1, <1>2, <1>5, <2>1 DEF LeftNow, TimeLeft
  <2>3. Soon(m.kind, LeftNow(elapsed, Spare), polled, timer)
    BY <1>1, <1>2, <1>6 DEF ChainsInv, DoneInTime
  <2> QED
    BY <1>1, <2>2, <2>3, SoonerIsSoon
<1>7. ASSUME status = "building", NEW n \in DOMAIN pending PROVE Soon(n.kind, TimeLeft(n, Spare'), polled, timer)
  <2>1. Soon(n.kind, TimeLeft(n, Spare), polled, timer) /\ n.wait \in Int
    BY <1>1, <1>7, Intervals DEF ChainsInv, DoneInTime, ChainsTyped, Chains!Message
  <2>2. TimeLeft(n, Spare) \in Int /\ TimeLeft(n, Spare') \in Int /\ TimeLeft(n, Spare') <= TimeLeft(n, Spare)
    BY <1>1, <1>5, <2>1 DEF TimeLeft
  <2> QED
    BY <1>1, <2>1, <2>2, SoonerIsSoon
<1>8. DoneInTime'
  BY <1>1, <1>6, <1>7 DEF DoneInTime
<1> QED
  BY <1>3, <1>4, <1>8 DEF ChainsInv

\* Time takes from what is left as it adds to the age of the last poll.
LEMMA PassKeeps == ASSUME Chains!ChainsAssumption, ChainsInv, Chains!Pass PROVE ChainsInv'
<1>1. /\ ChainsTyped /\ timer > 0 /\ timer' = timer - 1 /\ at # "done"
      /\ elapsed' = (IF at = "idle" THEN elapsed ELSE elapsed + 1)
      /\ (at # "idle" => elapsed < Chains!Limit) /\ polled' = Chains!Age(polled)
      /\ UNCHANGED <<status, at, task, crashes>>
      /\ \A n \in DOMAIN pending : n.wait > -Lateness
      /\ DOMAIN pending' = {Chains!Sooner(n) : n \in DOMAIN pending}
  BY DEF ChainsInv, Chains!Pass, Chains!BagToSet
<1>2. /\ Lateness \in Nat /\ PollInterval \in Nat /\ RecoveryInterval \in Nat /\ timer \in Int /\ elapsed \in Nat
      /\ Spare \in Nat /\ Spare' = Spare
  <2>1. Spare' = Spare
    BY <1>1 DEF Spare
  <2> QED
    BY <1>1, <2>1, Intervals, SpareIs DEF ChainsTyped
<1>3. /\ polled' \in Nat \cup {Chains!Never} /\ (polled = Chains!Never <=> polled' = Chains!Never)
      /\ polled # Chains!Never => polled \in Nat /\ polled' <= polled + 1
  BY <1>1 DEF Chains!Age, Chains!Never, ChainsTyped
<1>4. ASSUME NEW n \in DOMAIN pending
      PROVE  LET m == Chains!Sooner(n)
             IN m \in Chains!Message /\ m.kind = n.kind /\ m.wait = n.wait - 1 /\ n.wait \in Int
  BY <1>1, <1>2, <1>4 DEF Chains!Sooner, Chains!Message, ChainsTyped
<1>5. ChainsTyped'
  <2>1. \A m \in DOMAIN pending' : m \in Chains!Message /\ (m.kind = "start" => m.wait <= 0)
    <3> SUFFICES ASSUME NEW n \in DOMAIN pending
                 PROVE  LET m == Chains!Sooner(n) IN m \in Chains!Message /\ (m.kind = "start" => m.wait <= 0)
      BY <1>1
    <3>1. n.kind = "start" => n.wait <= 0
      BY <1>1 DEF ChainsTyped
    <3> QED
      BY <1>4, <3>1
  <2> QED
    BY <1>1, <1>2, <1>3, <2>1 DEF ChainsTyped
<1>6. Placement'
  BY <1>1, <1>2, <1>3 DEF ChainsInv, Placement, Chains!Limit
<1>7. ASSUME NEW kind, NEW d \in Int, Soon(kind, d, polled, timer) PROVE Soon(kind, d - 1, polled', timer')
  BY <1>1, <1>2, <1>3, <1>7, Intervals DEF Soon
<1>8. ASSUME status = "building", NEW n \in DOMAIN pending
      PROVE  Soon(Chains!Sooner(n).kind, TimeLeft(Chains!Sooner(n), Spare), polled', timer')
  <2>1. Soon(n.kind, TimeLeft(n, Spare), polled, timer)
    BY <1>8 DEF ChainsInv, DoneInTime
  <2>2. TimeLeft(n, Spare) \in Int /\ TimeLeft(Chains!Sooner(n), Spare) = TimeLeft(n, Spare) - 1
    BY <1>2, <1>4, <1>8 DEF TimeLeft
  <2> QED
    BY <1>4, <1>7, <1>8, <2>1, <2>2
<1>9. ASSUME status = "building", at # "idle" PROVE Soon(task.kind, LeftNow(elapsed + 1, Spare), polled', timer')
  <2>1. Soon(task.kind, LeftNow(elapsed, Spare), polled, timer)
    BY <1>9 DEF ChainsInv, DoneInTime
  <2>2. LeftNow(elapsed, Spare) \in Int /\ LeftNow(elapsed + 1, Spare) = LeftNow(elapsed, Spare) - 1
    BY <1>2 DEF LeftNow
  <2> QED
    BY <1>7, <2>1, <2>2
<1>10. DoneInTime'
  BY <1>1, <1>2, <1>8, <1>9 DEF DoneInTime
<1> QED
  BY <1>5, <1>6, <1>10 DEF ChainsInv

LEMMA ChainsStep == ASSUME Chains!ChainsAssumption, ChainsInv, [Chains!Next]_(Chains!vars) PROVE ChainsInv'
<1>1. CASE UNCHANGED Chains!vars
  BY <1>1 DEF Chains!vars, ChainsInv, ChainsTyped, Placement, DoneInTime, Spare
<1>2. CASE Chains!Next
  BY <1>2, DeliverKeeps, DropKeeps, RecoverKeeps, StartKeeps, PollKeeps, OtherOperationsKeep, CrashKeeps,
     PassKeeps
  DEF Chains!Next, Chains!BagToSet
<1> QED
  BY <1>1, <1>2

\* A tick that adds a chain does so to a build that was never polled, deploys,
\* or has no active chain.
LEMMA TickSparesStep ==
    ASSUME Chains!ChainsAssumption, ChainsInv, Chains!Next, Chains!Adds
    PROVE  polled = Chains!Never \/ status = "deploying" \/ ~Chains!Active
<1> SUFFICES ASSUME polled # Chains!Never, status # "deploying", Chains!Active PROVE FALSE
  OBVIOUS
<1>1. /\ timer = 0 /\ timer' = RecoveryInterval /\ status = "building" /\ pending' # pending
      /\ RecoveryInterval \in Nat /\ RecoveryInterval > 0 /\ polled \in Nat /\ crashes \in 0..MaxCrashes
  BY Intervals DEF Chains!Adds, ChainsInv, ChainsTyped
<1>2. Chains!Recover
  <2>1. ASSUME NEW m, Chains!Deliver(m) \/ Chains!Drop(m) PROVE FALSE
    BY <1>1, <2>1 DEF Chains!Deliver, Chains!Drop
  <2>2. ~Chains!Fail /\ ~Chains!Start /\ ~Chains!Poll /\ ~Chains!PollSucceeds /\ ~Chains!Deploy /\ ~Chains!Return
    BY <1>1 DEF Chains!Fail, Chains!Start, Chains!Poll, Chains!PollSucceeds, Chains!Deploy, Chains!Return
  <2>3. ~Chains!Crash /\ ~Chains!Pass
    BY <1>1 DEF Chains!Crash, Chains!Pass
  <2> QED
    BY <2>1, <2>2, <2>3 DEF Chains!Next
<1>3. polled >= Chains!StaleAfter
  BY <1>1, <1>2 DEF Chains!Recover
<1>4. PICK d \in Nat : Soon("poll", d, polled, timer)
  <2>1. CASE at = "poll"
    <3>1. task.kind = "poll" /\ elapsed \in Nat /\ elapsed <= Lateness
      BY <2>1 DEF ChainsInv, ChainsTyped, Placement
    <3>2. Soon("poll", LeftNow(elapsed, Spare), polled, timer)
      BY <1>1, <2>1, <3>1 DEF ChainsInv, DoneInTime
    <3>3. LeftNow(elapsed, Spare) \in Nat
      BY <1>1, <3>1, LeftIs
    <3> QED
      BY <3>2, <3>3
  <2>2. CASE \E m \in DOMAIN pending : m.kind = "poll"
    <3>1. PICK m \in DOMAIN pending : m.kind = "poll"
      BY <2>2
    <3>2. TimeLeft(m, Spare) \in Nat /\ Soon("poll", TimeLeft(m, Spare), polled, timer)
      BY <1>1, <3>1, LeftIs DEF ChainsInv, ChainsTyped, DoneInTime
    <3> QED
      BY <3>2
  <2> QED
    BY <1>1, <2>1, <2>2 DEF Chains!Active, Chains!BagToSet, ChainsInv, Placement
<1>5. polled + d <= Both
  BY <1>1, <1>4, Intervals DEF Soon
<1>6. Chains!StaleAfter \in Int /\ Both < Chains!StaleAfter
  BY Intervals
<1> QED
  BY <1>1, <1>3, <1>5, <1>6, Intervals

\* While Jenkins builds, a recovery tick leaves alone a build that was ever
\* polled and whose chain is active, across crashes and lost chains
\* (recover_builds).
THEOREM TickSpares == ASSUME Chains!ChainsAssumption PROVE Chains!Spec => TickSparesChain
<1>1. Chains!Init => ChainsInv
  BY ChainsStart
<1>2. ChainsInv /\ [Chains!Next]_(Chains!vars) => ChainsInv'
  BY ChainsStep
<1>3. ChainsInv /\ [Chains!Next]_(Chains!vars)
        => [Chains!Adds => polled = Chains!Never \/ status = "deploying" \/ ~Chains!Active]_(Chains!vars)
  BY TickSparesStep
<1> QED
  BY <1>1, <1>2, <1>3, PTL DEF Chains!Spec, Chains!TickSparesChain, TickSparesChain

\* A poll is followed by attempts within the limit, an operation runs under its
\* lease, no longer than the longest operation (PollingChains).
ChainsBounded ==
    /\ polled = Chains!Never \/ polled <= Chains!StaleAfter
    /\ elapsed <= Lateness \/ elapsed <= DeployTime
    /\ at # "idle" => pollLease = LeaseTime
    /\ pollLease \in 0..LeaseTime

LEMMA ChainsBoundedStep ==
    ASSUME Chains!ChainsAssumption, ChainsInv, ChainsBounded, [Chains!Next]_(Chains!vars)
    PROVE  ChainsBounded'
<1>1. /\ ChainsTyped /\ Lateness \in Nat /\ DeployTime \in Nat /\ LeaseTime \in Nat /\ Chains!StaleAfter \in Nat
      /\ elapsed \in Nat /\ polled \in Nat \cup {Chains!Never} /\ pollLease \in 0..LeaseTime
  BY Intervals DEF ChainsInv, ChainsTyped, ChainsBounded, Chains!ChainsAssumption
<1>2. CASE UNCHANGED Chains!vars
  BY <1>2 DEF Chains!vars, ChainsBounded
<1>3. ASSUME NEW m, Chains!Deliver(m) PROVE ChainsBounded'
  BY <1>1, <1>3 DEF Chains!Deliver, ChainsBounded
<1>4. ASSUME NEW m, Chains!Drop(m) PROVE ChainsBounded'
  BY <1>4 DEF Chains!Drop, ChainsBounded
<1>5. CASE Chains!Recover \/ Chains!Fail \/ Chains!Start \/ Chains!Deploy
  BY <1>1, <1>5 DEF Chains!Recover, Chains!Fail, Chains!Start, Chains!Deploy, ChainsBounded
<1>6. CASE Chains!Poll \/ Chains!PollSucceeds
  BY <1>1, <1>6 DEF Chains!Poll, Chains!PollSucceeds, ChainsBounded
<1>7. CASE Chains!Return \/ Chains!Crash
  BY <1>1, <1>7 DEF Chains!Return, Chains!Crash, ChainsBounded
<1>8. CASE Chains!Pass
  <2>1. polled' = Chains!Never \/ polled' <= Chains!StaleAfter
    BY <1>1, <1>8 DEF Chains!Pass, Chains!Age, Chains!Never, ChainsBounded
  <2>2. elapsed' <= Lateness \/ elapsed' <= DeployTime
    BY <1>1, <1>8 DEF Chains!Pass, Chains!Limit, ChainsBounded
  <2>3. (at' # "idle" => pollLease' = LeaseTime) /\ pollLease' \in 0..LeaseTime
    BY <1>1, <1>8 DEF Chains!Pass, Chains!Max, ChainsBounded
  <2> QED
    BY <2>1, <2>2, <2>3 DEF ChainsBounded
<1> QED
  BY <1>2, <1>3, <1>4, <1>5, <1>6, <1>7, <1>8 DEF Chains!Next

\* The messages and the operation of a polling chain keep their types.
LEMMA ChainsKeepTypes == ASSUME Chains!ChainsAssumption PROVE Chains!Spec => []Chains!TypeOK
<1>1. Chains!Init => ChainsInv /\ ChainsBounded
  BY ChainsStart, Intervals DEF Chains!Init, ChainsBounded, Chains!ChainsAssumption
<1>2. ChainsInv /\ ChainsBounded /\ [Chains!Next]_(Chains!vars) => (ChainsInv /\ ChainsBounded)'
  BY ChainsStep, ChainsBoundedStep
<1>3. ChainsInv /\ ChainsBounded => Chains!TypeOK
  <2> SUFFICES ASSUME ChainsInv, ChainsBounded PROVE Chains!TypeOK
    OBVIOUS
  <2>1. /\ ChainsTyped /\ Lateness \in Nat /\ DeployTime \in Nat /\ Chains!StaleAfter \in Nat
        /\ elapsed \in Nat /\ polled \in Nat \cup {Chains!Never}
    BY Intervals DEF ChainsInv, ChainsTyped, Chains!ChainsAssumption
  <2>2. polled \in -1..Chains!StaleAfter /\ elapsed \in 0..Chains!Max(Lateness, DeployTime)
    BY <2>1 DEF ChainsBounded, Chains!Never, Chains!Max
  <2>3. Chains!BagToSet(pending) \subseteq Chains!Message
    BY <2>1 DEF ChainsTyped, Chains!BagToSet
  <2> QED
    BY <2>1, <2>2, <2>3 DEF ChainsTyped, ChainsBounded, Chains!TypeOK
<1> QED
  BY <1>1, <1>2, <1>3, PTL DEF Chains!Spec

-----------------------------------------------------------------------------
\* Objects, records and documents of every service keep their types.
THEOREM ServicesTyped ==
    ASSUME Ready!ReadinessAssumption, Git!CommitAssumption, Provider!EnvironmentAssumption, Images!MirrorAssumption,
           Stacks!SeedAssumption, Apps!BoundAssumption
    PROVE  Spec /\ RoleSpec /\ Ready!Spec /\ Git!Spec /\ Provider!Spec /\ Images!Spec /\ Stacks!Spec /\ RecordSpec
             => []ServicesTypeOK
<1>1. ServicesTypeOK <=>
        /\ TypeOK /\ RoleTypeOK
        /\ Ready!TypeOK /\ Git!TypeOK /\ Provider!TypeOK /\ Images!TypeOK /\ Stacks!TypeOK /\ Apps!TypeOK
  BY DEF ServicesTypeOK
<1> QED
  BY <1>1, TypeCorrect, RolesTyped, ReadinessTyped, CheckoutTyped, ProviderTyped, ImagesKeepTypes,
     StacksKeepTypes,
     ApplicationTyped, RecordIsApplication, PTL

\* Waits, agent runs and polling chains keep their types, and each relates its
\* position to what it has in hand.
THEOREM EndingsTyped ==
    ASSUME Ready!ReadinessAssumption, Agent!RunAssumption, Chains!ChainsAssumption
    PROVE  Ready!Spec /\ Agent!Spec /\ Chains!Spec => []EndingsTypeOK
<1>1. EndingsTypeOK <=> Ready!TypeOK /\ Agent!TypeOK /\ Chains!TypeOK
  BY DEF EndingsTypeOK
<1> QED
  BY <1>1, ReadinessTyped, RunTyped, ChainsKeepTypes, PTL
-----------------------------------------------------------------------------
(***************************************************************************)
(* The Compose document of a build.                                        *)
(***************************************************************************)
\* The smallest number of a set of numbers: of nested intervals one is innermost.
LEMMA LeastNumber == ASSUME NEW S \in SUBSET Nat, S # {} PROVE \E x \in S : \A y \in S : x <= y
<1> DEFINE T == {0..x : x \in S}
<1>1. \A x \in S : 0..x \in SUBSET Nat /\ IsFiniteSet(0..x)
  BY FS_Interval
<1>2. T \subseteq FiniteSubsetsOf(Nat) /\ T # {}
  BY <1>1 DEF FiniteSubsetsOf
<1>3. PICK t \in T : \A u \in T : ~(<<u, t>> \in StrictSubsetOrdering(Nat))
  <2> HIDE DEF T
  <2> QED
    BY <1>2, FS_StrictSubsetOrderingWellFounded, WFMin
<1>4. PICK x \in S : t = 0..x
  BY <1>3
<1>5. ASSUME NEW y \in S, y < x PROVE FALSE
  <2>1. 0..y \in T
    OBVIOUS
  <2>2. 0..y \subseteq 0..x /\ x \in 0..x /\ x \notin 0..y
    BY <1>5
  <2>3. <<0..y, t>> \in StrictSubsetOrdering(Nat)
    BY <2>2, <1>4, <1>1 DEF StrictSubsetOrdering
  <2> QED
    BY <2>1, <2>3, <1>3
<1> QED
  BY <1>5

\* What is left after one more round.
StillWaiting(d, rest) == {s \in rest : ~(d.needs[s] \subseteq d.names \ rest)}

Rounds(d, left, k) == left = [n \in 0..k |-> IF n = 0 THEN d.names ELSE StillWaiting(d, left[n - 1])]

LEMMA RoundsExist == ASSUME NEW d, NEW k \in Nat PROVE \E left : Rounds(d, left, k)
<1> DEFINE Bad == {n \in Nat : ~\E left : Rounds(d, left, n)}
<1> SUFFICES ASSUME Bad # {} PROVE FALSE
  OBVIOUS
<1>1. PICK m \in Bad : \A n \in Bad : m <= n
  <2> HIDE DEF Bad
  <2>1. Bad \in SUBSET Nat
    BY DEF Bad
  <2> QED
    BY <2>1, LeastNumber
<1>2. m \in Nat
  OBVIOUS
<1>3. m # 0
  <2> DEFINE f == [n \in 0..0 |-> d.names]
  <2>1. Rounds(d, f, 0)
    BY DEF Rounds
  <2> QED
    BY <2>1
<1>4. PICK f : Rounds(d, f, m - 1)
  <2>1. m - 1 \in Nat /\ m - 1 \notin Bad
    BY <1>1, <1>2, <1>3
  <2> QED
    BY <2>1
<1> DEFINE g == [n \in 0..m |-> IF n = m THEN StillWaiting(d, f[m - 1]) ELSE f[n]]
<1>5. \A n \in 0..m : n # m => n \in 0..(m - 1)
  BY <1>2, <1>3
<1>6. \A n \in 0..(m - 1) : f[n] = IF n = 0 THEN d.names ELSE StillWaiting(d, f[n - 1])
  BY <1>4 DEF Rounds
<1>7. \A n \in 0..m : n # 0 => n - 1 \in 0..m /\ g[n - 1] = f[n - 1]
  BY <1>2
<1>8. ASSUME NEW n \in 0..m PROVE g[n] = IF n = 0 THEN d.names ELSE StillWaiting(d, g[n - 1])
  <2>1. CASE n = m
    BY <2>1, <1>3, <1>7
  <2>2. CASE n # m
    <3>1. g[n] = f[n]
      BY <2>2
    <3>2. f[n] = IF n = 0 THEN d.names ELSE StillWaiting(d, f[n - 1])
      BY <2>2, <1>5, <1>6
    <3> HIDE DEF g
    <3> QED
      BY <3>1, <3>2, <1>7
  <2> QED
    BY <2>1, <2>2
<1>9. g = [n \in 0..m |-> g[n]]
  OBVIOUS
<1>10. Rounds(d, g, m)
  <2> HIDE DEF g
  <2> QED
    BY <1>8, <1>9 DEF Rounds
<1> QED
  BY <1>10

\* Finite sets, and how many, mean the same inside the module and here.
LEMMA DocumentCounting ==
    /\ \A S : Compose!Cardinality(S) = Cardinality(S)
    /\ \A S : Compose!IsFiniteSet(S) <=> IsFiniteSet(S)
  BY DEF Compose!Cardinality, Cardinality, Compose!IsFiniteSet, IsFiniteSet

LEMMA Lefts ==
    ASSUME NEW d, IsFiniteSet(ComposeService)
    PROVE  /\ Compose!Left(d)[0] = d.names
           /\ \A n \in 1..Cardinality(ComposeService) : Compose!Left(d)[n] = StillWaiting(d, Compose!Left(d)[n - 1])
<1> DEFINE N == Cardinality(ComposeService)
<1>1. N \in Nat
  BY FS_CardinalityType
<1>2. PICK f : Rounds(d, f, N)
  BY <1>1, RoundsExist
<1>3. Rounds(d, Compose!Left(d), N)
  BY DocumentCounting, <1>2 DEF Compose!Left, Rounds, StillWaiting
<1>4. \A n \in 0..N : Compose!Left(d)[n] = IF n = 0 THEN d.names ELSE StillWaiting(d, Compose!Left(d)[n - 1])
  <2> HIDE DEF N
  <2> QED
    BY <1>3 DEF Rounds
<1> QED
  BY <1>1, <1>4

LEMMA Antitone ==
    ASSUME NEW d, IsFiniteSet(ComposeService), 
           NEW m \in 0..Cardinality(ComposeService), NEW n \in 0..Cardinality(ComposeService), m <= n
    PROVE  Compose!Left(d)[n] \subseteq Compose!Left(d)[m]
<1> DEFINE N == Cardinality(ComposeService)
           Bad == {k \in Nat : k \in m..N /\ ~(Compose!Left(d)[k] \subseteq Compose!Left(d)[m])}
<1>1. N \in Nat
  BY FS_CardinalityType
<1> HIDE DEF N
<1> SUFFICES ASSUME Bad # {} PROVE FALSE
  BY <1>1 DEF N
<1>2. PICK k \in Bad : \A j \in Bad : k <= j
  <2> HIDE DEF Bad
  <2>1. Bad \in SUBSET Nat
    BY DEF Bad
  <2> QED
    BY <2>1, LeastNumber
<1>3. k # m /\ k \in m..N /\ m \in 0..N
  BY DEF N
<1>4. k - 1 \in Nat /\ k - 1 \in m..N /\ k \in 1..N
  BY <1>1, <1>3
<1>5. k - 1 \notin Bad
  <2> HIDE DEF Bad
  <2> QED
    BY <1>2, <1>4
<1>6. Compose!Left(d)[k - 1] \subseteq Compose!Left(d)[m]
  BY <1>4, <1>5
<1>7. Compose!Left(d)[k] \subseteq Compose!Left(d)[k - 1]
  BY <1>4, Lefts DEF N, StillWaiting
<1> QED
  BY <1>6, <1>7

\* Whoever is left and later not has a round, and needs nobody who was left with it.
LEMMA TakenInRound ==
    ASSUME NEW d, IsFiniteSet(ComposeService), Compose!Orderable(d), NEW s \in d.names
    PROVE  /\ Compose!Round(d, s) \in 1..Cardinality(ComposeService)
           /\ s \in Compose!Left(d)[Compose!Round(d, s) - 1]
           /\ d.needs[s] \subseteq d.names \ Compose!Left(d)[Compose!Round(d, s) - 1]
<1> DEFINE N == Cardinality(ComposeService)
           Out == {k \in Nat : k \in 0..N /\ s \notin Compose!Left(d)[k]}
<1>1. N \in Nat
  BY FS_CardinalityType
<1> HIDE DEF N
<1>2. N \in Out
  BY DocumentCounting, <1>1 DEF Compose!Orderable, N
<1>3. PICK k \in Out : \A j \in Out : k <= j
  <2> HIDE DEF Out
  <2>1. Out \in SUBSET Nat /\ Out # {}
    BY <1>2 DEF Out
  <2> QED
    BY <2>1, LeastNumber
<1>4. k # 0
  BY Lefts
<1>5. k \in 1..N /\ k - 1 \in 0..N /\ k - 1 \in Nat
  BY <1>1, <1>4
<1>6. s \in Compose!Left(d)[k - 1] \ Compose!Left(d)[k]
  BY <1>3, <1>5
<1>7. Compose!Round(d, s) \in 1..N /\ s \in Compose!Left(d)[Compose!Round(d, s) - 1] \ Compose!Left(d)[Compose!Round(d, s)]
  BY DocumentCounting, <1>5, <1>6 DEF Compose!Round, N
<1> QED
  BY <1>7, Lefts DEF N, StillWaiting

LEMMA NeededEarlier ==
    ASSUME NEW d, IsFiniteSet(ComposeService), Compose!Orderable(d), NEW s \in d.names, NEW t \in d.needs[s]
    PROVE  Compose!Round(d, t) < Compose!Round(d, s)
<1>1. t \in d.names /\ t \notin Compose!Left(d)[Compose!Round(d, s) - 1]
  BY TakenInRound
<1>2. t \in Compose!Left(d)[Compose!Round(d, t) - 1]
  BY <1>1, TakenInRound
<1>3. /\ Compose!Round(d, s) \in 1..Cardinality(ComposeService) /\ Compose!Round(d, t) \in 1..Cardinality(ComposeService)
      /\ Cardinality(ComposeService) \in Nat
  BY <1>1, TakenInRound, FS_CardinalityType
<1> SUFFICES ASSUME Compose!Round(d, s) <= Compose!Round(d, t) PROVE FALSE
  BY <1>3
<1>4. Compose!Left(d)[Compose!Round(d, t) - 1] \subseteq Compose!Left(d)[Compose!Round(d, s) - 1]
  BY <1>3, Antitone
<1> QED
  BY <1>1, <1>2, <1>4

LEMMA Shrinks ==
    ASSUME NEW d, IsFiniteSet(ComposeService), d.names \subseteq ComposeService, 
           \A s \in d.names : d.needs[s] \subseteq d.names, Compose!Acyclic(d),
           NEW n \in 0..Cardinality(ComposeService)
    PROVE  Compose!Left(d)[n] \subseteq d.names /\ Cardinality(Compose!Left(d)[n]) <= Cardinality(ComposeService) - n
<1> DEFINE N == Cardinality(ComposeService)
           Good(k) == Compose!Left(d)[k] \subseteq d.names /\ Cardinality(Compose!Left(d)[k]) <= N - k
           Bad == {k \in Nat : k \in 0..N /\ ~Good(k)}
<1>1. N \in Nat
  BY FS_CardinalityType
<1>2. Good(0)
  BY Lefts, FS_Subset, FS_CardinalityType
<1> HIDE DEF Good
<1> SUFFICES ASSUME Bad # {} PROVE FALSE
  BY <1>1 DEF Good
<1>3. PICK k \in Bad : \A j \in Bad : k <= j
  <2> HIDE DEF Bad
  <2>1. Bad \in SUBSET Nat
    BY DEF Bad
  <2> QED
    BY <2>1, LeastNumber
<1>4. k # 0 /\ k \in 1..N /\ k - 1 \in 0..N /\ k - 1 \in Nat
  BY <1>1, <1>2
<1>5. Good(k - 1)
  BY <1>3, <1>4
<1> DEFINE before == Compose!Left(d)[k - 1]
           after == Compose!Left(d)[k]
<1>6. after = StillWaiting(d, before)
  BY <1>4, Lefts
<1>7. before \subseteq d.names /\ Cardinality(before) <= N - (k - 1) /\ IsFiniteSet(before)
  BY <1>5, FS_Subset DEF Good
<1>8. after \subseteq before
  BY <1>6 DEF StillWaiting
<1>9. CASE before = {}
  <2>1. after = {}
    BY <1>8, <1>9
  <2>2. Cardinality(after) = 0
    BY <2>1, FS_EmptySet
  <2> QED
    BY <1>1, <1>3, <1>4, <1>7, <1>8, <2>2 DEF Good
<1>10. CASE before # {}
  <2>1. PICK s \in before : d.needs[s] \cap before = {}
    BY <1>7, <1>10 DEF Compose!Acyclic
  <2>2. s \notin after
    BY <1>6, <1>7, <2>1 DEF StillWaiting
  <2>3. Cardinality(after) <= Cardinality(before) /\ Cardinality(after) # Cardinality(before)
    BY <1>7, <1>8, <2>2, FS_Subset
  <2>4. Cardinality(after) \in Nat /\ Cardinality(before) \in Nat
    BY <1>7, <1>8, FS_Subset, FS_CardinalityType
  <2> HIDE DEF before, after
  <2>5. Cardinality(after) <= N - k
    BY <1>1, <1>4, <1>7, <2>3, <2>4
  <2> QED
    BY <1>3, <1>7, <1>8, <2>5 DEF Good, before, after
<1> QED
  BY <1>9, <1>10

\* _deployment_order succeeds if and only if no service needs itself.
LEMMA OrderableIsAcyclic ==
    ASSUME NEW d, IsFiniteSet(ComposeService), d.names \subseteq ComposeService,
           \A s \in d.names : d.needs[s] \subseteq d.names
    PROVE  Compose!Orderable(d) <=> Compose!Acyclic(d)
<1> DEFINE N == Cardinality(ComposeService)
<1>1. N \in Nat
  BY FS_CardinalityType
<1>2. ASSUME Compose!Acyclic(d) PROVE Compose!Orderable(d)
  <2>1. Compose!Left(d)[N] \subseteq d.names /\ Cardinality(Compose!Left(d)[N]) <= N - N
    BY <1>1, <1>2, Shrinks
  <2>2. IsFiniteSet(Compose!Left(d)[N])
    BY <2>1, FS_Subset
  <2>3. Cardinality(Compose!Left(d)[N]) = 0
    BY <1>1, <2>1, <2>2, FS_CardinalityType
  <2> QED
    BY DocumentCounting, <2>2, <2>3, FS_EmptySet DEF Compose!Orderable
<1>3. ASSUME Compose!Orderable(d), NEW X \in SUBSET d.names, X # {} PROVE \E s \in X : d.needs[s] \cap X = {}
  <2> DEFINE Gone == {k \in Nat : \E s \in X : k = Compose!Round(d, s)}
  <2>1. PICK k \in Gone : \A j \in Gone : k <= j
    <3>1. Gone \in SUBSET Nat /\ Gone # {}
      BY <1>1, <1>3, TakenInRound
    <3> HIDE DEF Gone
    <3> QED
      BY <3>1, LeastNumber
  <2>2. PICK s \in X : k = Compose!Round(d, s)
    OBVIOUS
  <2>3. ASSUME NEW t \in d.needs[s] \cap X PROVE FALSE
    <3>1. Compose!Round(d, t) < Compose!Round(d, s)
      BY <1>3, <2>3, NeededEarlier
    <3>2. Compose!Round(d, t) \in Nat /\ Compose!Round(d, s) \in Nat
      BY <1>1, <1>3, <2>3, TakenInRound
    <3>3. Compose!Round(d, t) \in Gone
      BY <2>3, <3>2
    <3> HIDE DEF Gone
    <3> QED
      BY <2>1, <2>2, <3>1, <3>2, <3>3
  <2> QED
    BY <2>3
<1>4. ASSUME Compose!Orderable(d) PROVE Compose!Acyclic(d)
  <2> SUFFICES ASSUME NEW X \in SUBSET d.names, X # {} PROVE \E s \in X : d.needs[s] \cap X = {}
    BY DEF Compose!Acyclic
  <2> QED
    BY <1>3, <1>4
<1> QED
  BY <1>2, <1>4

-----------------------------------------------------------------------------
\* Placeholders become values, and nothing else changes.
LEMMA ResolvedFields ==
    ASSUME NEW d \in Compose!Document, NEW a \in Compose!AppValue
    PROVE  LET r == Compose!Resolved(d, a) IN
           /\ r.names = d.names /\ r.needs = d.needs /\ r.waits = d.waits /\ r.checked = d.checked
           /\ r.mounts = d.mounts /\ r.declared = d.declared /\ r.image = d.image /\ r.odd = d.odd
           /\ \A s \in ComposeService : r.backend[s] = IF d.backend[s] = "variable" THEN a ELSE d.backend[s]
           /\ r \in Compose!Document
<1> DEFINE b == [s \in ComposeService |-> IF d.backend[s] = "variable" THEN a ELSE d.backend[s]]
           Backend == {"none", "service", "outside", "variable", "missing"}
<1>1. d.backend \in [ComposeService -> Backend]
  BY DEF Compose!Document
<1>2. b \in [ComposeService -> Backend]
  BY <1>1 DEF Compose!AppValue
<1>3. Compose!Resolved(d, a) = [d EXCEPT !.backend = b]
  BY DEF Compose!Resolved
<1> HIDE DEF b
<1>4. Compose!Resolved(d, a) \in Compose!Document
  BY <1>2, <1>3 DEF Compose!Document
<1>5. Compose!Resolved(d, a).backend = b
  BY <1>3 DEF Compose!Document
<1>6. LET r == Compose!Resolved(d, a) IN
      /\ r.names = d.names /\ r.needs = d.needs /\ r.waits = d.waits /\ r.checked = d.checked
      /\ r.mounts = d.mounts /\ r.declared = d.declared /\ r.image = d.image /\ r.odd = d.odd
  BY <1>3 DEF Compose!Document
<1> QED
  BY <1>4, <1>5, <1>6 DEF b

\* What has passed the validation before its deployment.
Sealed ==
    /\ artifact.names = source.names /\ \A s \in source.names : artifact.mounts[s] = source.mounts[s]
    /\ \A s \in artifact.names :
         /\ Compose!Convertible(artifact, s) /\ artifact.image[s] # "none" /\ artifact.needs[s] \subseteq artifact.names
         /\ artifact.mounts[s] \subseteq Storage \cup {"/snapshot"} /\ artifact.backend[s] \in {"none", "service"}
    /\ Compose!Orderable(artifact)

MountsPlaced ==
    mounted = UNION {{Compose!Physical(artifact, Owner, m) : m \in artifact.mounts[s]} : s \in deployed}

ComposeInv ==
    /\ Compose!TypeOK /\ Compose!RefusedInTime /\ MountsPlaced /\ Compose!DependenciesFirst
    /\ composePc \in {"deploying", "deployed"} => Sealed
    /\ composePc = "deployed" => deployed = artifact.names

LEMMA ComposeInit == ASSUME Compose!DocumentAssumption, Compose!Init PROVE ComposeInv
<1> USE DEF Compose!DocumentAssumption, Compose!Init
<1>1. Compose!TypeOK /\ Compose!RefusedInTime
  BY DEF Compose!TypeOK, Compose!RefusedInTime
<1> QED
  BY <1>1 DEF ComposeInv, MountsPlaced, Compose!DependenciesFirst

LEMMA ArtifactAccepting == ASSUME Compose!DocumentAssumption, ComposeInv, Compose!Accept PROVE ComposeInv'
<1> USE DEF Compose!DocumentAssumption, ComposeInv, Compose!TypeOK
<1>1. /\ artifact' = Compose!Resolved(artifact, composeApp) /\ composePc = "returned"
      /\ deployed = {} /\ deployed' = {} /\ mounted = {}
  BY DEF Compose!Accept, MountsPlaced
<1>2. /\ mounted' = {} /\ source' = source /\ composeApp' = composeApp
      /\ artifact \in Compose!Document /\ composeApp \in Compose!AppValue
  BY <1>1 DEF Compose!Accept
<1>3. composePc' \in {"deploying", "refused"}
  BY DEF Compose!Accept
<1>4. Compose!RefusedInTime' /\ MountsPlaced' /\ Compose!DependenciesFirst'
  BY <1>1, <1>2 DEF Compose!RefusedInTime, MountsPlaced, Compose!DependenciesFirst
<1>5. artifact' \in Compose!Document
  BY <1>1, <1>2, ResolvedFields
<1>6. ASSUME composePc' = "deploying" PROVE Sealed'
  <2>1. Compose!ArtifactAccepted(artifact) /\ Compose!DeployAccepts(artifact)
    BY <1>6 DEF Compose!Accept
  <2>2. /\ artifact'.names = artifact.names /\ artifact'.mounts = artifact.mounts
        /\ artifact'.image = artifact.image /\ artifact'.needs = artifact.needs
    BY <1>1, <1>2, ResolvedFields
  <2>3. artifact'.names = source.names /\ \A s \in source.names : artifact'.mounts[s] = source.mounts[s]
    BY <2>1, <2>2 DEF Compose!ArtifactAccepted, Compose!SameTopology
  <2>4. Compose!ComposeValid(artifact') /\ Compose!BuildComposeValid(artifact', "missing", {"/snapshot"})
    BY <1>1, <2>1 DEF Compose!ArtifactAccepted, Compose!DeployAccepts
  <2>5. \A s \in artifact'.names : artifact'.image[s] # "none"
    BY <2>1, <2>2 DEF Compose!ArtifactAccepted, Compose!ImagesNamed
  <2>6. \A s \in artifact'.names : Compose!Convertible(artifact', s) /\ artifact'.needs[s] \subseteq artifact'.names
    BY <2>4 DEF Compose!ComposeValid, Compose!FeaturesValid, Compose!DependenciesValid
  <2>7. \A s \in artifact'.names :
          /\ artifact'.mounts[s] \subseteq Storage \cup {"/snapshot"} /\ artifact'.backend[s] \in {"none", "service"}
    BY <2>4 DEF Compose!BuildComposeValid, Compose!PrivateBackends
  <2>8. Compose!Orderable(artifact')
    BY <2>4 DEF Compose!ComposeValid
  <2> QED
    BY <1>2, <2>3, <2>5, <2>6, <2>7, <2>8 DEF Sealed
<1>7. Compose!TypeOK'
  BY <1>1, <1>2, <1>3, <1>5
<1> QED
  BY <1>3, <1>4, <1>6, <1>7

\* The images are all that Jenkins names; what else it makes of the document is a
\* document too.
LEMMA ArtifactReturning == ASSUME Compose!DocumentAssumption, ComposeInv, Compose!Return PROVE ComposeInv'
<1> USE DEF Compose!DocumentAssumption, ComposeInv, Compose!TypeOK
<1>1. /\ composePc = "triggered" /\ composePc' = "returned" /\ deployed = {} /\ deployed' = {}
      /\ mounted' = mounted /\ source' = source /\ composeApp' = composeApp
  BY DEF Compose!Return
<1>2. PICK d \in Altered(source), named \in [ComposeService -> {"none", "own", "other"}] :
        artifact' = [d EXCEPT !.image = named]
  BY DEF Compose!Return
<1>3. d \in Compose!Document
  OBVIOUS
<1>4. artifact' \in Compose!Document
  BY <1>2, <1>3 DEF Compose!Document
<1> QED
  BY <1>1, <1>4 DEF Compose!RefusedInTime, MountsPlaced, Compose!DependenciesFirst

LEMMA ServiceDeploying ==
    ASSUME Compose!DocumentAssumption, ComposeInv, NEW s \in ComposeService, Compose!Deploy(s)
    PROVE  ComposeInv'
<1> USE DEF Compose!DocumentAssumption, ComposeInv, Compose!TypeOK
<1>1. /\ composePc = "deploying" /\ s \in artifact.names \ deployed /\ Sealed
      /\ source' = source /\ composeApp' = composeApp /\ artifact' = artifact
  BY DEF Compose!Deploy
<1>2. /\ deployed' = deployed \cup {s} /\ composePc' = composePc
      /\ mounted' = mounted \cup {Compose!Physical(artifact, Owner, m) : m \in artifact.mounts[s]}
  BY <1>1 DEF Compose!Deploy, Sealed
<1>3. MountsPlaced'
  <2> DEFINE Of(t) == {Compose!Physical(artifact, Owner, m) : m \in artifact.mounts[t]}
  <2>1. mounted = UNION {Of(t) : t \in deployed} /\ mounted' = mounted \cup Of(s)
    BY <1>2 DEF MountsPlaced
  <2>2. mounted' = UNION {Of(t) : t \in deployed \cup {s}}
    <3> HIDE DEF Of
    <3> QED
      BY <2>1
  <2> QED
    BY <1>1, <1>2, <2>2 DEF MountsPlaced, Compose!Physical
<1>4. artifact.needs[s] \subseteq deployed
  <2> SUFFICES ASSUME NEW t \in artifact.needs[s], t \notin deployed PROVE FALSE
    OBVIOUS
  <2>1. t \in artifact.names /\ Compose!Orderable(artifact)
    BY <1>1 DEF Sealed
  <2>2. Compose!Round(artifact, s) <= Compose!Round(artifact, t)
    BY <2>1 DEF Compose!Deploy
  <2>3. Compose!Round(artifact, t) < Compose!Round(artifact, s)
    BY <1>1, <2>1, NeededEarlier, DocumentCounting
  <2>4. Compose!Round(artifact, t) \in Nat /\ Compose!Round(artifact, s) \in Nat
    BY <1>1, <2>1, TakenInRound, DocumentCounting, FS_CardinalityType
  <2> QED
    BY <2>2, <2>3, <2>4
<1>5. Compose!DependenciesFirst'
  BY <1>1, <1>2, <1>4 DEF Compose!DependenciesFirst
<1>6. Sealed'
  BY DocumentCounting, <1>1 DEF Sealed, Compose!Convertible, Compose!Orderable, Compose!Left
<1> QED
  BY <1>1, <1>2, <1>3, <1>5, <1>6 DEF Compose!RefusedInTime

LEMMA ComposeStep ==
    ASSUME Compose!DocumentAssumption, ComposeInv, [Compose!Next]_(Compose!vars)
    PROVE  ComposeInv'
<1> USE DEF Compose!DocumentAssumption, ComposeInv, Compose!TypeOK
<1>1. CASE Compose!Trigger
  BY <1>1 DEF Compose!Trigger, Compose!RefusedInTime, MountsPlaced, Compose!DependenciesFirst
<1>2. CASE Compose!Finish
  BY <1>2 DEF Compose!Finish, Compose!RefusedInTime, MountsPlaced, Compose!DependenciesFirst, Sealed
<1>3. CASE UNCHANGED Compose!vars
  BY <1>3 DEF Compose!vars, Compose!RefusedInTime, MountsPlaced, Compose!DependenciesFirst, Sealed
<1> QED
  BY <1>1, <1>2, <1>3, ArtifactReturning, ArtifactAccepting, ServiceDeploying DEF Compose!Next

LEMMA ComposeInvariance == ASSUME Compose!DocumentAssumption PROVE Compose!Spec => []ComposeInv
<1>1. Compose!Init => ComposeInv
  BY ComposeInit
<1>2. ComposeInv /\ [Compose!Next]_(Compose!vars) => ComposeInv'
  BY ComposeStep
<1> QED
  BY <1>1, <1>2, PTL DEF Compose!Spec

LEMMA ComposePromises ==
    ASSUME Compose!DocumentAssumption, ComposeInv
    PROVE  Compose!Isolated /\ Compose!SourceHonoured
<1> USE DEF ComposeInv, Compose!TypeOK
<1>1. Compose!Isolated
  <2>1. ASSUME NEW o \in mounted PROVE o[2] = Owner /\ (o[1] = "path" => o[3] = "/snapshot")
    <3>1. PICK s \in deployed : \E m \in artifact.mounts[s] : o = Compose!Physical(artifact, Owner, m)
      BY <2>1 DEF MountsPlaced
    <3>2. PICK m \in artifact.mounts[s] : o = Compose!Physical(artifact, Owner, m)
      BY <3>1
    <3>3. m \in Storage \cup {"/snapshot"}
      BY <3>2 DEF Sealed
    <3> QED
      BY <3>2, <3>3 DEF Compose!Physical
  <2>2. \A s \in deployed : artifact.backend[s] \in {"none", "service"}
    BY DEF Sealed
  <2> QED
    BY <2>1, <2>2 DEF Compose!Isolated
<1>2. ASSUME composePc = "deployed"
      PROVE  /\ deployed = source.names
             /\ mounted = UNION {{Compose!Physical(source, Owner, m) : m \in source.mounts[s]} : s \in source.names}
  <2> DEFINE Of(t) == {Compose!Physical(source, Owner, m) : m \in source.mounts[t]}
  <2>1. deployed = source.names /\ \A s \in source.names : artifact.mounts[s] = source.mounts[s]
    BY <1>2 DEF Sealed
  <2>2. \A s \in source.names : {Compose!Physical(artifact, Owner, m) : m \in artifact.mounts[s]} = Of(s)
    BY <2>1 DEF Compose!Physical
  <2>3. mounted = UNION {{Compose!Physical(artifact, Owner, m) : m \in artifact.mounts[s]} : s \in source.names}
    BY <2>1 DEF MountsPlaced
  <2>4. mounted = UNION {Of(s) : s \in source.names}
    <3> HIDE DEF Of
    <3> QED
      BY <2>2, <2>3
  <2> QED
    BY <2>1, <2>4
<1> QED
  BY <1>1, <1>2 DEF Compose!SourceHonoured

LEMMA AcceptedIsSound ==
    ASSUME Compose!DocumentAssumption, source \in Documents, composeApp \in Compose!AppValue
    PROVE  Compose!Accepted(source) <=> Compose!Sound(source)
<1> DEFINE r == Compose!Resolved(source, composeApp)
<1>1. source \in Compose!Document /\ IsFiniteSet(ComposeService)
  BY DocumentCounting DEF Compose!DocumentAssumption
<1>2. /\ r.names = source.names /\ r.needs = source.needs /\ r.waits = source.waits /\ r.checked = source.checked
      /\ r.mounts = source.mounts /\ r.declared = source.declared /\ r.odd = source.odd /\ r \in Compose!Document
      /\ \A s \in ComposeService : r.backend[s] = IF source.backend[s] = "variable" THEN composeApp ELSE source.backend[s]
  BY <1>1, ResolvedFields
<1> HIDE DEF r
<1>3. source.names \subseteq ComposeService
  BY <1>1 DEF Compose!Document
<1>4. "./relative" \notin Storage
  BY DocumentCounting DEF Compose!DocumentAssumption, Compose!Path
<1> DEFINE Needs == \A s \in source.names : source.needs[s] \subseteq source.names
<1>5. Needs => (Compose!Orderable(r) <=> Compose!Acyclic(source))
  BY <1>1, <1>2, <1>3, OrderableIsAcyclic DEF Compose!Acyclic
<1> DEFINE Waits == \A s \in source.names : s \in source.waits => source.needs[s] \subseteq source.checked
           Mounts == \A s \in source.names : source.mounts[s] \subseteq Storage \cup {"/snapshot", "/workspaces"}
           Odd == source.odd \cap source.names = {}
           Backends ==
             \A s \in source.names :
               source.backend[s] \in IF composeApp = "service" THEN {"none", "service", "variable"} ELSE {"none", "service"}
<1>6. Compose!Sound(source) <=> /\ source.names # {} /\ Compose!Acyclic(source) /\ Odd /\ Needs /\ Mounts /\ Waits /\ Backends
                        /\ source.declared["external"] = {} /\ composeApp # "outside"
  BY DEF Compose!Sound
<1>7. Mounts => (Compose!FeaturesValid(r) <=> Odd /\ Needs /\ Waits)
  BY <1>2, <1>4 DEF Compose!FeaturesValid, Compose!Convertible, Compose!DependenciesValid
<1>8. Compose!FeaturesValid(r) => Needs
  BY <1>2 DEF Compose!FeaturesValid, Compose!DependenciesValid
<1>9. Compose!BuildComposeValid(r, composeApp, {"/snapshot", "/workspaces"})
        <=> /\ source.declared["external"] = {} /\ Mounts /\ composeApp # "outside"
            /\ \A s \in source.names : r.backend[s] \in {"none", "service"}
  BY <1>2 DEF Compose!BuildComposeValid, Compose!PrivateBackends
<1>10. composeApp # "outside" =>
         (Compose!Resolvable(source, composeApp) /\ (\A s \in source.names : r.backend[s] \in {"none", "service"}) <=> Backends)
  BY <1>2, <1>3 DEF Compose!Resolvable, Compose!AppValue
<1>11. Compose!Accepted(source) <=> /\ source.names # {} /\ Compose!Resolvable(source, composeApp)
                            /\ Compose!FeaturesValid(r) /\ Compose!Orderable(r) /\ Compose!BuildComposeValid(r, composeApp, {"/snapshot", "/workspaces"})
  BY <1>2 DEF Compose!Accepted, Compose!HasServices, Compose!ComposeValid, r
<1> HIDE DEF Needs, Waits, Mounts, Odd, Backends
<1> QED
  BY <1>5, <1>6, <1>7, <1>8, <1>9, <1>10, <1>11

Reasoned == composePc = "start" => (composePc' = "triggered" <=> Compose!Sound(source))

\* The document that is deployed: all of it is checked before the first service
\* exists.
THEOREM ComposeKept ==
    ASSUME Compose!DocumentAssumption
    PROVE  Compose!Spec => ComposeSafe
<1>1. ComposeInv => Compose!TypeOK /\ Compose!RefusedInTime /\ Compose!Isolated /\ Compose!SourceHonoured /\ Compose!DependenciesFirst
  BY ComposePromises DEF ComposeInv
<1>2. ASSUME ComposeInv, [Compose!Next]_(Compose!vars) PROVE [Reasoned]_composePc
  <2>1. CASE composePc = "start"
    <3>1. CASE Compose!Trigger
      BY <1>2, <2>1, <3>1, AcceptedIsSound DEF ComposeInv, Compose!TypeOK, Compose!Trigger, Reasoned
    <3> QED
      BY <1>2, <2>1, <3>1 DEF Compose!Next, Compose!Return, Compose!Accept, Compose!Deploy, Compose!Finish,
         Compose!vars
  <2> QED
    BY <2>1 DEF Reasoned
<1>3. ComposeInv /\ [Compose!Next]_(Compose!vars) => [Reasoned]_composePc
  BY <1>2
<1> QED
  BY <1>1, <1>3, ComposeInvariance, PTL DEF ComposeSafe, Compose!Spec, Compose!RefusedForAReason, Reasoned
=============================================================================
