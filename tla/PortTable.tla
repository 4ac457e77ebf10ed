----------------------------- MODULE PortTable -----------------------------
(***************************************************************************)
(* Published ports of one Docker host and protocol, for several builds at  *)
(* once (docker_services.py: _occupied_published_ports, _allocate_ports;   *)
(* repository.py: reserve_port, release_port; docker_cleanup.py: discover  *)
(* and the port branch of remove).  A build deploys one service with one   *)
(* published port, possibly several times after crashes, and is cleaned up *)
(* afterwards, possibly several times.                                     *)
(*                                                                         *)
(* Operations on one build exclude each other (BuildLease), so a build has *)
(* one operation; all interleavings are between builds and with containers *)
(* the orchestrator knows nothing of.  FirstPort..LastPort is the range    *)
(* ports are allocated from.  Bounds: MaxFaults crashes, MaxForeign ports  *)
(* taken by foreign containers.                                            *)
(***************************************************************************)
EXTENDS Naturals, FiniteSets

CONSTANTS Build, Free, FirstPort, LastPort, Requested, MaxFaults, MaxForeign

Port == 1..LastPort

ASSUME FreeAssumption == Free \notin Build
ASSUME RangeAssumption == FirstPort \in Nat \ {0} /\ LastPort \in Nat
ASSUME BoundsAssumption == MaxFaults \in Nat /\ MaxForeign \in Nat
ASSUME RequestAssumption == Requested \in [Build -> Port \cup {0}]

VARIABLES
    table,      \* port_allocations: the build that has reserved a port
    published,  \* the port each build's service publishes, 0 if there is none
    foreign,    \* ports bound by containers of nobody we know
    manifest,   \* ports the build's manifest lists as not removed
    op,         \* the operation of each build
    faults, taken

vars == <<table, published, foreign, manifest, op, faults, taken>>

Idle == [pc |-> "idle", occupied |-> {}, tried |-> {}, port |-> 0]

\* Reservations, records and operations keep their types; only real ports are
\* recorded, whatever the range has left (_allocate_ports raises when it is used up).
TypeOK ==
    /\ table \in [Port -> Build \cup {Free}]
    /\ published \in [Build -> Port \cup {0}]
    /\ foreign \subseteq Port
    /\ manifest \in [Build -> SUBSET Port]
    /\ op \in [Build ->
          [pc : {"idle", "choose", "record", "create", "deployed", "failed",
                 "discover", "remove", "release", "verify", "error", "cleaned"},
           occupied : SUBSET Port, tried : SUBSET Port, port : Port \cup {0}]]
    /\ faults \in 0..MaxFaults
    /\ taken \in 0..MaxForeign

Init ==
    /\ table = [p \in Port |-> Free]
    /\ published = [b \in Build |-> 0]
    /\ foreign = {}
    /\ manifest = [b \in Build |-> {}]
    /\ op = [b \in Build |-> Idle]
    /\ faults = 0 /\ taken = 0

Goto(b, pc) == op' = [op EXCEPT ![b] = [Idle EXCEPT !.pc = pc]]

\* list_build_ports
Ports(b) == {p \in Port : table[p] = b}

PublishedByOthers(b) == {published[c] : c \in Build \ {b}} \ {0}

-----------------------------------------------------------------------------
(***************************************************************************)
(* Deployment.                                                             *)
(***************************************************************************)

\* the earlier reservation of this service, or the port its compose file asks for
Wanted(b) == IF Ports(b) # {} THEN Ports(b) ELSE {Requested[b]}

\* _occupied_published_ports: services and containers of everybody else
Inspect(b) ==
    /\ op[b].pc = "idle"
    /\ \E wanted \in Wanted(b) :
          op' = [op EXCEPT ![b] = [Idle EXCEPT !.pc = "choose", !.port = wanted,
                                   !.occupied = foreign \cup PublishedByOthers(b)]]
    /\ UNCHANGED <<table, published, foreign, manifest, faults, taken>>

\* first what is wanted, then the range from its start; never what was seen occupied
Candidates(b) ==
    IF op[b].tried = {} /\ op[b].port \in Port \ op[b].occupied THEN {op[b].port}
    ELSE LET free == (FirstPort..LastPort) \ (op[b].occupied \cup op[b].tried)
         IN {p \in free : \A q \in free : p <= q}

\* insert under the unique index; the same owner may reserve again
reserve_port(b, p) ==
    /\ op[b].pc = "choose" /\ p \in Candidates(b)
    /\ IF table[p] \in {Free, b}
       THEN /\ table' = [table EXCEPT ![p] = b]
            /\ op' = [op EXCEPT ![b] = [Idle EXCEPT !.pc = "record", !.port = p]]
       ELSE /\ op' = [op EXCEPT ![b].tried = @ \cup {p}]
            /\ UNCHANGED table
    /\ UNCHANGED <<published, foreign, manifest, faults, taken>>

NoPortAvailable(b) ==
    /\ op[b].pc = "choose" /\ Candidates(b) = {}
    /\ Goto(b, "failed")
    /\ UNCHANGED <<table, published, foreign, manifest, faults, taken>>

RecordPort(b) ==
    /\ op[b].pc = "record"
    /\ manifest' = [manifest EXCEPT ![b] = @ \cup {op[b].port}]
    /\ op' = [op EXCEPT ![b].pc = "create"]
    /\ UNCHANGED <<table, published, foreign, faults, taken>>

\* services.create or update: Docker refuses a port that is bound by then
CreateService(b) ==
    /\ op[b].pc = "create"
    /\ IF op[b].port \in foreign \cup PublishedByOthers(b)
       THEN /\ Goto(b, "failed")
            /\ UNCHANGED published
       ELSE /\ published' = [published EXCEPT ![b] = op[b].port]
            /\ Goto(b, "deployed")
    /\ UNCHANGED <<table, foreign, manifest, faults, taken>>

-----------------------------------------------------------------------------
(***************************************************************************)
(* Cleanup of a build that has ended; after an error it may be requested   *)
(* again.                                                                  *)
(***************************************************************************)

\* the service is removed and its containers have stopped (earlier kinds)
RemoveService(b) ==
    /\ op[b].pc \in {"deployed", "failed", "error"}
    /\ published' = [published EXCEPT ![b] = 0]
    /\ Goto(b, "discover")
    /\ UNCHANGED <<table, foreign, manifest, faults, taken>>

\* discover: every reservation of the build is recorded as present
Discover(b) ==
    /\ op[b].pc = "discover"
    /\ manifest' = [manifest EXCEPT ![b] = @ \cup Ports(b)]
    /\ Goto(b, "remove")
    /\ UNCHANGED <<table, published, foreign, faults, taken>>

\* remove: no service and no container, whoever owns it, may still use the port
RemovePort(b, p) ==
    /\ op[b].pc = "remove" /\ p \in manifest[b]
    /\ IF p \in foreign \cup {published[c] : c \in Build}
       THEN Goto(b, "error")
       ELSE op' = [op EXCEPT ![b] = [Idle EXCEPT !.pc = "release", !.port = p]]
    /\ UNCHANGED <<table, published, foreign, manifest, faults, taken>>

\* mutation: delete_one does not name the build
ReleaseAny(b) ==
    /\ op[b].pc = "release"
    /\ table' = [table EXCEPT ![op[b].port] = Free]
    /\ op' = [op EXCEPT ![b].pc = "verify"]
    /\ UNCHANGED <<published, foreign, manifest, faults, taken>>

\* release_port, first half: delete_one by port and build
ReleasePort(b) ==
    /\ op[b].pc = "release"
    /\ IF table[op[b].port] = b THEN table' = [table EXCEPT ![op[b].port] = Free]
                                ELSE UNCHANGED table
    /\ op' = [op EXCEPT ![b].pc = "verify"]
    /\ UNCHANGED <<published, foreign, manifest, faults, taken>>

\* second half: find_one must see nobody; then the record is closed
VerifyPort(b) ==
    /\ op[b].pc = "verify"
    /\ IF table[op[b].port] = Free
       THEN /\ manifest' = [manifest EXCEPT ![b] = @ \ {op[b].port}]
            /\ Goto(b, "remove")
       ELSE /\ op' = [op EXCEPT ![b].pc = "error"]
            /\ UNCHANGED manifest
    /\ UNCHANGED <<table, published, foreign, faults, taken>>

CleanupDone(b) ==
    /\ op[b].pc = "remove" /\ manifest[b] = {}
    /\ Goto(b, "cleaned")
    /\ UNCHANGED <<table, published, foreign, manifest, faults, taken>>

-----------------------------------------------------------------------------
\* a worker dies: a deployment is delivered again, a cleanup starts over
Crash(b) ==
    /\ faults < MaxFaults /\ faults' = faults + 1
    /\ \/ /\ op[b].pc \in {"choose", "record", "create", "deployed"}
          /\ Goto(b, "idle")
       \/ /\ op[b].pc \in {"discover", "remove", "release", "verify"}
          /\ Goto(b, "failed")
    /\ UNCHANGED <<table, published, foreign, manifest, taken>>

ForeignBinds(p) ==
    /\ taken < MaxForeign /\ taken' = taken + 1
    /\ p \notin foreign \cup {published[c] : c \in Build}
    /\ foreign' = foreign \cup {p}
    /\ UNCHANGED <<table, published, manifest, op, faults>>

ForeignLeaves(p) ==
    /\ p \in foreign
    /\ foreign' = foreign \ {p}
    /\ UNCHANGED <<table, published, manifest, op, faults, taken>>

Next ==
    \/ \E b \in Build :
          \/ Inspect(b) \/ NoPortAvailable(b) \/ RecordPort(b) \/ CreateService(b)
          \/ RemoveService(b) \/ Discover(b) \/ ReleasePort(b) \/ VerifyPort(b)
          \/ CleanupDone(b) \/ Crash(b)
          \/ \E p \in Port : reserve_port(b, p) \/ RemovePort(b, p)
    \/ \E p \in Port : ForeignBinds(p) \/ ForeignLeaves(p)

Spec == Init /\ [][Next]_vars

-----------------------------------------------------------------------------
(***************************************************************************)
(* Properties.                                                             *)
(***************************************************************************)

\* A port some service publishes is reserved by that service's build, from
\* before the creation until after the removal: no cleanup gives it away, a
\* build between reservation and creation keeps it, and no two builds publish it.
PublishedIsReserved ==
    \A b \in Build :
        /\ published[b] # 0 => table[published[b]] = b
        /\ op[b].pc \in {"record", "create"} => table[op[b].port] = b

\* A cleanup that reports success has left no reservation behind, although a
\* crash may separate a reservation from its record, and a second deployment may
\* reserve another port.
CleanedHoldsNothing ==
    \A b \in Build : op[b].pc = "cleaned" => Ports(b) = {} /\ published[b] = 0

\* What the reservations are for: both of these.
PortSafety == PublishedIsReserved /\ CleanedHoldsNothing

\* docs/api-reference.md:284: resources that no longer exist are handled
\* idempotently.  A removal that finds the reservation of its own build gone is
\* therefore not an error.  The code
\* does not keep this: README, section 4.
GoneIsNoError ==
    \A b \in Build :
        op[b].pc = "error" /\ op[b].port # 0 => table[op[b].port] = b
=============================================================================
