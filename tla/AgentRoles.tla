----------------------------- MODULE AgentRoles -----------------------------
(***************************************************************************)
(* One agent role in the repository and the processes that use it:         *)
(* services that insert it when they start, writers that update it         *)
(* optimistically (read, patch, replace if the version is still the one    *)
(* read; try again), and checks that snapshot it under its version.        *)
(* A field's value is the writer who set it; the keys of runtime_config    *)
(* are fields of their own (they are merged, not replaced).                *)
(***************************************************************************)
EXTENDS Naturals

CONSTANTS
    Writer, Field, Sets, Absent,
    MaxTries,      \* attempts of one update
    MaxVersion     \* bounds the updates TLC explores

ASSUME RoleAssumption ==
    /\ Sets \in [Writer -> SUBSET Field]
    /\ MaxTries \in Nat \ {0} /\ MaxVersion \in Nat
    /\ Absent \notin [version : Nat, by : [Field -> Writer \cup {"default"}]]

VARIABLES
    role,          \* the stored document
    pc, copy,      \* each writer's step and the document it has read
    tries, from,   \* its attempts, and the version its first attempt saw
    snapshots      \* what checks have frozen

roleVars == <<role, pc, copy, tries, from, snapshots>>

Store == INSTANCE AgentRoleStore

RoleInit ==
    /\ role = Absent
    /\ pc = [w \in Writer |-> "idle"]
    /\ copy = [w \in Writer |-> Absent]
    /\ tries = [w \in Writer |-> 0]
    /\ from = [w \in Writer |-> 0]
    /\ snapshots = {}

\* mutation: a starting service saves its defaults
InitializeAlways ==
    /\ role' = Store!Initial
    /\ UNCHANGED <<pc, copy, tries, from, snapshots>>

\* save_agent_role without a version inserts if absent, and changes nothing else
Initialize ==
    /\ role = Absent /\ role' = Store!Initial
    /\ UNCHANGED <<pc, copy, tries, from, snapshots>>

Submit(w) ==
    /\ pc[w] \in {"idle", "conflict"} /\ role # Absent
    /\ pc' = [pc EXCEPT ![w] = "get"]
    /\ tries' = [tries EXCEPT ![w] = 0]
    /\ UNCHANGED <<role, copy, from, snapshots>>

Get(w) ==
    /\ pc[w] = "get"
    /\ copy' = [copy EXCEPT ![w] = role]
    /\ from' = IF tries[w] = 0 THEN [from EXCEPT ![w] = role.version] ELSE from
    /\ pc' = [pc EXCEPT ![w] = "save"]
    /\ UNCHANGED <<role, tries, snapshots>>

\* mutation: the version the copy was read at is not compared
CurrentAlways(w) == TRUE

Current(w) == role.version = copy[w].version

Save(w) ==
    /\ pc[w] = "save" /\ Current(w) /\ role.version < MaxVersion
    /\ role' = Store!Patched(copy[w], w)
    /\ pc' = [pc EXCEPT ![w] = "idle"]
    /\ UNCHANGED <<copy, tries, from, snapshots>>

\* mutation: an update never gives up
ExhaustedNever(w) == FALSE

Exhausted(w) == tries[w] + 1 >= MaxTries

Refused(w) ==
    /\ pc[w] = "save" /\ ~Current(w)
    /\ tries' = [tries EXCEPT ![w] = @ + 1]
    /\ pc' = [pc EXCEPT ![w] = IF Exhausted(w) THEN "conflict" ELSE "get"]
    /\ UNCHANGED <<role, copy, from, snapshots>>

\* create_or_reuse of a check freezes the role it finds
Snapshot ==
    /\ role # Absent
    /\ snapshots' = snapshots \cup {role}
    /\ UNCHANGED <<role, pc, copy, tries, from>>

RoleNext ==
    \/ Initialize \/ Snapshot
    \/ \E w \in Writer : Submit(w) \/ Get(w) \/ Save(w) \/ Refused(w)

RoleSpec == RoleInit /\ [][RoleNext]_roleVars

-----------------------------------------------------------------------------
Role == [version : Nat \ {0}, by : [Field -> Writer \cup {Store!Default}]]

\* Documents, copies and attempts keep their types; a writer at work has a copy.
RoleTypeOK ==
    /\ role \in {Absent} \cup Role
    /\ pc \in [Writer -> {"idle", "get", "save", "conflict"}]
    /\ copy \in [Writer -> {Absent} \cup Role]
    /\ tries \in [Writer -> 0..MaxTries]
    /\ from \in [Writer -> Nat]
    /\ snapshots \subseteq Role
    /\ \A w \in Writer : pc[w] # "idle" => role # Absent
    /\ \A w \in Writer : pc[w] = "save" => copy[w] # Absent

\* A version names one content for ever: check results are cached under it.
VersionNamesContent ==
    \A s \in snapshots : role # Absent /\ s.version <= role.version /\ (s.version = role.version => s = role)
                         /\ \A t \in snapshots : s.version = t.version => s = t

\* An update is given up only after as many others were stored as it made attempts.
ConflictEarned ==
    \A w \in Writer : pc[w] = "conflict" => role.version >= from[w] + MaxTries

\* What versions and retries are for: both of these.
RoleSafety == VersionNamesContent /\ ConflictEarned

\* No update is lost and none undone by a starting service: the role is always
\* the result of whole updates in some order.
ImplementsStore == Store!Spec
=============================================================================
