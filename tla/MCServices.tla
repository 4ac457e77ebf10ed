----------------------------- MODULE MCServices -----------------------------
(***************************************************************************)
(* The services around the build, for TLC.  They share no state with each  *)
(* other, so a behaviour is of one of them, chosen by `part`; the others   *)
(* stand still in one initial state.                                       *)
(*                                                                         *)
(*   ports       two builds publish on one host: one asks for port 1,      *)
(*               outside the range, the other names none                   *)
(*   roles       writers with overlapping fields update one agent role     *)
(*   rollout     two services, web depending on db, deployed and removed   *)
(*   compose     every small dependency graph, all storage and backends,   *)
(*               and artifacts that differ from their source in one aspect *)
(*   workspaces  two processes, and a path that may be a file              *)
(*   stacks      two technology stacks, one of them seeded                 *)
(*   apps        two requests at a time on one application                 *)
(*   edits       more of them, while no branch moves                       *)
(*   serial      requests on one application, one after the other          *)
(*   provider    an API process with an environment, a worker without      *)
(*   checkout    a branch that is pushed, rewritten and pruned             *)
(*   images      two workers mirror two images, one without a stable tag   *)
(*   slots       two tasks, new or updated, are waited for                 *)
(***************************************************************************)
EXTENDS Services, TLC

CONSTANTS
    Dynamic, W1,
    web, db, job, data, cache,
    top, deep, side, snap, P1, P2,
    r1, r2, base, tip, rewritten, bare, twice

VARIABLE part

SomeRequest == [b \in Build |-> IF b = Dynamic THEN 0 ELSE 1]
MCSets == [w \in Writer |-> IF w = W1 THEN {"prompt", "model"} ELSE {"model", "timeout"}]

-----------------------------------------------------------------------------
(***************************************************************************)
(* Rollout                                                                 *)
(***************************************************************************)
WebNeedsDb == [s \in Service |-> IF s = web THEN {db} ELSE {}]

\* unless it is rolled out, no name is taken by anybody else
StillRollout == docker = [i \in Docker!Item |-> 0]

(***************************************************************************)
(* Compose                                                                 *)
(***************************************************************************)
Plain == [names |-> {web, db}, needs |-> [s \in ComposeService |-> {}], waits |-> {}, checked |-> {},
          mounts |-> [s \in ComposeService |-> {}], declared |-> [k \in {"external", "named"} |-> {}],
          backend |-> [s \in ComposeService |-> "none"], image |-> [s \in ComposeService |-> "none"], odd |-> {}]

Graphs ==
    {[Plain EXCEPT !.names = ComposeService, !.needs = n] : n \in [ComposeService -> SUBSET ComposeService]}
    \cup {[Plain EXCEPT !.needs[web] = n, !.waits = w, !.checked = c, !.odd = o] :
            n \in SUBSET ComposeService, w \in SUBSET {web}, c \in SUBSET {db}, o \in SUBSET {web}}
    \cup {[Plain EXCEPT !.names = {}]}

Mounts ==
    {[Plain EXCEPT !.mounts[web] = m, !.mounts[db] = n, !.declared = [k \in {"external", "named"} |-> IF k = "named" THEN v ELSE e]] :
        m \in {{}, {data}, {data, "/snapshot"}, {cache, "/elsewhere"}, {"./relative"}, {"/workspaces"}}, n \in {{}, {data}, {cache}},
        v \in SUBSET Storage, e \in {{}, {data}}}

Backends(kinds) == {[Plain EXCEPT !.backend[web] = b, !.backend[db] = c] : b \in kinds, c \in kinds}

MCAltered(d) ==
    {d, [d EXCEPT !.names = @ \ {db}], [d EXCEPT !.names = @ \cup {job}], [d EXCEPT !.odd = {web}],
     [d EXCEPT !.mounts[db] = {}], [d EXCEPT !.mounts[db] = {cache}], [d EXCEPT !.mounts[web] = @ \cup {"/workspaces"}],
     [d EXCEPT !.declared["external"] = {data}], [d EXCEPT !.backend[db] = "outside"], [d EXCEPT !.needs[db] = {web, db}]}

MCDocuments == Graphs \cup Mounts \cup Backends({"none", "service", "outside", "variable"})

StillCompose == source = Plain /\ composeApp = "missing"

(***************************************************************************)
(* Workspaces                                                              *)
(***************************************************************************)
MCParents == [n \in Name |-> IF n = top THEN {} ELSE {top}]

\* At first there is one large file, or none.
FirstFiles ==
    /\ files \in [Name -> {0, 1}] /\ files[top] + files[deep] = 0 /\ (part = "workspaces" \/ files[side] = 0)
    /\ size = [i \in 1..MaxOperations |-> IF i = 1 THEN 2 ELSE 0]

-----------------------------------------------------------------------------
(***************************************************************************)
(* The history of the branch: a base commit, one on top of it, and three   *)
(* rewritten ones: a root file, only nested files, a choice of root files. *)
(***************************************************************************)
MCHistory == [c \in {base, tip, rewritten, bare, twice} |-> {base, c}]
MCRoot == [c \in DOMAIN MCHistory |-> CASE c = tip -> {2} [] c = rewritten -> {1, 2} [] OTHER -> {}]
MCBelow == [c \in DOMAIN MCHistory |-> CASE c \in {tip, twice} -> {1, 2} [] c = base -> {1} [] OTHER -> {}]

ASSUME PartsAssumption ==
    /\ Docker!ServiceAssumption /\ Docker!AttemptAssumption
    /\ Files!NameAssumption /\ Files!BoundAssumption /\ Compose!DocumentAssumption
    /\ Stacks!SeedAssumption /\ Apps!BoundAssumption /\ Provider!EnvironmentAssumption /\ Git!CommitAssumption
    /\ Images!MirrorAssumption /\ Ready!ReadinessAssumption

-----------------------------------------------------------------------------
MCInit ==
    /\ part \in {"ports", "roles", "rollout", "compose", "workspaces", "stacks", "apps", "edits", "serial", "provider",
               "checkout", "images", "slots"}
    /\ Init /\ RoleInit
    /\ (part = "rollout" \/ StillRollout) /\ Docker!Init
    /\ (part = "compose" \/ StillCompose) /\ Compose!Init
    /\ FirstFiles /\ Files!Init
    /\ (part = "stacks" \/ stacks = [s \in Stack |-> Stacks!Gone]) /\ Stacks!Init
    /\ RecordInit /\ inTurn = (part = "serial")
    /\ (part = "provider" \/ stored = Provider!Unreadable) /\ Provider!Init
    /\ (part = "checkout" \/ branch = base) /\ Git!Init
    /\ Images!Init
    /\ (part = "slots" \/ updated = FALSE) /\ (part = "slots" \/ restarts = FALSE) /\ Ready!Init

MCNext ==
    \/ /\ part = "ports" /\ Next
       /\ UNCHANGED <<part, roleVars, rolloutVars, composeVars, workspaceVars, stackVars, appVars, configVars, gitVars, imageVars, waitVars>>
    \/ /\ part = "roles" /\ RoleNext
       /\ UNCHANGED <<part, vars, rolloutVars, composeVars, workspaceVars, stackVars, appVars, configVars, gitVars, imageVars, waitVars>>
    \/ /\ part = "rollout" /\ Docker!Next
       /\ UNCHANGED <<part, vars, roleVars, composeVars, workspaceVars, stackVars, appVars, configVars, gitVars, imageVars, waitVars>>
    \/ /\ part = "compose" /\ Compose!Next
       /\ UNCHANGED <<part, vars, roleVars, rolloutVars, workspaceVars, stackVars, appVars, configVars, gitVars, imageVars, waitVars>>
    \/ /\ part = "workspaces" /\ Files!Next
       /\ UNCHANGED <<part, vars, roleVars, rolloutVars, composeVars, stackVars, appVars, configVars, gitVars, imageVars, waitVars>>
    \/ /\ part = "stacks" /\ Stacks!Next
       /\ UNCHANGED <<part, vars, roleVars, rolloutVars, composeVars, workspaceVars, appVars, configVars, gitVars, imageVars, waitVars>>
    \/ /\ part = "apps" /\ RecordNext /\ count' <= 2
       /\ UNCHANGED <<part, vars, roleVars, rolloutVars, composeVars, workspaceVars, stackVars, configVars, gitVars, imageVars, waitVars>>
    \/ /\ part = "edits" /\ RecordNext /\ count' <= 3 /\ head' = head
       /\ UNCHANGED <<part, vars, roleVars, rolloutVars, composeVars, workspaceVars, stackVars, configVars, gitVars, imageVars, waitVars>>
    \/ /\ part = "serial" /\ RecordNext
       /\ UNCHANGED <<part, vars, roleVars, rolloutVars, composeVars, workspaceVars, stackVars, configVars, gitVars, imageVars, waitVars>>
    \/ /\ part = "provider" /\ Provider!Next
       /\ UNCHANGED <<part, vars, roleVars, rolloutVars, composeVars, workspaceVars, stackVars, appVars, gitVars, imageVars, waitVars>>
    \/ /\ part = "checkout" /\ Git!Next
       /\ UNCHANGED <<part, vars, roleVars, rolloutVars, composeVars, workspaceVars, stackVars, appVars, configVars, imageVars, waitVars>>
    \/ /\ part = "images" /\ Images!Next
       /\ UNCHANGED <<part, vars, roleVars, rolloutVars, composeVars, workspaceVars, stackVars, appVars, configVars, gitVars, waitVars>>
    \/ /\ part = "slots" /\ Ready!Next
       /\ UNCHANGED <<part, vars, roleVars, rolloutVars, composeVars, workspaceVars, stackVars, appVars, configVars, gitVars, imageVars>>

all == <<part, vars, roleVars, rolloutVars, composeVars, workspaceVars, stackVars, appVars, configVars, gitVars, imageVars, waitVars>>

MCSpec == MCInit /\ [][MCNext]_all

Symmetry == Permutations({P1, P2}) \cup Permutations({r1, r2})
=============================================================================
