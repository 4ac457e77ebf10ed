----------------------------- MODULE BaseImages -----------------------------
(***************************************************************************)
(* Mirroring of the catalog's base images into Harbor: the task            *)
(* sync_base_images (worker_runtime.py) and the adapter (registry.py),     *)
(* started by the clock and by requests, run by any number of workers on   *)
(* one Docker daemon, and repeated when a worker dies.                     *)
(*                                                                         *)
(* An image is its version, 0 if there is none; a digest is the version it *)
(* identifies.  A tag upstream may come to name a newer version.           *)
(***************************************************************************)
EXTENDS Naturals

CONSTANTS
    Source, Stable,   \* the catalog's images; those with a tag to mirror
    Worker,
    MaxVersion, MaxSyncs, MaxFaults

MirrorAssumption ==
    Stable \subseteq Source /\ MaxVersion \in Nat \ {0} /\ MaxSyncs \in Nat /\ MaxFaults \in Nat

VARIABLES
    upstream, harbor,  \* each image's version there
    local,             \* what the mirror's tag is in the daemon
    records,           \* base_images
    queue,             \* tasks that wait for a worker
    pc, todo, current, image, digest, \* each worker
    syncs, faults,
    beside             \* whether a task was ever taken beside another: for a property

world == <<upstream, harbor, local>>
work == <<todo, current, image, digest>>
vars == <<world, records, queue, pc, work, syncs, faults, beside>>

NoSource == "none"
Unknown == 0

Init ==
    /\ upstream = [s \in Source |-> 1] /\ harbor = [s \in Source |-> 0] /\ local = harbor
    /\ records = [s \in Source |-> [status |-> "none", digest |-> Unknown]]
    /\ queue = 0 /\ pc = [w \in Worker |-> "idle"] /\ todo = [w \in Worker |-> {}]
    /\ current = [w \in Worker |-> NoSource] /\ image = [w \in Worker |-> 0] /\ digest = image
    /\ syncs = 0 /\ faults = 0 /\ beside = FALSE

Goto(w, label) == pc' = [pc EXCEPT ![w] = label]
At(w, label) == pc[w] = label
Fault == faults < MaxFaults /\ faults' = faults + 1

-----------------------------------------------------------------------------
Retag(s) ==
    /\ upstream[s] < MaxVersion /\ upstream' = [upstream EXCEPT ![s] = @ + 1]
    /\ UNCHANGED <<harbor, local, records, queue, pc, work, syncs, faults, beside>>

\* beat, or POST base_image_sync
Dispatch ==
    /\ syncs < MaxSyncs /\ syncs' = syncs + 1 /\ queue' = queue + 1
    /\ UNCHANGED <<world, records, pc, work, faults, beside>>

Take(w) ==
    /\ At(w, "idle") /\ queue > 0 /\ queue' = queue - 1
    /\ todo' = [todo EXCEPT ![w] = Source] /\ Goto(w, "next")
    /\ beside' = (beside \/ \E u \in Worker \ {w} : ~At(u, "idle"))
    /\ UNCHANGED <<world, records, current, image, digest, syncs, faults>>

\* no Harbor configured: every image is recorded as failed
NotConfigured(w) ==
    /\ At(w, "next") /\ todo[w] = Source /\ Fault
    /\ records' = [s \in Source |-> [status |-> "failed", digest |-> Unknown]]
    /\ todo' = [todo EXCEPT ![w] = {}]
    /\ UNCHANGED <<world, queue, pc, current, image, digest, syncs, beside>>

\* a reference without a stable tag is refused before Docker is asked
NextSource(w, s) ==
    /\ At(w, "next") /\ s \in todo[w]
    /\ todo' = [todo EXCEPT ![w] = @ \ {s}]
    /\ current' = [current EXCEPT ![w] = s]
    /\ image' = [image EXCEPT ![w] = 0] /\ digest' = [digest EXCEPT ![w] = Unknown]
    /\ Goto(w, IF s \in Stable THEN "pull" ELSE "failed")
    /\ UNCHANGED <<world, records, queue, syncs, faults, beside>>

Pull(w) ==
    /\ At(w, "pull")
    /\ image' = [image EXCEPT ![w] = upstream[current[w]]] /\ Goto(w, "tag")
    /\ UNCHANGED <<world, records, queue, todo, current, digest, syncs, faults, beside>>

Tag(w) ==
    /\ At(w, "tag")
    /\ local' = [local EXCEPT ![current[w]] = image[w]] /\ Goto(w, "push")
    /\ UNCHANGED <<upstream, harbor, records, queue, work, syncs, faults, beside>>

\* what the daemon holds under the tag is pushed; an older daemon does not
\* tell its digest, and the image pulled knows it if it was pushed before
Push(w, told) ==
    /\ At(w, "push")
    /\ harbor' = [harbor EXCEPT ![current[w]] = local[current[w]]]
    /\ \E d \in IF told THEN {local[current[w]]} ELSE {Unknown, image[w]} :
         digest' = [digest EXCEPT ![w] = d]
    /\ Goto(w, "save")
    /\ UNCHANGED <<upstream, local, records, queue, todo, current, image, syncs, faults, beside>>

\* mutation: errors in the answer to a push are not looked at
FailsUnseen(w) ==
    /\ pc[w] \in {"pull", "tag", "push"} /\ Fault
    /\ Goto(w, IF At(w, "push") THEN "save" ELSE "failed")
    /\ UNCHANGED <<world, records, queue, work, syncs, beside>>

\* Docker or Harbor refuses
Fails(w) ==
    /\ pc[w] \in {"pull", "tag", "push"} /\ Fault
    /\ Goto(w, "failed")
    /\ UNCHANGED <<world, records, queue, work, syncs, beside>>

SavedDigest(w) == digest[w]

Save(w) ==
    /\ At(w, "save")
    /\ records' = [records EXCEPT ![current[w]] = [status |-> "synced", digest |-> SavedDigest(w)]]
    /\ Goto(w, "next")
    /\ UNCHANGED <<world, queue, work, syncs, faults, beside>>

SaveFailure(w) ==
    /\ At(w, "failed")
    /\ records' = [records EXCEPT ![current[w]] = [status |-> "failed", digest |-> Unknown]]
    /\ Goto(w, "next")
    /\ UNCHANGED <<world, queue, work, syncs, faults, beside>>

Ends(w) ==
    /\ At(w, "next") /\ todo[w] = {} /\ Goto(w, "idle")
    /\ current' = [current EXCEPT ![w] = NoSource]
    /\ image' = [image EXCEPT ![w] = 0] /\ digest' = [digest EXCEPT ![w] = Unknown]
    /\ UNCHANGED <<world, records, queue, todo, syncs, faults, beside>>

\* a worker that is lost gives its task back (task_acks_late)
Crash(w) ==
    /\ ~At(w, "idle") /\ Fault
    /\ queue' = queue + 1 /\ Goto(w, "idle")
    /\ todo' = [todo EXCEPT ![w] = {}] /\ current' = [current EXCEPT ![w] = NoSource]
    /\ image' = [image EXCEPT ![w] = 0] /\ digest' = [digest EXCEPT ![w] = Unknown]
    /\ UNCHANGED <<world, records, syncs, beside>>

Step(w) ==
    \/ Take(w) \/ Pull(w) \/ Tag(w) \/ Save(w) \/ SaveFailure(w) \/ Ends(w)
    \/ \E s \in Source : NextSource(w, s)
    \/ \E told \in BOOLEAN : Push(w, told)

Idle == queue = 0 /\ \A w \in Worker : At(w, "idle")
Quiet == Idle /\ syncs = MaxSyncs /\ UNCHANGED vars

Next ==
    \/ \E s \in Source : Retag(s)
    \/ Dispatch
    \/ \E w \in Worker :
         \/ Take(w) \/ Pull(w) \/ Tag(w) \/ Save(w) \/ SaveFailure(w) \/ Ends(w)
         \/ NotConfigured(w) \/ Fails(w) \/ Crash(w)
         \/ \E s \in Source : NextSource(w, s)
         \/ \E told \in BOOLEAN : Push(w, told)
    \/ Quiet

Spec == Init /\ [][Next]_vars

\* Workers go on with a task they have, and take one that waits.
FairSpec == Spec /\ \A w \in Worker : WF_vars(Step(w))

-----------------------------------------------------------------------------
(***************************************************************************)
(* Properties.                                                             *)
(***************************************************************************)

TypeOK ==
    /\ \A s \in Source : {upstream[s], harbor[s], local[s], records[s].digest} \subseteq 0..MaxVersion
    /\ \A s \in Source : records[s].status \in {"none", "synced", "failed"}
    /\ \A w \in Worker : At(w, "push") => local[current[w]] # 0

\* "Persist every outcome": once the tasks have ended, whatever failed and
\* whoever died, every image of the catalog has its outcome.
EveryOutcomeIsSaved == Idle /\ syncs > 0 => \A s \in Source : records[s].status # "none"

\* An image that is recorded as synced is in Harbor, whoever else mirrors it
\* at the time (sync, _push).
SyncedIsThere == \A s \in Source : records[s].status = "synced" => harbor[s] # 0 /\ s \in Stable

\* When the tasks have ended and none has run beside another, the digest recorded
\* is that of the image in Harbor (sync).
DigestIsOfTheMirror ==
    Idle /\ ~beside => \A s \in Source :
        records[s].status = "synced" /\ records[s].digest # Unknown => records[s].digest = harbor[s]

\* Every task ends.
SyncsEnd == []<>(queue = 0) /\ \A w \in Worker : []<>At(w, "idle")
=============================================================================
