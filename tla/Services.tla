------------------------------ MODULE Services ------------------------------
(***************************************************************************)
(* The services around the build, which share no state with each other:    *)
(* the port table, the agent roles, the wait for a service, the checkout   *)
(* of a branch, the provider configuration, the mirror of the base images, *)
(* the technology stacks, the application records, the rollout and cleanup *)
(* of a build in Docker, the workspaces and the Compose document of a      *)
(* build; what each of them promises.                                      *)
(***************************************************************************)
EXTENDS PortTable, AgentRoles, ServiceWait

CONSTANTS
    Revision, History, Names, Nested, Root, Below,
    Process, HasEnvironment, Request, MaxEdits,
    Mirrored, Stable, Worker, MaxTag, MaxSyncs, MaxSyncFaults,
    Server, Stack, Seeds, MaxStackEdits,
    Branch, Client, MaxHead, MaxRequests,
    Service, DependsOn, MaxDeployments, MaxRolloutFaults,
    Thread, Snap, Nobody, Name, Parents, Sizes, MaxUploadBytes, MaxBytes, MaxFiles, MaxOperations, MaxFileFaults,
    ComposeService, Storage, Owner, Documents, Altered(_)

VARIABLES
    branch, held, gitPc, ref, local, partial, tree, path, gitFaults,
    stored, up, req, edits, wrote,
    upstream, harbor, tagged, images, queue, syncPc, syncTodo, image, imageCurrent, digest, syncs, syncFaults, beside,
    stacks, catalog, stacksUp, stacksListed, stacksTodo, stacksReq, stackEdits, deleted,
    head, app, checks, appReq, count, appWrote,
    inTurn,    \* whether the requests on the application come one at a time
    docker, running, records, rolloutPc, current, todo, created, attempt, intact, rolloutFaults,
    files, dirs, size, lock, wsPc, wsOp, listed, done, staged, content, archive, build, inputs, litter,
    operations, wsFaults,
    composePc, source, composeApp, artifact, deployed, mounted

Git == INSTANCE GitCheckout WITH Commit <- Revision, pc <- gitPc, faults <- gitFaults
Provider == INSTANCE ProviderConfig
Images == INSTANCE BaseImages WITH
    Source <- Mirrored, MaxVersion <- MaxTag, MaxFaults <- MaxSyncFaults,
    local <- tagged, records <- images, pc <- syncPc, todo <- syncTodo, current <- imageCurrent, faults <- syncFaults
Stacks == INSTANCE TechStacks WITH
    Process <- Server, MaxEdits <- MaxStackEdits,
    stored <- stacks, up <- stacksUp, listed <- stacksListed, todo <- stacksTodo, req <- stacksReq, edits <- stackEdits
Apps == INSTANCE Applications WITH Request <- Client, req <- appReq, wrote <- appWrote
Docker == INSTANCE ResourceTeardown WITH
    MaxAttempts <- MaxDeployments, MaxFaults <- MaxRolloutFaults,
    manifest <- records, pc <- rolloutPc, faults <- rolloutFaults
Files == INSTANCE Workspaces WITH
    Process <- Thread, Build <- Snap, MaxFaults <- MaxFileFaults, pc <- wsPc, op <- wsOp, faults <- wsFaults
Compose == INSTANCE ComposeDelivery WITH
    Service <- ComposeService, Volume <- Storage, Build <- Owner, pc <- composePc, app <- composeApp

gitVars == <<branch, held, gitPc, ref, local, partial, tree, path, gitFaults>>
configVars == <<stored, up, req, edits, wrote>>
imageVars == <<upstream, harbor, tagged, images, queue, syncPc, syncTodo, image, imageCurrent, digest, syncs, syncFaults, beside>>
stackVars == <<stacks, catalog, stacksUp, stacksListed, stacksTodo, stacksReq, stackEdits, deleted>>
appVars == <<head, app, checks, appReq, count, appWrote, inTurn>>
rolloutVars == <<docker, running, records, rolloutPc, current, todo, created, attempt, intact, rolloutFaults>>
workspaceVars == <<files, dirs, size, lock, wsPc, wsOp, listed, done, staged, content, archive, build, inputs,
                   litter, operations, wsFaults>>
composeVars == <<composePc, source, composeApp, artifact, deployed, mounted>>

\* An application under requests as they come, or one at a time.
RecordInit == Apps!Init /\ inTurn \in BOOLEAN
RecordNext == (IF inTurn THEN Apps!SteadyNext ELSE Apps!Next) /\ UNCHANGED inTurn
RecordSpec == RecordInit /\ [][RecordNext]_appVars

-----------------------------------------------------------------------------
\* Objects, records and documents of every service keep their types.
ServicesTypeOK ==
    /\ TypeOK /\ RoleTypeOK
    /\ Ready!TypeOK /\ Git!TypeOK /\ Provider!TypeOK /\ Images!TypeOK /\ Stacks!TypeOK /\ Apps!TypeOK

\* The checkout is pinned to the commit that was resolved before a Compose file is
\* looked for, one commit gives one document, and a push while the repository is
\* read does not fail the reader (discover_compose, _find_compose_path).
CheckoutSafe == Git!ReadsWhatWasResolved /\ Git!OneDocument /\ Git!FailureIsEarned

\* What one process has started with every other can read, and a field is what the
\* last update that named it has set: of requests one at a time (validate_startup,
\* update).
ProviderSafe == Provider!StartedIsConfigured /\ Provider!LastWriteStands

\* Once the tasks have ended, whatever failed and whoever died, every image of the
\* catalog has its outcome; an image recorded as synced is in Harbor, whoever else
\* mirrors it; when no task has run beside another, the digest recorded is that of
\* the image in Harbor (sync_base_images, sync, _push).
ImagesSafe == Images!EveryOutcomeIsSaved /\ Images!SyncedIsThere /\ Images!DigestIsOfTheMirror

\* Of requests one at a time: with none in flight a process composes from what is
\* stored; a stack a client has deleted is revived by no update, migration or late
\* step; a starting process never replaces an edit (TechStackService,
\* _synchronize_catalog).
StacksSafe == []Stacks!CatalogFollows /\ Stacks!DeletedStaysDeleted /\ Stacks!EditsSurviveStart

\* The recorded source commit is the one the document was read from; branch and
\* route are what the last write that named them set; a scheduled check is of a
\* commit that was the head of its branch while the request ran.  Of requests one
\* at a time, the source is a commit of the branch recorded ("a repository/ref edit
\* also invalidates the old source metadata"), and with nothing in flight that
\* branch has a check (update_app, sync_app, docs/route-checks.md:55).
ApplicationsSafe ==
    /\ [](Apps!ComposeIsSource /\ Apps!LastWriteStands)
    /\ [](inTurn => Apps!SourceMatchesRef /\ Apps!CheckedAsSaved)
    /\ Apps!CheckIsFresh

\* Whatever exists in Docker for a build is in its manifest and not marked
\* removed; no rollback and no cleanup takes volume or network from a service that
\* is still there; a cleanup that reports success has left nothing; a deployment
\* removes nothing an earlier attempt has created ("the previous service set
\* intact") and nobody what is not the build's own; a service is created only
\* after every service it depends on runs (deploy, _rollback, DockerBuildCleaner).
RolloutSafe ==
    /\ [](Docker!TypeOK /\ Docker!NothingUnrecorded /\ Docker!UsersFirst /\ Docker!CleanedLeavesNothing)
    /\ Docker!OthersUntouched /\ Docker!DependenciesRun

\* An upload or deletion that is refused has changed nothing; the application
\* stays within its quota; no directory is left that keeps an upload out; Jenkins
\* receives, and containers mount, what the record describes; a snapshot whose
\* cleanup has succeeded is gone with its archive; a snapshot appears whole, as the
\* workspace is at that moment, and changes only by removal once its build is
\* being cleaned (upload, delete_file, snapshot, delete_build_snapshot).
WorkspacesSafe ==
    /\ [](Files!TypeOK /\ Files!RefusedChangesNothing /\ Files!WithinQuota /\ Files!PathsAreFreed)
    /\ [](Files!BuildReadsItsInputs /\ Files!CleanedIsRemoved)
    /\ Files!SnapshotsAreMoments

\* A document is refused while nothing of it exists ("validation errors must not
\* leave infrastructure behind"), and for a reason; a build shares no storage and
\* reaches no stateful backend but its own services, whatever Jenkins returned;
\* what is deployed is what was saved, in an order its dependencies allow
\* (_validate_compose_features, validate_build_compose, _deployment_order).
ComposeSafe ==
    /\ [](Compose!TypeOK /\ Compose!RefusedInTime /\ Compose!Isolated /\ Compose!SourceHonoured /\ Compose!DependenciesFirst)
    /\ Compose!RefusedForAReason
=============================================================================
