SPECIFICATION MCSpec
CONSTANTS
    Build = {b1, b2}
    Dynamic = b2
    Free = Free
    FirstPort = 2
    LastPort = 3
    Requested <- SomeRequest
    MaxFaults = 1
    MaxForeign = 2
    W1 = w1
    Writer = {w1, w2}
    Field = {"prompt", "model", "timeout"}
    Sets <- MCSets
    Absent = absent
    MaxTries = 2
    MaxVersion = 4
    MaxOperations = 4
    web = web
    db = db
    job = job
    data = data
    cache = cache
    top = top
    deep = deep
    side = side
    snap = snap
    P1 = P1
    P2 = P2
    Nobody = Nobody
    r1 = r1
    r2 = r2
    base = base
    tip = tip
    rewritten = rewritten
    bare = bare
    twice = twice
    Revision = {base, tip, rewritten, bare, twice}
    History <- MCHistory
    Names = 2
    Nested = {1, 2}
    Root <- MCRoot
    Below <- MCBelow
    Process = {api, worker}
    HasEnvironment = {api}
    Request = {r0}
    MaxEdits = 3
    Mirrored = {python, redis}
    Stable = {python}
    Worker = {P1, P2}
    MaxTag = 2
    MaxSyncs = 2
    MaxSyncFaults = 1
    Server = {api}
    Stack = {python, redis}
    Seeds = {python}
    MaxStackEdits = 3
    Branch = {main, dev}
    Client = {r1, r2}
    MaxHead = 2
    MaxRequests = 4
    ComposeService = {web, db, job}
    Storage = {data, cache}
    Owner = owner
    Documents <- MCDocuments
    Altered <- MCAltered
    Service = {db, web}
    DependsOn <- WebNeedsDb
    MaxDeployments = 2
    MaxRolloutFaults = 1
    Thread = {P1, P2}
    Snap = {snap}
    Name = {top, deep, side}
    Parents <- MCParents
    Sizes = {1, 2}
    MaxUploadBytes = 2
    MaxBytes = 3
    MaxFiles = 2
    MaxFileFaults = 1
    Replicas = 2
    PublishedPorts = 0
    WaitTimeout = 2
    Interval = 2
    MayUpdate = TRUE
    MaxFailures = 2
    MaxDelays = 0
SYMMETRY Symmetry
INVARIANT ServicesTypeOK
INVARIANT PortSafety
INVARIANT RoleSafety
PROPERTY ImplementsStore
PROPERTY RolloutSafe
 
PROPERTY WorkspacesSafe
 
PROPERTY ApplicationsSafe
INVARIANT ProviderSafe
INVARIANT CheckoutSafe
INVARIANT ImagesSafe
INVARIANT EverySlotRuns
CHECK_DEADLOCK FALSE
