SPECIFICATION MCSpec
CONSTANTS
    Session = {s1, s2, s3, s4}
    NoSession = NoSession
    LeaseMayLapse = TRUE
    w1 = w1
    w2 = w2
    r1 = r1
    Nobody = Nobody
    NoVerdict = NoVerdict
    b1 = b1
    NoBuild = NoBuild
    web = web
    db = db
    python = python
    node = node
    Replicas = 1
    PublishedPorts = 1
    WaitTimeout = 3
    Interval = 2
    MayUpdate = TRUE
    MaxFailures = 2
    MaxDelays = 1
    Helper = {"h1", "h2"}
    MaxWrites = 3
    PollInterval = 1
    RecoveryInterval = 6
    LeaseTime = 2
    MaxAttempts = 2
    Lateness = 1
    ReadinessTimeout = 2
    DeployTime = 13
    MaxCrashes = 1
INVARIANT EndingsTypeOK
INVARIANT WaitIsExact
INVARIANT RunIsContained
PROPERTY LostLeaseStaysLost
 
 
CHECK_DEADLOCK FALSE
