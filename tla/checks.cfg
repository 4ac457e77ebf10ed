SPECIFICATION MCSpec
CONSTANTS
    Build = {b1, b2}
    NoBuild = NoBuild
    MaxRuns = 2
    MaxGeneration = 2
    MaxFaults = 1
    Worker = {w1, w2}
    Requester = {r1, r2}
    Nobody = Nobody
    NoVerdict = NoVerdict
    MaxIncarnations = 2
    MaxGenerations = 2
    MaxStaticFaults = 2
SYMMETRY Symmetry
INVARIANT ChecksTypeOK
 
 
 
INVARIANT GateStands
INVARIANT AgentAlone
PROPERTY ImplementsVerdict
CHECK_DEADLOCK FALSE
