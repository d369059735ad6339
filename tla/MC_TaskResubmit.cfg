SPECIFICATION Spec
CONSTANTS
    r1 = r1  r2 = r2  r3 = r3  d1 = d1  d2 = d2  c1 = c1
    Requests = {r1, r2, r3}
    TaskIds = {c1, d1}
    Deploys = {d1}
    OutsideIds = {d1}
    NoRequest = NoRequest
    TaskOf <- DeployTwice
    MaxEpochs = 0
    MaxCrashes = 1
INVARIANTS
    TypeOK
    PoolMatchesHandlers
    VerifiedTaskOnDisk
    OnlyVerifiedLeavesMemory
    PublishedMatchesDisk
PROPERTIES
    FinishedIsFinal
CHECK_DEADLOCK FALSE
