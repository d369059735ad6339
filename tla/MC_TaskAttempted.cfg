SPECIFICATION FairSpec
CONSTANTS
    r1 = r1  r2 = r2  r3 = r3  d1 = d1  d2 = d2  c1 = c1
    Requests = {r1, r2}
    TaskIds = {d1, d2}
    Deploys = {d1, d2}
    OutsideIds = {}
    NoRequest = NoRequest
    TaskOf <- TwoDeploys
    MaxEpochs = 1
    MaxCrashes = 0
PROPERTIES
    VerifiedTaskIsAttempted
CHECK_DEADLOCK FALSE
