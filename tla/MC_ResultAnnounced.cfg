CONSTANTS
    w1 = w1
    w2 = w2
    d = d
    t1 = t1
    t2 = t2
    sc = sc
    none = none
    Workers = {w1, w2}
    Tasks = {d, t1, t2}
    None = none
    Deploys = {d}
    Contracts = {sc}
    ContractOf <- OneContract
    ExecutorOf <- Selected
    Deliveries <- Repeated
    MaxKey = 2
    MinConf = 1
    MaxFaults = 1
SPECIFICATION Spec
INVARIANTS
    AnnouncedIsDeployed
CHECK_DEADLOCK FALSE
