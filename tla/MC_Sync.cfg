CONSTANTS
    a1 = a1
    p1 = p1
    me = me
    none = none
    c1 = c1
    c2 = c2
    Addrs = {a1}
    Peers = {p1}
    Self = me
    None = none
    Executes <- Contended
    MaxLen = 2
    Limit <- OnlyTwo
    RangeLimit = 1
    Calls = {c1, c2}
    Callbacks = {c1}
    OneShot = {c1}
    MaxFaults = 1
SPECIFICATION Spec
INVARIANTS
    TypeOK
    ForeignDeltaOnChain
    DoneIsLast
PROPERTIES
    ImplementsReplica
    GapOnlyBelowTip
    CallsSettle
CHECK_DEADLOCK FALSE
