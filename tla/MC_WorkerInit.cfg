\* One operator and one init command beside the initialisation, a peer that comes and goes, reads one block back.
SPECIFICATION Spec
CONSTANTS
    p1 = p1
    o1 = o1
    Peers <- MCPeers
    Operators <- MCOperators
    MinConf = 1
    MaxOrphans = 1
    MaxCommands = 1
INVARIANTS
    TypeOK
    OneInitialization
    QuietChainIsRead
PROPERTIES
    LoneActionTakesEffect
    InitEnds
CHECK_DEADLOCK TRUE
