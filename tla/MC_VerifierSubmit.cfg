SPECIFICATION FairSpec
CONSTANTS
    c1 = c1  c2 = c2  s1 = s1  s2 = s2  t1 = t1
    Creations = {}
    Submissions = {s1, s2}
    Tasks = {t1}
    TaskOf <- OneTask
    NoCall = NoCall
    MyEpochs = {1}
    MinConf = 1
    Timeout = 1
    ParamsSize = 1
    FirstBlock = 8
    MaxBlock = 11
    MaxEpochs = 1
INVARIANTS
    NoMissedEvent
    VerifiedIsConfirmed
PROPERTIES
    OverdueIsAnswered
CHECK_DEADLOCK FALSE
