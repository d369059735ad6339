SPECIFICATION FairSpec
CONSTANTS
    c1 = c1  c2 = c2  s1 = s1  s2 = s2  t1 = t1
    Creations = {c1, c2}
    Submissions = {}
    Tasks = {t1}
    TaskOf <- OneTask
    NoCall = NoCall
    MyEpochs = {1}
    MinConf = 1
    Timeout = 1
    ParamsSize = 2
    FirstBlock = 8
    MaxBlock = 12
    MaxEpochs = 2
INVARIANTS
    TypeOK
    NoMissedEvent
    VerifiedIsConfirmed
    SelectedBeforeTask
PROPERTIES
    OverdueIsAnswered
CHECK_DEADLOCK FALSE
