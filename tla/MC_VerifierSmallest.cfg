SPECIFICATION Spec
CONSTANTS
    c1 = c1  c2 = c2  s1 = s1  s2 = s2  t1 = t1
    Creations = {c1}
    Submissions = {}
    Tasks = {t1}
    TaskOf <- OneTask
    NoCall = NoCall
    MyEpochs = {1, 2}
    MinConf = 1
    Timeout = 2
    ParamsSize = 2
    FirstBlock = 8
    MaxBlock = 12
    MaxEpochs = 2
INVARIANTS
    SmallestFirst
CHECK_DEADLOCK FALSE
