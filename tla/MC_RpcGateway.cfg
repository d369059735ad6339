\* Two calls about two tasks of one worker.
SPECIFICATION Spec
CONSTANTS
    r1 = r1
    r2 = r2
    t1 = t1
    t2 = t2
    Requests <- MCRequests
    Tasks <- MCTasks
    MaxRuns = 1
INVARIANTS
    TypeOK
    AnswerMatchesRequest
    StatusReached
PROPERTIES
    CallsAnswered
CHECK_DEADLOCK FALSE
