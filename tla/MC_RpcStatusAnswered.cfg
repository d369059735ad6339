\* Status calls and the tasks of which the worker says nothing.
SPECIFICATION Spec
CONSTANTS
    r1 = r1
    r2 = r2
    t1 = t1
    t2 = t2
    Requests <- MCRequests
    Tasks <- MCTasks
    MaxRuns = 1
PROPERTIES
    StatusAnswered
CHECK_DEADLOCK FALSE
