SPECIFICATION Spec
CONSTANTS
    t1 = t1
    t2 = t2
    t3 = t3
    t4 = t4
    External = External
    Workers = {1, 2}
    Tasks = {t1, t2, t3, t4}
    Stoppers = {1, 2}
    QueueSize = 1
    Parent <- OneNested
INVARIANTS
    TypeOK
    GracefulStop
    QuietAfterStop
PROPERTIES
    AcceptedIsExecuted
    StopEnds
CHECK_DEADLOCK FALSE
