SPECIFICATION Spec
CONSTANTS
    Devices = {d1, d2}
    Named = {d1, d2}
    Callers = {c1, c2}
    ToolTasks = {t1, t2, t3}
    Former = t3
    Known = d1
    Nil = Nil
    QueueSize = 1
    Changes = 2
PROPERTY FailedFetchReported
CHECK_DEADLOCK FALSE
