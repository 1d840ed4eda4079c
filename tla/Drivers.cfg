SPECIFICATION DriversSpec
CONSTANTS
    Reader = {r1}
    Handlers = {"interrupt", "sh_interrupt", "tl_interrupt", "wq_interrupt", "shortp"}
    Records = 3
    NR_TIMEVAL = 2
    MaxIrqs = 3
    User = {u1}
    Line = {3, 5, 7}
    MaxToggles = 3
    MaxFires = 3
    MaxFaults = 1
    Task = {t1, t2}
    NoTask = notask
    Limit = 2
    JIT_ASYNC_LOOPS = 2
    MaxWrites = 3
    Drivers <- Names
    MaxLoads = 2
INVARIANTS LogIsSound LogSleeperIsWoken NoTimeIsForgotten OutputsAreInStep FoundLineFiredAlone  
CHECK_DEADLOCK FALSE
