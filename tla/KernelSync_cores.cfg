CONSTANTS
    t1 = t1
    t2 = t2
    t3 = t3
    m1 = m1
    m2 = m2
    e1 = e1
    x1 = x1
    pr1 = pr1
    pr2 = pr2
    Threads = {t1, t2}
    Mutexes = {m1}
    Events = {e1}
    Semaphores = {}
    Cores = {0, 1}
    CoreOf <- TwoCores
    Processes = {pr1}
    ProcessOf <- OneProcess
    ResetType <- OneShotEvents
    Lowest = 1
    MainThread = t1
    MainPriority = 1
    Svcs = {"wait", "mutex", "event", "sleep", "create", "exit"}
    WaitLists <- CoreLists
    MaxLocks = 1
    MaxCount = 1
SPECIFICATION FairSpec
INVARIANTS LevelsPrepared SliceRunsCurrent
PROPERTY TimedWaitEnds
