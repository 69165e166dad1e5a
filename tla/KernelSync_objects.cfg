CONSTANTS
    t1 = t1
    t2 = t2
    t3 = t3
    m1 = m1
    m2 = m2
    e1 = e1
    x1 = x1
    pr1 = pr1
    pr2 = pr2
    Threads = {t1, t2, t3}
    Mutexes = {m1}
    Events = {e1}
    Semaphores = {x1}
    Cores = {0}
    CoreOf <- OneCore
    Processes = {pr1, pr2}
    ProcessOf <- TwoProcesses
    ResetType <- PulseEvents
    Lowest = 1
    MainThread = t1
    MainPriority = 1
    Svcs = {"wait", "mutex", "semaphore", "event", "create", "terminate", "priority"}
    WaitLists <- MixedLists
    MaxLocks = 1
    MaxCount = 1
SYMMETRY Symmetry
SPECIFICATION Spec
INVARIANTS ReadyQueueConsistent WaitListsConsistent NoLostWakeup MutexOwnership
PROPERTY WaitIsAllOrNothing
