SPECIFICATION Spec
CONSTANTS
    c1 = c1
    c2 = c2
    c3 = c3
    Clients = {c1, c2, c3}
    Servers = {s1, s2}
    Addresses = {a1, a2}
    Priority <- MCPriority
    Signals = {1, 2}
    Sessions = {x1, x2, x3}
    Port = Port
    MaxSessions = 2
    None = None
SYMMETRY MCSymmetry
INVARIANTS
    PortCountsSessions
    RequestersWait
    NoLostRequest
    ArbiterListsWaiters
PROPERTIES
    CallLifecycle
    BestIsResumed
CHECK_DEADLOCK FALSE
