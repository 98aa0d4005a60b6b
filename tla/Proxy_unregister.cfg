SPECIFICATION Spec
CONSTANTS
    n1 = n1
    e1 = e1
    e2 = e2
    r1 = r1
    r2 = r2
    Names = {n1}
    HostName = n1
    Endpoints = {e1, e2}
    Sockets = {e2}
    Registrants = {r1, r2}
    MaxConcurrent = 1
    MaxServers = 2
    MaxRequests = 2
INVARIANTS
    UnregisteredIsNotCalled
