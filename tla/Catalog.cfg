SPECIFICATION CatalogSpec
CONSTANTS
    t1 = t1
    t2 = t2
    u1 = u1
    u2 = u2
    Tools = {t1, t2}
    Users = {u1, u2}
    Readable <- MCReadable
    Requests = {r1, r2}
    MaxRestarts = 1
    Names = {n1, n2}
    Categories = {a, b}
    MaxTools = 3
    Limit = 1
    Endpoints = 2
    MaxHistory = 1
    MaxClashes = 1
    Devs = {d1, d2}
    Usernames = {ann, bob}
    Sessions = {s1, s2}
    Keys = {k1, k2, k3}
    Callers = {p1, p2}
    Ttl = 1
    MaxSize = 2
    LoadTime = 1
    MaxTime = 3
    Policies = {"tool_access", "new_policy"}
    Predefined <- MCPredefined
    MaxVersions = 2
    MaxUploads = 2
    Addresses = {addr}
    Checkers = {q1, q2, q3}
    Limits = {1}
    Minute = 1
    Words = {"a", "b"}
    NumTools = 3
    MaxTerms = 3
    Threshold = 42
    Unit = 60
    MaxSearches = 1
INVARIANTS
    TypesOK
    OnlyReadable
    ListingsAreSound
    RecordsAreSound
PROPERTIES
    StaleListingsGo
