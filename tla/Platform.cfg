SPECIFICATION PlatformSpec
CONSTANTS
    u1 = u1
    u2 = u2
    k1 = k1
    Users = {u1, u2}
    DefaultUsers = {u1}
    Keys = {k1}
    Lifetime = 1
    MaxTime = 1
    MaxRestarts = 1
    Flows = {f1, f2}
    Callbacks = {c1, c2}
    MaxGrants = 3
    MaxCrashes = 1
    n1 = n1
    e1 = e1
    e2 = e2
    Names = {n1}
    HostName = n1
    Endpoints = {e1, e2}
    Sockets = {e2}
    Registrants = {r1, r2}
    MaxConcurrent = 1
    MaxServers = 2
    MaxRequests = 2
    Streams = {x, y}
    Peers = {p1, p2}
    BufferSize = 2
    Timeout = 1
    MaxTicks = 2
    Builtin <- MCBuiltin
    CustomTypes = {"http"}
    Priorities = {100}
    MaxPlugins = 4
    MaxLinks = 2
    MaxLines = 2
    MaxPosts = 1
INVARIANTS
    TypesOK
    AccessIsSound
    ListedServersAreReal
    BooksAreClosed
PROPERTIES
    RefusedStaysRefused
    WhatBeganEnds
CHECK_DEADLOCK FALSE
