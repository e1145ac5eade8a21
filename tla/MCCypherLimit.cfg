SPECIFICATION MCSpec
CONSTANTS
    p1 = p1
    p2 = p2
    t1 = t1
    t2 = t2
    t3 = t3
    k1 = k1
    k2 = k2
    k3 = k3
    c1 = c1
    c2 = c2
    None = None
    Processes = {p1, p2}
    Threads = {t1, t2, t3}
    Locks = {k1, k2, k3}
    Home <- MCHome
    Consumers = {c1, c2}
    MaxPrefetch = 2
    MaxBatches = 4
    MaxStarts = 3
    MaxNesting = 2
    MaxFaults = 2
    Null = Null
    Unset = Unset
    SubLabel <- MCSubLabel
    SubType <- MCSubType
    Queries <- MCQueries
    Graphs <- MCGraphs
    Contexts <- MCContexts
    Constraints <- MCConstraints
    IdPool = {4, 5, 6, 7, 8, 9, 10, 14, 15, 16, 17, 18}
    MaxQueries = 1
INVARIANT LimitKeepsWrites
