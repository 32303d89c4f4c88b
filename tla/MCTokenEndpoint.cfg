\* One dependent, one code, two workers; any database lookup fails, workers and
\* Redis restart, and LocMem culls.
CONSTANTS
    w1 = w1
    w2 = w2
    child = child
    leaf = leaf
    code = code
    Redis = Redis
    Absent = Absent
    Refresh = Refresh
    Workers <- MCWorkers
    Dids <- MCChild
    Codes <- MCCodes
    Keys <- MCKeys
    RedisOutcomes = {"ok"}
    Losses = {"redis", "worker", "cull"}
SYMMETRY Symmetry
SPECIFICATION Spec
INVARIANTS
    TypeOK
    RevocationHolds
    
    GateHolds

    
