\* A user presents a credential about another DID; nothing fails.
CONSTANTS
    w1 = w1
    w2 = w2
    child = child
    leaf = leaf
    code = code
    Redis = Redis
    Absent = Absent
    Refresh = Refresh
    Workers <- MCWorkers
    Dids <- MCChildren
    Codes <- MCCodes
    Keys <- MCLeafKeys
    RedisOutcomes = {"ok"}
    Losses = {}
SYMMETRY Symmetry
SPECIFICATION Spec
PROPERTY SubjectChecked
