\* Redis answers and keeps its data while both tokens live.
CONSTANTS
    w1 = w1
    w2 = w2
    w3 = w3
    t1 = t1
    t2 = t2
    n1 = n1
    n2 = n2
    Redis = Redis
    Absent = Absent
    Workers <- MCWorkers
    Tokens <- MCTokens
    Keys = {n1, n2}
    NonceOf <- MCNonceOf
    MaxUses <- MCMaxUses
    UsesCount <- MCUsesCount
    RedisOutcomes = {"ok"}
    Losses = {}
    MaxCount = 3
SPECIFICATION Spec
PROPERTY BudgetSpec
CHECK_DEADLOCK FALSE
