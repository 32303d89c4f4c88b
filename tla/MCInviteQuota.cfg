\* Every failure at once: outages, lost replies, restarts, culling, lapses.
CONSTANTS
    w1 = w1
    w2 = w2
    narrow = narrow
    wide = wide
    nonce = nonce
    Redis = Redis
    Absent = Absent
    Workers <- MCWorkers
    Tokens <- MCTokens
    Keys = {nonce}
    NonceOf <- MCNonceOf
    MaxUses <- MCMaxUses
    UsesCount <- MCUsesCount
    RedisOutcomes = {"ok", "down", "lost"}
    Losses = {"redis", "worker", "cull", "lapse"}
    MaxCount = 3
SYMMETRY Symmetry
SPECIFICATION Spec
INVARIANTS
    TypeOK
    EveryAdmissionCounted
    BudgetPerCounter
PROPERTY NeverBackwards
