\* Every fault; a custodial account and one that holds its key, both within
\* reach of an OAuth merge; three workers, so that two queue for a lock.
SPECIFICATION FairSpec
CONSTANTS
    u1 = u1
    u2 = u2
    w1 = w1
    w2 = w2
    w3 = w3
    None = None
    Users <- MCUsers
    Workers <- MCThreeWorkers
    Custodial <- MCCustodial
    Mergeable <- MCUsers
    Faults = {"vault_down", "vault_unheard", "commit_failed", "reply_lost", "crash"}
INVARIANTS
    TypeOK
    ShreddedFirst
    AtomicBarringMishaps
PROPERTIES
    CustodySpec
    EveryRequestEnds
