\* Two workers, every failure of the cache.
CONSTANTS
    w1 = w1
    w2 = w2
    staff = staff
    disabled = disabled
    gated = gated
    Redis = Redis
    Absent = Absent
    Workers <- MCWorkers
    Keys = {ch}
    Dids <- MCDids
    Tabs = {tab, guest}
    Admitted <- MCAdmitted
    Invited = {guest}
    Active <- MCActive
    Staff <- MCStaff
    Enrolled <- MCStaff
    RedisOutcomes = {"ok", "down", "lost"}
    Losses = {"redis", "worker", "cull", "lapse"}
    MaxCopies = 3
SYMMETRY Symmetry
SPECIFICATION Spec
INVARIANTS
    TypeOK
    SignedLogin
    KindSeparation
    ReuseBound
PROPERTIES
    LedgerSpec
