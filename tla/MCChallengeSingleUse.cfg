\* Redis answers and loses nothing.
CONSTANTS
    w1 = w1
    w2 = w2
    staff = staff
    disabled = disabled
    gated = gated
    Redis = Redis
    Absent = Absent
    Workers <- MCWorkers
    Keys = {ch}
    Dids <- MCDids
    Tabs = {tab}
    Admitted <- MCAdmitted
    Invited = {}
    Active <- MCActive
    Staff <- MCStaff
    Enrolled <- MCStaff
    RedisOutcomes = {"ok"}
    Losses = {}
    MaxCopies = 3
SPECIFICATION Spec
INVARIANT SingleUse
CHECK_DEADLOCK FALSE
