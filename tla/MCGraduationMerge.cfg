\* Nothing fails; an OAuth merge runs beside a confirmation.
SPECIFICATION Spec
CONSTANTS
    u1 = u1
    u2 = u2
    w1 = w1
    w2 = w2
    w3 = w3
    None = None
    Users <- MCUsers
    Workers <- MCWorkers
    Custodial <- MCCustodial
    Mergeable <- MCUsers
    Faults = {}
PROPERTY SovereignPreserved
