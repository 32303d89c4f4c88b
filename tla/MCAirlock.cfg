\* One browser that starts a request beside another one up to twice.
CONSTANTS
    w1 = w1
    w2 = w2
    k1 = k1
    k2 = k2
    k3 = k3
    member = member
    guest = guest
    None = None
    Browsers = {b1}
    Users <- MCUsers
    Workers <- MCWorkers
    Keys <- MCKeys
    Admitted <- MCAdmitted
    Staff <- MCStaff
    EarlyAcks <- MCAdmitted
    MaxOverlap = 2
SYMMETRY Symmetry
SPECIFICATION Spec
INVARIANTS
    TypeOK
    SignedInProven
    CodesAreEarned
    SponsorOnce
PROPERTIES
    AccessKept
    AtomicSessionSpec
