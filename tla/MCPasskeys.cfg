\* One credential on two authenticators, two ceremonies, two workers.
CONSTANTS
    w1 = w1
    w2 = w2
    k1 = k1
    k2 = k2
    alice = alice
    bob = bob
    key1 = key1
    phone = phone
    clone = clone
    Redis = Redis
    Absent = Absent
    Workers <- MCWorkers
    Keys <- MCKeys
    Users <- MCUsers
    Active <- MCActive
    Creds <- MCCreds
    Devices <- MCDevices
    Holds <- MCHolds
    Silent <- MCSilent
    MaxCount = 3
    RedisOutcomes = {"ok", "down"}
    Losses = {"redis", "lapse", "worker"}
SYMMETRY Symmetry
SPECIFICATION Spec
INVARIANTS
    TypeOK
    OwnPasskeys
    CountOnce
    CounterAhead
PROPERTIES
    PasskeyServiceSpec
