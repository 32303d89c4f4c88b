\* One request at a time, and nothing fails.
CONSTANTS
    w1 = w1
    w2 = w2
    e1 = e1
    e2 = e2
    u1 = u1
    u2 = u2
    u3 = u3
    u4 = u4
    p1 = p1
    n1 = n1
    n2 = n2
    Redis = Redis
    Absent = Absent
    Workers <- MCOneWorker
    Keys <- MCKeys
    Emails <- MCEmails
    Users <- MCUsers
    Profiles <- MCProfiles
    Codes <- MCCodes
    Accounts <- MCAccounts
    Given <- MCGiven
    Walled <- MCWalled
    Custodial <- MCCustodial
    RedisOutcomes = {"ok"}
    Losses = {}
SPECIFICATION Spec
INVARIANT OneAccountPerAddress
