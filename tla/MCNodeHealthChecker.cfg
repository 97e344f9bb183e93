\* The slave stops and comes back, and may be deleted.
SPECIFICATION Spec
CONSTANTS
    m1 = m1
    s1 = s1
    s2 = s2
    Addrs = {m1, s1}
    MasterAddr = m1
    InitSlaves <- OneSlave
    Additions = {}
    Flaky = {s1}
    checker = checker
    Admins = {}
    Orders <- OnSlave
    DBs <- Ids
    Nil = Nil
    MaxWeights = 1
INVARIANT CheckerSurvives
CHECK_DEADLOCK FALSE
