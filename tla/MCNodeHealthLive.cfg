\* A second slave is added while its server and the master come and go; no
\* administrator brings anything up or takes it down.
SPECIFICATION FairSpec
CONSTANTS
    m1 = m1
    s1 = s1
    s2 = s2
    Addrs = {m1, s1, s2}
    MasterAddr = m1
    InitSlaves <- OneSlave
    Additions <- AddTwo
    Flaky = {m1, s2}
    checker = checker
    Admins = {}
    Orders <- OnSlave
    DBs <- Ids
    Nil = Nil
    MaxWeights = 3
INVARIANTS TypeOK SafeIndex
PROPERTIES TurnsByWeight Recovery
CHECK_DEADLOCK FALSE
