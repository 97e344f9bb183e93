\* The slave stops and comes back, is deleted, added, taken down and brought
\* up; the master is taken down.
SPECIFICATION Spec
CONSTANTS
    m1 = m1
    s1 = s1
    s2 = s2
    Addrs = {m1, s1}
    MasterAddr = m1
    InitSlaves <- OneSlave
    Additions <- AddOne
    Flaky = {s1}
    checker = checker
    Admins = {admin}
    Orders <- OnBoth
    DBs <- Ids
    Nil = Nil
    MaxWeights = 2
INVARIANTS DownIsClosed Distinct
CHECK_DEADLOCK FALSE
