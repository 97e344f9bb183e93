\* Two goroutines contend for a pool of one, with an identity to spare for
\* each connection that is opened while another is being closed.
SPECIFICATION FairSpec
CONSTANTS
    Threads = {t1, t2}
    Conns = {c1, c2, c3}
    NoConn = NoConn
    MaxConnsLimit = 1
INVARIANTS
    TypeOK
    TokenConservation
    CounterAccounting
    RoomToReturn
    Exclusive
    NoPoolCommit
PROPERTIES
    PoppedClean
    SelectServed
    CloseReleasesWaiters
