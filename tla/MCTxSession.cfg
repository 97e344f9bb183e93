\* Every kind of statement; SET autocommit only outside BEGIN ... COMMIT.
SPECIFICATION Spec
CONSTANTS
    Nodes = {n1, n2}
    DefaultNode = n1
    Kinds = {"shard", "hint", "plain"}
    MixesStyles = FALSE
    MaxStmts = 2
    MaxLost = 1
INVARIANTS
    TypeOK
    Durability
    Renounced
    KeptOnlyInTransaction
PROPERTY LeaksAreErrors
