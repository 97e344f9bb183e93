\* Statements on unsharded tables reach the default node inside a transaction.
SPECIFICATION Spec
CONSTANTS
    Nodes = {n1, n2}
    DefaultNode = n1
    Kinds = {"shard", "plain"}
    MixesStyles = FALSE
    MaxStmts = 2
    MaxLost = 0
INVARIANT SingleNode
