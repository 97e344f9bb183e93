\* Every statement shape against a rule of every type, and two clients on
\* nodes that lose statements.
SPECIFICATION Spec
CONSTANTS
    n1 = n1
    n2 = n2
    c1 = c1
    c2 = c2
    Clients = {c1, c2}
    Idle = Idle
    Word = 16
    MaxNumKey = 6
    Crc <- CrcOf
    Vals = {0, 1}
    Setups <- MCSetups
INVARIANTS Placed RuleInOrder
PROPERTIES Answered OneTableSeen
CHECK_DEADLOCK FALSE
