SPECIFICATION Spec
CONSTANTS
  c1 = c1  c2 = c2  o1 = o1
  ip1 = ip1  ip2 = ip2  ip3 = ip3  q1 = q1  u1 = u1  u2 = u2  a1 = a1  a2 = a2
  Empty = Empty  None = None
  Sessions = {c2}
  Operators = {o1}
  AddrOf <- MCAddrOf
  UserOf <- MCUserOf
  First <- MCFirst
  Menus <- MCMenus
  Sqls = {q1}
  EarlySignals = FALSE
  MaxCommands = 3
  MaxRestarts = 1
  MaxQueries = 1
INVARIANTS SavedSettingsStay
PROPERTIES OnlyAllowedEnter BlackSqlsRefused SessionsMove SignalStops
CHECK_DEADLOCK FALSE
