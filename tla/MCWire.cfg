SPECIFICATION Spec
CONSTANTS
  c1 = c1  c2 = c2  d1 = d1  d2 = d2  bad = bad  utf8 = utf8  gbk = gbk
  sel = sel  ins = ins  plain = plain
  NoDb = NoDb  None = None  NULL = NULL
  Clients = {c1, c2}
  Dbs = {d1, d2}
  Charsets = {utf8, gbk}
  DefaultCharset = utf8
  LoginDb <- MCLoginDb
  UsedDb = d1
  Commands <- MCCommands
  Params <- MCParams
  Columns <- MCColumns
  Args <- MCArgs
  LongStmts = {ins}
  RowLens = {1, 2, 3}
  MaxPayloadLen = 2
  SequenceSize = 4
  MaxCommands = 3
  MaxRows = 1
  MaxBreaks = 1
INVARIANTS PooledInStep RunsAsAsked OneAnswer
PROPERTIES CommandsAnswered
CHECK_DEADLOCK FALSE
