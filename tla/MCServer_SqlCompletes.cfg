\* Writer-preferring locks (std's futex RwLock), every command: a stuck close starves the readers.
CONSTANTS
  a1 = a1  a2 = a2  a3 = a3  c1 = c1  c2 = c2  c3 = c3
  Conns = {a1, a2}
  ClientIds = {c1, c2}
  ClientOf <- MCClientOf
  DbNames = {d1, d2}
  WRITER_PREFERRING = TRUE
  Commands = {"create", "connect", "sql", "close"}
  MaxGen = 1
SPECIFICATION Spec
PROPERTY SqlCompletes
CHECK_DEADLOCK FALSE
