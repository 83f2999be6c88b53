\* create_database over an existing name orphans its connected clients.
CONSTANTS
  a1 = a1  a2 = a2  a3 = a3  c1 = c1  c2 = c2  c3 = c3
  Conns = {a1, a2}
  ClientIds = {c1, c2, c3}
  ClientOf <- MCClientOf
  DbNames = {d1, d2}
  WRITER_PREFERRING = TRUE
  Commands = {"create", "connect", "sql", "close"}
  MaxGen = 2
SPECIFICATION Spec
INVARIANT ClientSetsAccurate
CHECK_DEADLOCK FALSE
