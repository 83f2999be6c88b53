\* Writer-preferring locks, connections without close: a create, a connect and an SQL request deadlock.
CONSTANTS
  a1 = a1  a2 = a2  a3 = a3  c1 = c1  c2 = c2  c3 = c3
  Conns = {a1, a2, a3}
  ClientIds = {c1, c2, c3}
  ClientOf <- MCClientOf
  DbNames = {d1, d2}
  WRITER_PREFERRING = TRUE
  Commands = {"create", "connect", "sql"}
  MaxGen = 1
SPECIFICATION Spec
INVARIANT NoDeadlock
CHECK_DEADLOCK FALSE
