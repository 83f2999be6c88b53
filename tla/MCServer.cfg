\* Writer-preferring locks, every command, two connections from one host, a re-create per name.
CONSTANTS
  a1 = a1  a2 = a2  a3 = a3  c1 = c1  c2 = c2  c3 = c3
  Conns = {a1, a2}
  ClientIds = {c1, c2}
  ClientOf <- MCSharedHostClientOf
  DbNames = {d1, d2}
  WRITER_PREFERRING = TRUE
  Commands = {"create", "connect", "sql", "close"}
  MaxGen = 2
SPECIFICATION Spec
INVARIANT IdsResolve
CHECK_DEADLOCK FALSE
