\* One thread: writes, reads, holes and an iterator interleaved with writes.
CONSTANTS
  t1 = t1  t2 = t2  b1 = b1  b2 = b2  NoBody = NoBody
  Threads = {t1}
  MAX_PAGES = 2
  Bodies = {b1, b2}
SPECIFICATION FairSpec
INVARIANT TypeOK IterYieldsAll
PROPERTY PageStoreSpec NextReturns
