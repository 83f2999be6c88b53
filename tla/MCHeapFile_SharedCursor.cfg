\* Two threads share the file cursor: a read or a write lands on another page.
CONSTANTS
  t1 = t1  t2 = t2  b1 = b1  b2 = b2  NoBody = NoBody
  Threads = {t1, t2}
  MAX_PAGES = 2
  Bodies = {b1, b2}
SPECIFICATION Spec
PROPERTY PageStoreSpec
