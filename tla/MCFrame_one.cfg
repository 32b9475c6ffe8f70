\* One thread, all kinds of raw data, one collection that cannot be read.
CONSTANTS
  a = a
  c = c
  u = u
  b = b
  p = p
  q = q
  Threads = {t1}
  Names = {a, b, c, u, p, q}
  RawNames = {a, b, c, u}
  PutNames = {b, p, q}
  Unreadable = {u}
  Backends = {TRUE, FALSE}
  NoColl = NoColl
  Hash <- OneHash
  FileTable <- OneFileTable
  Rel <- OneRel
SPECIFICATION Spec
INVARIANTS
  GetFindsAvailable
  ListsEveryCollection
  RelationsComplete
