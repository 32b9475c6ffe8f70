\* A user puts a collection under the name of one in the raw data.
CONSTANTS
  a = a
  c = c
  u = u
  b = b
  p = p
  q = q
  Threads = {t1, t2}
  Names = {a, b, c, p}
  RawNames = {a, b, c}
  PutNames = {b, p}
  Unreadable = {}
  Backends = {TRUE}
  NoColl = NoColl
  Hash <- MCHash
  FileTable <- MCFileTable
  Rel <- MCRel
SPECIFICATION Spec
INVARIANTS
  PutNeedsNewName
