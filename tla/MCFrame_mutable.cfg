\* One thread gets a collection the other is still unpacking.
CONSTANTS
  a = a
  c = c
  u = u
  b = b
  p = p
  q = q
  Threads = {t1, t2}
  Names = {a, b, c, p}
  RawNames = {a, b, c}
  PutNames = {}
  Unreadable = {}
  Backends = {TRUE}
  NoColl = NoColl
  Hash <- MCHash
  FileTable <- MCFileTable
  Rel <- MCRel
SPECIFICATION Spec
PROPERTIES
  ReturnedIsImmutable
