\* Two threads get and put on one frame of any backend.
CONSTANTS
  a = a
  c = c
  u = u
  b = b
  p = p
  q = q
  Threads = {t1, t2}
  Names = {a, b, c, p}
  RawNames = {a, b, c}
  PutNames = {b, p}
  Unreadable = {c}
  Backends = {TRUE, FALSE}
  NoColl = NoColl
  Hash <- MCHash
  FileTable <- MCFileTable
  Rel <- MCRel
SPECIFICATION FairSpec
INVARIANTS
  TypeOK
  BuffersInOnePlace
  ResultsAreStored
  RelationsInOrder
  StoredByID
  RecursionBounded
PROPERTIES
  MapEntriesFinal
  ImplementsStore
  CallsReturn
