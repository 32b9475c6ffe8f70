\* Handles, links, buffers, parameters and rows, each on its own.  Links, vectors,
\* parameters and rows are made up to their bound, and objects once.
CONSTANTS
  Handles = {"h1", "h2", "h3"}
  Objects = {"o1", "o2"}
  Colls = {"links", "picked"}
  MaybeSubsets = {"picked"}
  ObjectIDs <- MCObjectIDs
  Values <- MCValues
  Providers <- MCProviders
  MaxLinks = 2
  Slots = {"buffers1", "buffers2"}
  Places = {"local", "framed"}
  MaxVectors = 3
  MaxValues = 1
  Types = {"int", "double"}
  Keys = {"a", "b"}
  Threads = {"t1", "t2"}
  FromFile <- MCFromFile
  MaxSets = 2
  Frames <- MCFrames
  Converters = {"Hits"}
  Selections <- MCSelections
  MaxRows = 3
SPECIFICATION MemorySpec
CHECK_DEADLOCK FALSE
INVARIANTS
  BlockInUse
  ManagedObjectAlive
  TrackedByPosition
  ReadAsPrepared
  RewrittenUnchanged
  NavigatorComplete
  BuffersOwnedOnce
  WrittenIsCurrent
  CopyIsSnapshot
  KeysComplete
  RowIsFrame
PROPERTIES
  AllReclaimed
