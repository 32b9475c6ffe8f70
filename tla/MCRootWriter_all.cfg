\* Both formats, any sequence of frames and requests, closed at any time.
CONSTANTS
  hits = hits
  Hits = Hits
  tracks = tracks
  full = full
  part = part
  events = events
  runs = runs
  Categories = {events, runs}
  Names = {hits, Hits, tracks}
  Frames = {full, part}
  Formats = {"ttree", "rntuple"}
  MaxEntries = 2
  Lower <- MCLower
  Available <- MCAvailable
  Requests <- MCRequests
SPECIFICATION Spec
CHECK_DEADLOCK FALSE
INVARIANTS
  TypeOK
  EntriesFaithful
  FileDescribed
  WrittenAsRequested
  CheckPredictsWrite
PROPERTIES
  LayoutFinal
