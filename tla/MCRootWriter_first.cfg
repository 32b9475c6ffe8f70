\* A TTree whose first frame is refused.
CONSTANTS
  hits = hits
  Hits = Hits
  tracks = tracks
  full = full
  part = part
  events = events
  runs = runs
  Categories = {events}
  Names = {hits, Hits, tracks}
  Frames = {full, part}
  Formats = {"ttree"}
  MaxEntries = 2
  Lower <- MCLower
  Available <- MCAvailable
  Requests <- MCRequests
SPECIFICATION Spec
CHECK_DEADLOCK FALSE
INVARIANTS
  FirstWrittenDecides
