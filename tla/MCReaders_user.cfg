\* The functions of a user are registered before or after the generated ones.
CONSTANTS
  edm = edm edmCopy = edmCopy users = users
  Hits = Hits Strips = Strips Tracks = Tracks Gone = Gone
  hits = hits tracks = tracks gone = gone newer = newer missing = missing
  cells = cells seed = seed events = events runs = runs data = data objIdx = objIdx
  noModel = noModel full = full part = part
  edmBlocks = edmBlocks
  a = a b = b both = both short = short old = old renamed = renamed older = older oldest = oldest oldest2 = oldest2
  na = na nboth = nboth nshort = nshort sioFile = sioFile textFile = textFile
  Categories = {events, runs}
  Event = events
  Others = {"runs"}
  Numbers = {2, 7}
  EntryRange = 7
  Data = data
  ObjIdx = objIdx
  NoModel = noModel
  PositionRange = 1000
  MaxWritten = 0
  Columns = {hits, tracks}
  EventsInFiles = {0, 3, 5}
  Limits = {0, 4, 99}
  AllEvents = 99
  SlotNumbers = {1, 2, 6}
  Libraries <- MCUserLibraries
  Relations <- MCRelations
  Files <- MCFiles
  Suffix <- MCSuffix
  RNTuples <- MCRNTuples
  Lists <- MCLists
  Sessions <- MCSessions
  SourceLists <- MCSourceLists
  SioFrames <- MCSioFrames
  Models <- MCModels
  SioPaths <- MCSioPaths
  UserData = {cells}
  SioRequests <- MCSioRequests
  LegacySessions <- MCLegacySessions
  Arguments = {}
  ModelsInFiles = {edm}
  SizeRange = 64
  MaxSize = 8
SPECIFICATION DumpSpec
CHECK_DEADLOCK FALSE
INVARIANTS
  UserFunctionApplied
