-------------------------------- MODULE SioFile --------------------------------
(***************************************************************************)
(* podio::SIOWriter and podio::SIOReader with the file between them: a     *)
(* sequence of records with a table of contents at its end, and a marker   *)
(* after it that says where the table starts.  The file is all that is     *)
(* left when the process of the writer ends early.                         *)
(*                                                                         *)
(* The sio library is external: a record is written at the end of the      *)
(* file and read at a position; here every record takes one position.      *)
(* What a process can write and read are the types with an SIO block, from *)
(* the libraries that it finds and loads once.                             *)
(***************************************************************************)
EXTENDS Naturals, SequencesExt, FiniteSets

CONSTANTS
  Categories,
  SioFrames,     \* frame -> the names of its collections
  Models,        \* name of a collection -> its datamodel, NoModel when none is needed
  NoModel,
  SioRequests,   \* lists of names to write, and to read
  EntryNumbers,  \* entry numbers asked for
  PositionRange, \* 2^32: what sio_helpers::position_type can hold
  MaxWritten,    \* bound: frames written to the file
  SioPaths,      \* [own, dirs]: whether PODIO_SIOBLOCK_PATH is set, and the libraries
                 \* [name, opens, blocks] in each directory of the path that is searched
  UserData       \* the names whose types have a block without a library

VARIABLES
  blocks,     \* SIOBlockFactory::_map of the writer and of the reader, by the names
  writer,     \* "none", "open", "closed" after finish, "gone" after a crash, "root"
  file,       \* the records
  toc,        \* SIOWriter::m_tocRecord: pairs of a name and its positions
  collected,  \* DatamodelDefinitionCollector::m_edmDefRegistryIdcs
  written,    \* what the frames were written with, kept for the properties
  reader,     \* "new", "open", "gone" when the process has ended
  tocRecord,  \* SIOReader::m_tocRecord
  holder,     \* DatamodelDefinitionHolder: the names of the models
  nameCtr,    \* SIOReader::m_nameCtr
  frameData   \* the SIOFrameData of the last call

writerVars == <<blocks, writer, file, toc, collected, written>>
readerVars == <<reader, tocRecord, holder, nameCtr, frameData>>
vars == <<writerVars, readerVars>>

Record(kind, content) == [kind |-> kind, content |-> content]
EDMDefinitions == "podio_SIO_EDMDefinitions"

\* SIOBlockLibraryLoader::getLibNames goes through the directories, and after each
\* of them refuses a path of its own in which nothing was found so far.
GetLibNames(path) == FlattenSeq(path.dirs)
NoneFound(path) == path.own /\ path.dirs # <<>> /\ path.dirs[1] = <<>>

\* SIOBlockLibraryLoader::loadLib: one library of a name, the first that can be
\* opened.  A library registers its blocks with the factory.
LoadLib(loaded, lib) ==
  IF lib.name \in {l.name : l \in loaded} \/ ~lib.opens THEN loaded ELSE loaded \cup {lib}
RegisterBlocks(libs) == UserData \cup UNION {lib.blocks : lib \in libs}
LoadedBlocks(path) == RegisterBlocks(FoldLeft(LoadLib, {}, GetLibNames(path)))

\* SIOBlockFactory::createBlock, to read and to write: a nullptr without a block,
\* which the sio library uses.
NoBlock == "nullptr"
CreateBlock(factory, name) == IF name \in factory THEN name ELSE NoBlock

\* SIOFileTOCRecord::addRecord; a position is narrowed to 32 bits.
AddRecord(map, name, position) ==
  LET p == position % PositionRange
      at == {i \in DOMAIN map : map[i].name = name}
  IN  IF at = {} THEN Append(map, [name |-> name, positions |-> <<p>>])
      ELSE [i \in DOMAIN map |-> IF i = Min(at) THEN [map[i] EXCEPT !.positions = Append(@, p)]
                                 ELSE map[i]]

\* The positions of the records of a name, and how many there are.
Positions(map, name) ==
  LET at == {i \in DOMAIN map : map[i].name = name}
  IN  IF at = {} THEN <<>> ELSE map[Min(at)].positions
GetNRecords(map, name) == Len(Positions(map, name))

\* Faulty variant: the position after the one asked for.
GetPositionNext(map, name, n) ==
  IF n + 1 < GetNRecords(map, name) THEN Positions(map, name)[n + 2] ELSE 0

\* 0 is for no such record, there being the header record.
GetPosition(map, name, n) ==
  IF n < GetNRecords(map, name) THEN Positions(map, name)[n + 1] ELSE 0

\* createCollIDBlock and createBlocks: the names of the table are in the order
\* of the blocks; the first block of the data holds the parameters.
TableRecord(c, id, names) == Record("header", [cat |-> c, id |-> id, names |-> names])
CreateBlocks(factory, names) == <<"params">> \o [i \in DOMAIN names |-> CreateBlock(factory, names[i])]
DataRecord(c, id, names) ==
  Record("data", [cat |-> c, id |-> id, blocks |-> CreateBlocks(blocks.writer, names)])

\* The blocks of a record that starts at a position.
ReadRecord(position) == file[position + 1].content

NoFrame == [status |-> "none"]
Null == [status |-> "null"]
Thrown == [status |-> "throw"]

\* SIOFrameData::createBlocks and unpackBuffers: the blocks are those of the
\* table, and when only some are wanted the others are not available.
AvailableBlocks(table, limitColls) ==
  <<TRUE>> \o [i \in DOMAIN table.names |-> limitColls = <<>> \/ table.names[i] \in Range(limitColls)]

\* SIOFrameData: the id table is read at once, and a name in limitColls that it
\* does not have is refused.
FrameData(table, data, limitColls) ==
  IF ~(Range(limitColls) \subseteq Range(table.names)) THEN Thrown
  ELSE [status |-> "frame", table |-> table, data |-> data,
        availableBlocks |-> AvailableBlocks(table, limitColls)]

\* Without a block for each of the types in the table the process ends.
CanUnpack(fd) == fd.status = "frame" => NoBlock \notin Range(CreateBlocks(blocks.reader, fd.table.names))

\* Faulty variant: collection indices start at 0.
IndexOfNameZero(fd, name) == Min({i \in DOMAIN fd.table.names : fd.table.names[i] = name})

\* SIOFrameData::getAvailableCollections and getCollectionBuffers: the block
\* that is given for a name.
GetAvailableCollections(fd) ==
  {fd.table.names[i] : i \in {j \in DOMAIN fd.table.names : fd.availableBlocks[j + 1]}}
IndexOfName(fd, name) == Min({i \in DOMAIN fd.table.names : fd.table.names[i] = name}) + 1
GetCollectionBuffers(fd, name) == fd.data.blocks[IndexOfName(fd, name)]
-----------------------------------------------------------------------------
Init ==
  /\ blocks = [writer |-> {}, reader |-> {}]
  /\ writer = "none"
  /\ file = <<>>
  /\ toc = <<>>
  /\ collected = {}
  /\ written = <<>>
  /\ reader = "new"
  /\ tocRecord = <<>>
  /\ holder = {}
  /\ nameCtr = [c \in Categories |-> 0]
  /\ frameData = NoFrame

\* SIOWriter: the file is there before the libraries are looked for.
Header == Record("podio_header_info", NoModel)
Create(path) ==
  /\ writer = "none"
  /\ \/ /\ NoneFound(path)
        /\ writer' = "gone"
        /\ UNCHANGED <<blocks, file>>
     \/ /\ ~NoneFound(path)
        /\ writer' = "open"
        /\ blocks' = [blocks EXCEPT !.writer = LoadedBlocks(path)]
        /\ file' = <<Header>>
  /\ UNCHANGED <<toc, collected, written, readerVars>>

\* Another writer gives the file its name.
CreateOther ==
  /\ writer = "none"
  /\ writer' = "root"
  /\ file' = <<Record("root", NoModel)>>
  /\ UNCHANGED <<blocks, toc, collected, written, readerVars>>

\* DatamodelDefinitionCollector::registerDatamodelDefinition.
RegisterDatamodelDefinitions(names) == {Models[n] : n \in Range(names)} \ {NoModel}

\* SIOWriter::writeFrame for collections that the frame has and that have a block.
WriteFrame(c, f, names) ==
  /\ writer = "open"
  /\ Range(names) \subseteq SioFrames[f]
  /\ NoBlock \notin Range(CreateBlocks(blocks.writer, names))
  /\ Len(written) < MaxWritten
  /\ LET id == Len(written) + 1
     IN  /\ file' = file \o <<TableRecord(c, id, names), DataRecord(c, id, names)>>
         /\ written' = Append(written, [cat |-> c, id |-> id, names |-> names])
  /\ toc' = AddRecord(toc, c, Len(file))
  /\ collected' = collected \cup RegisterDatamodelDefinitions(names)
  /\ UNCHANGED <<blocks, writer, readerVars>>

\* DatamodelDefinitionCollector::getDatamodelDefinitionsToWrite, by the names.
DefinitionsRecord == Record("edm", collected)

\* SIOFileTOCRecordBlock.
TOCRecord(map) == Record("toc", map)

\* Faulty variant: the table of contents is written before it knows where the
\* definitions are.
LastRecordsEarly ==
  <<DefinitionsRecord, TOCRecord(toc), Record("marker", (Len(file) + 1) % PositionRange)>>

\* SIOWriter::finish, also run by the destructor: the definitions, the table of
\* contents with their position, and the marker with that of the table.
LastRecords ==
  <<DefinitionsRecord, TOCRecord(AddRecord(toc, EDMDefinitions, Len(file))),
    Record("marker", (Len(file) + 1) % PositionRange)>>

Finish ==
  /\ writer = "open"
  /\ writer' = "closed"
  /\ file' = file \o LastRecords
  /\ toc' = AddRecord(toc, EDMDefinitions, Len(file))
  /\ UNCHANGED <<blocks, collected, written, readerVars>>

\* The process ends early: of what was written, also in writeFrame or finish,
\* the file has a part from its start.  So ends a process that asks for a
\* collection that the frame does not have, for which getCollectionForWrite gives
\* a nullptr, or that has no block for one, when its table was written.
Crash ==
  /\ writer = "open"
  /\ writer' = "gone"
  /\ \E records \in {LastRecords} \cup
        {<<TableRecord(c, Len(written) + 1, names)>> : c \in Categories, names \in SioRequests} :
       \E k \in 0 .. Len(file \o records) - 1 : file' = SubSeq(file \o records, 1, k)
  /\ UNCHANGED <<blocks, toc, collected, written, readerVars>>

\* SIOReader::readFileTOCRecord: only a marker at the end leads to a table.
ReadFileTOCRecord ==
  IF Last(file).kind = "marker" THEN ReadRecord(Last(file).content) ELSE <<>>

\* SIOReader::readEDMDefinitions, at the position that the table gives.
ReadEDMDefinitions(map) ==
  LET p == GetPosition(map, EDMDefinitions, 0)
  IN  IF p = 0 THEN {} ELSE ReadRecord(p)

\* SIOReader and its openFile: the libraries come first, and a file without its
\* header record is refused.
Refused(path) == NoneFound(path) \/ ~IsPrefix(<<Header>>, file)

OpenFile(path) ==
  /\ writer # "open"
  /\ reader = "new"
  /\ ~Refused(path)
  /\ reader' = "open"
  /\ blocks' = [blocks EXCEPT !.reader = LoadedBlocks(path)]
  /\ tocRecord' = ReadFileTOCRecord
  /\ holder' = ReadEDMDefinitions(tocRecord')
  /\ UNCHANGED <<writer, file, toc, collected, written, nameCtr, frameData>>

\* SIOReader::readNextEntry and readEntry: the counter goes to the entry before
\* anything is checked and past it before the names are checked.  The frame that
\* is made of the data has it unpacked for the parameters, with all blocks.
Read(c, n, limitColls) ==
  /\ reader = "open"
  /\ LET p == GetPosition(tocRecord, c, n)
         fd == FrameData(ReadRecord(p), ReadRecord(p + 1), limitColls)
     IN  \/ /\ p = 0
            /\ nameCtr' = [nameCtr EXCEPT ![c] = n]
            /\ frameData' = Null
            /\ UNCHANGED reader
         \/ /\ p # 0
            /\ CanUnpack(fd)
            /\ nameCtr' = [nameCtr EXCEPT ![c] = n + 1]
            /\ frameData' = fd
            /\ UNCHANGED reader
         \/ /\ p # 0
            /\ ~CanUnpack(fd)
            /\ reader' = "gone"
            /\ UNCHANGED <<nameCtr, frameData>>
  /\ UNCHANGED <<writerVars, tocRecord, holder>>

Next ==
  \/ \E path \in SioPaths : Create(path) \/ OpenFile(path)
  \/ CreateOther
  \/ \E c \in Categories, f \in DOMAIN SioFrames, names \in SioRequests : WriteFrame(c, f, names)
  \/ Finish
  \/ Crash
  \/ \E c \in Categories, names \in SioRequests :
       \/ Read(c, nameCtr[c], names)
       \/ \E n \in EntryNumbers : Read(c, n, names)

Spec == Init /\ [][Next]_vars
-----------------------------------------------------------------------------
\* The entries of a category among the frames w, in their order.
EntriesOf(w, c) ==
  LET upTo[i \in 0 .. Len(w)] ==
        IF i = 0 THEN <<>>
        ELSE IF w[i].cat # c THEN upTo[i - 1]
        ELSE Append(upTo[i - 1], [at |-> <<w[i].id>>, colls |-> Range(w[i].names)])
  IN  upTo[Len(w)]

\* What a reader of the file has to find: all frames once the writer has
\* finished, and nothing of a file that it left early.
StoredEntries(c) == IF reader = "new" \/ writer # "closed" THEN <<>> ELSE EntriesOf(written, c)

\* The collections that a frame gives buffers for, by the name of their block.
Given(fd) ==
  [status |-> fd.status,
   sources |-> IF fd.status = "frame" THEN {<<fd.table.id>>, <<fd.data.id>>} ELSE {},
   colls |-> IF fd.status = "frame"
             THEN {GetCollectionBuffers(fd, n) : n \in GetAvailableCollections(fd)} ELSE {}]

Abstract == INSTANCE EntryReader WITH
  stored <- [c \in Categories |-> StoredEntries(c)], position <- nameCtr,
  result <- Given(frameData), Names <- DOMAIN Models,
  Requests <- {Range(r) : r \in SioRequests}, Numbers <- EntryNumbers

\* A reader gives the frames that the writer wrote, each with its own data, in
\* their order and with the collections asked for; of a writer that did not
\* finish there is nothing, and never a part of a frame (SIOWriter.cc:56,
\* SIOReader.cc:39).
SioReadsEntries == Abstract!Spec

\* The table of contents has an entry for each frame, and the definitions are
\* those of the models of all collections that were written (SIOWriter.cc:41).
SioFileDescribed ==
  reader = "open" /\ writer = "closed" =>
    /\ \A c \in Categories : GetNRecords(tocRecord, c) = Cardinality({i \in DOMAIN written : written[i].cat = c})
    /\ holder = (UNION {{Models[n] : n \in Range(written[i].names)} : i \in DOMAIN written}) \ {NoModel}
=============================================================================
