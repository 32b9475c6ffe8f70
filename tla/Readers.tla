-------------------------------- MODULE Readers --------------------------------
(***************************************************************************)
(* The reader that an application has: podio::makeReader looks at the      *)
(* names of the files and into the first one, opens them with the          *)
(* ROOTReader, the RNTupleReader or the SIOReader, and podio::Reader makes *)
(* an exception of what those give for no entry.  Files from before frames *)
(* need a legacy reader that the application makes itself.                 *)
(*                                                                         *)
(* A podio::DataSource makes its readers in this way, too.                 *)
(*                                                                         *)
(* The libraries are loaded, and an sio file is written, before a reader   *)
(* is made.                                                                *)
(***************************************************************************)
EXTENDS RootReader

CONSTANTS
  Lists,      \* [files, requests]: file names given to makeReader, collections read of them
  Suffix,     \* file name -> "root", "sio" or another extension
  RNTuples,   \* the files with an RNTuple among their keys
  Numbers,    \* indices given to readFrame
  SioFrames, Models, NoModel, SioRequests, PositionRange, MaxWritten,
  SioPaths, UserData, Others, LegacySessions,
  Event,        \* podio::Category::Event
  SourceLists,  \* the lists that a data source is made of
  Columns, EventsInFiles, Limits, AllEvents, SlotNumbers

\* An index is a size_t.
ASSUME NumbersAssumption == Numbers \subseteq Nat

\* The table of contents counts positions, and has the record of the definitions
\* beside the categories; a request names a collection once, or none for all; a
\* frame has finitely many collections of known types.
ASSUME SioAssumption ==
  /\ PositionRange \in Nat \ {0}
  /\ <<>> \in SioRequests
  /\ \A r \in SioRequests : r \in Seq(Range(r)) /\ \A i, j \in DOMAIN r : r[i] = r[j] => i = j
  /\ \A f \in DOMAIN SioFrames : IsFiniteSet(SioFrames[f]) /\ SioFrames[f] \subseteq DOMAIN Models
  /\ MaxWritten \in 0 .. EntryRange - 1
  /\ "podio_SIO_EDMDefinitions" \notin Categories

\* DataSource counts in size_t, and -1 stands for all events; ROOT has a slot at
\* least.  The files need no class to be opened.
ASSUME SourceAssumption ==
  /\ Event \in Categories
  /\ \A l \in SourceLists : l.files # <<>> /\ Files[l.files[1]].version > 2
  /\ Limits \ {AllEvents} \subseteq Nat
  /\ SlotNumbers \subseteq Nat \ {0}

\* Old files have been opened, and the collection IDs are the first record of an sio file.
ASSUME LegacyAssumption ==
  \A s \in LegacySessions :
    /\ s.numbers \subseteq Nat
    /\ s.content # <<>>
    /\ \/ s.format = "ttree" /\ s.content \in Seq(Nat)
       \/ s.format = "sio" /\ s.content \in Seq(Range(s.content)) /\ s.content[1] # "event_record"

VARIABLES
  kind,    \* of the reader: "none", "root", "sio", "legacy", "source", or "refused"
  outcome, \* of the last readFrame: with whether it was asked for an entry below getEntries,
           \* for one that no unsigned can hold, and for some collections only
  blocks, writer, file, toc, collected, written, reader, tocRecord, holder, nameCtr, frameData,
  legacy, chainTree, pointers, eventNumber, streamPos, streamEnd, given,
  phase, nEvents, nSlots, rangesAll, rangesAvailable, activeCollections, frames, collections,
  work, slotWork, seen

Sio == INSTANCE SioFile WITH EntryNumbers <- 0 .. EntryRange - 1
Legacy == INSTANCE LegacyReaders

rootVars == <<regVars, readVars>>
sioVars == <<blocks, writer, file, toc, collected, written, reader, tocRecord, holder, nameCtr, frameData>>
legacyVars == <<legacy, chainTree, pointers, eventNumber, streamPos, streamEnd, given>>
facadeVars == <<kind, outcome>>

NoOutcome == [status |-> "none", below |-> FALSE, wrapped |-> FALSE, limited |-> FALSE]

\* Reader::getEntries.
Entries(c) ==
  IF kind \in {"root", "source"} THEN GetEntries(c)
  ELSE IF kind = "sio" THEN Sio!GetNRecords(tocRecord, c) ELSE 0

\* What a data source finds in its files is what a reader of them counts.
Source == INSTANCE DataSource WITH inFiles <- Entries(Event)
sourceVars == <<phase, nEvents, nSlots, rangesAll, rangesAvailable, activeCollections, frames,
                collections, work, slotWork, seen>>
-----------------------------------------------------------------------------
MCInit ==
  /\ Init
  /\ Sio!Init
  /\ Legacy!Init
  /\ kind = "none"
  /\ Source!Init
  /\ outcome = NoOutcome

LoadLibraries ==
  /\ kind = "none"
  /\ writer = "none"
  /\ LoadLibrary
  /\ UNCHANGED <<readVars, sioVars, legacyVars, sourceVars, facadeVars>>

\* makeWriter by the type, the end of the name and PODIO_DEFAULT_WRITE_RNTUPLE.
WriterFor(type, suffix, rntuples) ==
  IF type = "root" \/ (type = "default" /\ suffix = "root" /\ ~rntuples) THEN "ttree"
  ELSE IF type = "rntuple" \/ (type = "default" /\ suffix = "root" /\ rntuples) THEN "rntuple"
  ELSE IF suffix = "sio" THEN "sio" ELSE "refused"

MakeWriter(type) ==
  \E rntuples \in BOOLEAN :
    IF WriterFor(type, "sio", rntuples) = "sio" THEN \E path \in SioPaths : Sio!Create(path)
    ELSE Sio!CreateOther

\* Writer::writeFrame, with names or for all collections, and writeEvent.
WriteFrame(c, f) ==
  \E names \in SioRequests \cup {SetToSeq(SioFrames[f])} : Sio!WriteFrame(c, f, names)
WriteEvent(f) == WriteFrame(Event, f)

\* A file with the name of an sio file is written.
WriteSio ==
  /\ kind = "none"
  /\ loaded = {}
  /\ \/ \E type \in {"default", "root", "rntuple", "sio"} : MakeWriter(type)
     \/ \E f \in DOMAIN SioFrames : WriteEvent(f) \/ \E c \in Categories : WriteFrame(c, f)
     \/ Sio!Finish
     \/ Sio!Crash
  /\ UNCHANGED <<rootVars, legacyVars, sourceVars, facadeVars>>

\* makeReader: no files, different extensions, several sio files and an
\* extension that is not known are refused.
CommonSuffix(l) ==
  IF \E s \in {"root", "sio"} : l.files # <<>> /\ \A i \in DOMAIN l.files : Suffix[l.files[i]] = s
  THEN Suffix[l.files[1]] ELSE "refused"
RootFormat(l) == IF l.files[1] \in RNTuples THEN "rntuple" ELSE "ttree"
RootSession(l) == [format |-> RootFormat(l), files |-> l.files, requests |-> l.requests]

\* The ROOT files that are given to makeReader are those that are read together.
ASSUME ListsAssumption == \A l \in Lists : CommonSuffix(l) = "root" => RootSession(l) \in Sessions

MakeReader(l) ==
  /\ kind = "none"
  /\ \/ /\ CommonSuffix(l) = "root"
        /\ writer = "none"
        /\ OpenFiles(RootSession(l))
        /\ kind' = "root"
        /\ UNCHANGED <<regVars, sioVars>>
     \/ /\ CommonSuffix(l) = "sio"
        /\ Len(l.files) = 1
        /\ \E path \in SioPaths : Sio!OpenFile(path)
        /\ kind' = "sio"
        /\ UNCHANGED rootVars
     \/ /\ \/ CommonSuffix(l) = "refused"
           \/ CommonSuffix(l) = "sio" /\ Len(l.files) > 1
           \/ CommonSuffix(l) = "sio" /\ writer # "open" /\ \E path \in SioPaths : Sio!Refused(path)
        /\ kind' = "refused"
        /\ UNCHANGED <<rootVars, sioVars>>
  /\ UNCHANGED <<legacyVars, sourceVars, outcome>>

\* Reader::readFrame and readNextFrame: a runtime_error for a null pointer; an
\* invalid_argument of the reader for collections that are not there goes through.
FrameOrThrow(c, index, request, status) ==
  [status |-> CASE status = "frame" -> "frame"
                [] status = "null" -> "runtime_error"
                [] OTHER -> "invalid_argument",
   below |-> index < Entries(c), wrapped |-> index >= EntryRange, limited |-> request # {}]

\* The index that was asked for, and the number that the reader is given.
ReadRoot(c, index, n, request) ==
  /\ kind = "root"
  /\ ReadEntry(c, n, request)
  /\ outcome' = IF crashed' THEN outcome ELSE FrameOrThrow(c, index, request, result'.status)
  /\ UNCHANGED <<kind, regVars, sioVars, legacyVars, sourceVars>>

ReadSio(c, index, n, names) ==
  /\ kind = "sio"
  /\ Sio!Read(c, n, names)
  /\ outcome' = IF reader' = "gone" THEN outcome
                ELSE FrameOrThrow(c, index, Range(names), frameData'.status)
  /\ UNCHANGED <<kind, rootVars, legacyVars, sourceVars>>

\* For some collections, or for all of them.
Read(c, index, n) ==
  \/ \E request \in session.requests : ReadRoot(c, index, n, request)
  \/ \E names \in SioRequests : ReadSio(c, index, n, names)
ReadAll(c, index, n) == ReadRoot(c, index, n, {}) \/ ReadSio(c, index, n, <<>>)

\* The index is a size_t, and the readers take an unsigned.
Narrowed(index) == index % EntryRange

ReadFrame(c) == \E index \in Numbers : Read(c, index, Narrowed(index))
ReadNextFrame(c) == LET at == IF kind = "root" THEN cursor[c] ELSE nameCtr[c] IN Read(c, at, at)

\* A legacy reader that the application makes and uses.
ReadLegacy ==
  /\ kind \in {"none", "legacy"}
  /\ loaded = {} /\ writer = "none"
  /\ kind' = "legacy"
  /\ Legacy!Next
  /\ UNCHANGED <<rootVars, sioVars, sourceVars, outcome>>

\* A data source made of the files.  Its columns are a constant here, so that it
\* does not matter which libraries there are, and an entry below getEntries is an
\* unsigned.
RunSource ==
  /\ \/ kind = "source"
     \/ /\ kind = "root"
        /\ outcome = NoOutcome /\ ~crashed
        /\ loaded = {}
        /\ \E l \in SourceLists : session.files = l.files
  /\ kind' = "source"
  /\ UNCHANGED <<rootVars, sioVars, legacyVars, outcome>>
  /\ Source!Next

ReadersNext ==
  \/ LoadLibraries
  \/ WriteSio
  \/ \E l \in Lists : MakeReader(l)
  \/ \E c \in Categories : ReadFrame(c) \/ ReadNextFrame(c)
  \/ ReadLegacy
  \/ RunSource

ReadersSpec == MCInit /\ [][ReadersNext]_<<rootVars, sioVars, legacyVars, sourceVars, facadeVars>>
-----------------------------------------------------------------------------
\* Whatever the format of the files is, readFrame gives a frame for every index
\* below getEntries and throws a runtime_error for the others, as far as an
\* unsigned goes; the tools and the RDataFrame source count on it (Reader.h:57).
\* An invalid_argument is thrown only when some collections are asked for.
FramesBelowEntries ==
  /\ outcome.status = "frame" => outcome.below \/ outcome.wrapped
  /\ outcome.status = "runtime_error" => ~outcome.below
  /\ outcome.status = "invalid_argument" => outcome.limited /\ (outcome.below \/ outcome.wrapped)

SioReadsEntries == Sio!SioReadsEntries
SioFileDescribed == Sio!SioFileDescribed
LegacyReadsEntries == Legacy!LegacyReadsEntries
EachEventOnce == Source!EachEventOnce
ColumnsFollowFrame == Source!ColumnsFollowFrame
=============================================================================
