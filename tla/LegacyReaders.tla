----------------------------- MODULE LegacyReaders -----------------------------
(***************************************************************************)
(* podio::ROOTLegacyReader and podio::SIOLegacyReader, for files from      *)
(* before frames: one category, "events".  The former reads a chain and    *)
(* looks its branches up again at the first entry of a tree; the latter    *)
(* goes from event record to event record, and needs the table of contents *)
(* only to jump.                                                           *)
(*                                                                         *)
(* Files of the former have the branch CollectionTypeInfo, and their types *)
(* are known.  It has no check for the end, which the caller has to know.  *)
(* What the stream of the latter does once it met its end is not modelled. *)
(***************************************************************************)
EXTENDS Naturals, SequencesExt

CONSTANTS
  Others,         \* categories other than "events"
  LegacySessions  \* [format, files or records, hasToc, numbers]: what is open, entries jumped to

VARIABLES
  legacy,       \* the session, chosen when the files are opened
  chainTree,    \* the tree that m_chain has loaded
  pointers,     \* the tree that all of m_collectionBranches point into
  eventNumber,  \* ROOTLegacyReader::m_eventNumber
  streamPos,    \* SIOLegacyReader::m_stream: the number of the next record
  streamEnd,    \* go_to_record found no more event records
  given         \* the result of the last call

vars == <<legacy, chainTree, pointers, eventNumber, streamPos, streamEnd, given>>

NotOpen == [format |-> "none", content |-> <<>>, hasToc |-> FALSE, numbers |-> {}]
NoResult == [status |-> "none", sources |-> {}, colls |-> {}]
Null == [NoResult EXCEPT !.status = "null"]
FrameFrom(places) == [status |-> "frame", sources |-> places, colls |-> {}]
Deleted == 100

\* The content of a chain is the entries of its files, that of an sio file the
\* kinds of its records.
EntriesUpTo(trees) ==
  LET entries[t \in 0 .. Len(trees)] == IF t = 0 THEN 0 ELSE entries[t - 1] + trees[t] IN entries
Offset(t) == EntriesUpTo(legacy.content)[t - 1]
LoadTree(n) == CHOOSE t \in DOMAIN legacy.content : Offset(t) <= n /\ n < Offset(t + 1)

\* The events among the first records, by how many these are.
EventsUpTo(records) ==
  LET upTo[k \in 0 .. Len(records)] ==
        IF k = 0 THEN <<>>
        ELSE IF records[k] = "event_record" THEN Append(upTo[k - 1], k) ELSE upTo[k - 1]
  IN  upTo
EventsIn(records) == EventsUpTo(records)[Len(records)]
EventRecords == EventsIn(legacy.content)

\* SIOLegacyReader::readFileTOCRecord and SIOFileTOCRecord::getPosition, here the
\* number of the record, 0 for none.
GetPosition(n) == IF legacy.hasToc /\ n < Len(EventRecords) THEN EventRecords[n + 1] ELSE 0

\* getEntries of both readers; an sio file without a table has none.
GetEntries(c) ==
  IF c # "events" THEN 0
  ELSE IF legacy.format = "ttree" THEN Offset(Len(legacy.content) + 1)
  ELSE IF legacy.hasToc THEN Len(EventRecords) ELSE 0
-----------------------------------------------------------------------------
Init ==
  /\ legacy = NotOpen
  /\ chainTree = 0
  /\ pointers = 0
  /\ eventNumber = 0
  /\ streamPos = 1
  /\ streamEnd = FALSE
  /\ given = NoResult

\* openFiles of both: createCollectionBranches looks at the first tree, and
\* readCollectionIDTable reads the first record.
OpenFiles(s) ==
  /\ legacy = NotOpen
  /\ legacy' = s
  /\ chainTree' = IF s.format = "ttree" THEN 1 ELSE 0
  /\ pointers' = chainTree'
  /\ streamPos' = IF s.format = "sio" THEN 2 ELSE 1
  /\ UNCHANGED <<eventNumber, streamEnd, given>>

\* Faulty variant: the pointers are kept at the first entry of a tree.
RefreshedNever(n) == IF LoadTree(n) # chainTree THEN Deleted ELSE pointers

\* ROOTLegacyReader::getCollectionBuffers: the pointers after the tree of entry
\* n was loaded.
Refreshed(n) ==
  IF n = Offset(LoadTree(n)) THEN LoadTree(n)
  ELSE IF LoadTree(n) # chainTree THEN Deleted
  ELSE pointers

\* ROOTLegacyReader::readEntry; readEventMetaData asks for its branch each time.
ReadChain(c, n) ==
  /\ legacy.format = "ttree"
  /\ \/ /\ c # "events"
        /\ given' = Null
        /\ UNCHANGED <<chainTree, pointers, eventNumber>>
     \/ /\ c = "events"
        /\ n < GetEntries(c)
        /\ chainTree' = LoadTree(n)
        /\ pointers' = Refreshed(n)
        /\ eventNumber' = n + 1
        /\ given' = FrameFrom({<<t, n - Offset(LoadTree(n))>> : t \in {pointers', LoadTree(n)}})
  /\ UNCHANGED <<legacy, streamPos, streamEnd>>

\* SIOLegacyReader::readNextEntry from where the stream is: records that are not
\* events are skipped.
EventsFrom(from) == {i \in DOMAIN legacy.content : i >= from /\ legacy.content[i] = "event_record"}

ReadStream(c, from) ==
  /\ legacy.format = "sio"
  /\ \/ /\ c # "events"
        /\ given' = Null
        /\ UNCHANGED <<streamPos, streamEnd>>
     \/ /\ c = "events"
        /\ EventsFrom(from) = {}
        /\ given' = Null
        /\ streamEnd' = TRUE
        /\ streamPos' = Len(legacy.content) + 1
     \/ /\ c = "events"
        /\ EventsFrom(from) # {}
        /\ given' = FrameFrom({<<Min(EventsFrom(from))>>})
        /\ streamPos' = Min(EventsFrom(from)) + 1
        /\ UNCHANGED streamEnd
  /\ UNCHANGED <<legacy, chainTree, pointers, eventNumber>>

ReadNextEntry(c) == ReadChain(c, eventNumber) \/ ReadStream(c, streamPos)

\* readEntry of both; a jump that the table does not know leaves the stream.
ReadEntry(c, n) ==
  \/ ReadChain(c, n)
  \/ /\ ~streamEnd
     /\ \/ /\ c = "events"
           /\ GetPosition(n) # 0
           /\ ReadStream(c, GetPosition(n))
        \/ /\ legacy.format = "sio"
           /\ c # "events" \/ GetPosition(n) = 0
           /\ given' = Null
           /\ UNCHANGED <<legacy, chainTree, pointers, eventNumber, streamPos, streamEnd>>

Next ==
  \/ \E s \in LegacySessions : OpenFiles(s)
  \/ \E c \in {"events"} \cup Others :
       \/ ReadNextEntry(c)
       \/ \E n \in legacy.numbers : ReadEntry(c, n)

Spec == Init /\ [][Next]_vars
-----------------------------------------------------------------------------
StoredEntries(c) ==
  IF c # "events" THEN <<>>
  ELSE IF legacy.format = "ttree"
  THEN FlattenSeq([t \in DOMAIN legacy.content |->
                     [l \in 1 .. legacy.content[t] |-> [at |-> <<t, l - 1>>, colls |-> {}]]])
  ELSE [i \in DOMAIN EventRecords |-> [at |-> <<EventRecords[i]>>, colls |-> {}]]

\* Where readNextEntry goes on: behind the events that the stream has passed.
Position(c) ==
  IF c # "events" THEN 0
  ELSE IF legacy.format = "ttree" THEN eventNumber
  ELSE Len(EventsUpTo(legacy.content)[streamPos - 1])

Abstract == INSTANCE EntryReader WITH
  Categories <- {"events"} \cup Others, Names <- {}, Requests <- {{}},
  Numbers <- UNION {s.numbers : s \in LegacySessions},
  stored <- [c \in {"events"} \cup Others |-> StoredEntries(c)],
  position <- [c \in {"events"} \cup Others |-> Position(c)],
  result <- given

\* The old readers give the events of their files one after the other, also
\* across files and between other records, and an entry comes whole
\* (ROOTLegacyReader.cc:49, SIOLegacyReader.cc:26).
LegacyReadsEntries == Abstract!Spec
=============================================================================
