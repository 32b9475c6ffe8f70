------------------------------- MODULE ArrowTable -------------------------------
(***************************************************************************)
(* Frames as rows of an Arrow table: podio::convertFrameToTable makes a    *)
(* table with one row and a column for each collection, such tables are    *)
(* concatenated (which Arrow does, for tables with the same columns), and  *)
(* podio::convertTableToFrame gives a row back as a frame, by way of       *)
(* podio::ArrowFrameData.                                                  *)
(*                                                                         *)
(* The converter and the reader of a type, which are generated, are taken  *)
(* as inverse to each other.  No collection is called "frame_parameters":  *)
(* the table would have two columns of that name, and ArrowFrameData would *)
(* find neither.                                                           *)
(***************************************************************************)
EXTENDS Integers, SequencesExt

CONSTANTS
  Frames,      \* frame -> [collections: name -> [type, subset, id, version, value], parameters]
  Converters,  \* the types in the ArrowTypeRegistry and the ArrowConverterRegistry
  Selections,  \* the names of collections that are converted
  ParamTypes,  \* of parameters
  MaxRows      \* bound: rows of a table

VARIABLES
  table,       \* [columns, params]: chunks of rows; with no columns, there is no table
  rows,        \* the frames that were converted
  selection,   \* the names that were given
  frame        \* what the last convertTableToFrame gave of this table

arrowVars == <<table, rows, selection, frame>>

NoTable == [columns |-> <<>>, params |-> <<>>]
NoFrame == [status |-> "none", row |-> 0, collections |-> {}, broken |-> {}, parameters |-> {}]
Thrown(row) == [NoFrame EXCEPT !.status = "throw", !.row = row]

\* buildParamMap: the entries of one map, in some order.
BuildParamMap(map) == SetToSeq({[key |-> k, value |-> map[k]] : k \in DOMAIN map})

\* convertParameters: the four maps next to each other.
ConvertParameters(parameters) == [t \in ParamTypes |-> BuildParamMap(parameters[t])]

\* extractMap: each entry is set.
ExtractMap(entries) ==
  [k \in {entries[i].key : i \in DOMAIN entries} |->
     entries[CHOOSE i \in DOMAIN entries : entries[i].key = k].value]

\* The metadata of the field of a collection: "value_type", "is_subset",
\* "coll_id" and "schema_version".
Metadata(coll) == [type |-> coll.type, subset |-> coll.subset, id |-> coll.id, version |-> coll.version]

\* The arrow type of the column, which does not know of the ID or the version.
\* That of a subset collection does not know its type either.
ArrowType(column) == [name |-> column.name, type |-> IF column.meta.subset THEN {} ELSE {column.meta.type}]

\* convertFrameToTable throws for a collection that is not there, and for a type
\* without a converter; a subset collection needs none.
CanConvert(f, names) ==
  \A i \in DOMAIN names :
    /\ names[i] \in DOMAIN f.collections
    /\ f.collections[names[i]].subset \/ f.collections[names[i]].type \in Converters

Init ==
  /\ table = NoTable
  /\ rows = <<>>
  /\ selection = <<>>
  /\ frame = NoFrame

\* convertFrameToTable: one chunk with one row everywhere.
FrameToTable(f, names) ==
  [columns |-> [i \in DOMAIN names |->
                  LET coll == f.collections[names[i]] IN
                  [name |-> names[i], meta |-> Metadata(coll), chunks |-> << <<coll.value>> >>]],
   params  |-> << <<ConvertParameters(f.parameters)>> >>]

Convert(f, names) ==
  /\ table = NoTable
  /\ CanConvert(Frames[f], names)
  /\ table' = FrameToTable(Frames[f], names)
  /\ rows' = <<f>>
  /\ selection' = names
  /\ UNCHANGED frame

\* arrow::ConcatenateTables with another such table: the chunks are appended, and
\* the metadata are those of the first.
Concatenate(f) ==
  LET other == FrameToTable(Frames[f], selection) IN
  /\ table # NoTable
  /\ Len(rows) < MaxRows
  /\ CanConvert(Frames[f], selection)
  /\ \A i \in DOMAIN table.columns : ArrowType(other.columns[i]) = ArrowType(table.columns[i])
  /\ table' = [columns |-> [i \in DOMAIN table.columns |->
                              [table.columns[i] EXCEPT !.chunks = @ \o other.columns[i].chunks]],
               params  |-> table.params \o other.params]
  /\ rows' = Append(rows, f)
  /\ frame' = NoFrame
  /\ UNCHANGED selection

\* arrow::Table::CombineChunks.
Flat(chunks) == << FlattenSeq(chunks) >>
CombineChunks ==
  /\ table # NoTable
  /\ Len(table.params) > 1
  /\ table' = [columns |-> [i \in DOMAIN table.columns |-> [table.columns[i] EXCEPT !.chunks = Flat(@)]],
               params  |-> Flat(table.params)]
  /\ frame' = NoFrame
  /\ UNCHANGED <<rows, selection>>
-----------------------------------------------------------------------------
NumRows == Len(Flat(table.params)[1])

\* Faulty variant: the chunk is taken for a row.
AtChunk(chunks, row) == chunks[IF row < Len(chunks) THEN row + 1 ELSE Len(chunks)][1]

\* getChunkOrThrow and the place in the chunk: each chunk takes its rows off.
AtRow(chunks, row) ==
  LET end[c \in 0 .. Len(chunks)] == IF c = 0 THEN 0 ELSE end[c - 1] + Len(chunks[c])
      c == CHOOSE i \in DOMAIN chunks : end[i - 1] <= row /\ row < end[i]
  IN  chunks[c][row - end[c - 1] + 1]

\* The constructor of ArrowFrameData throws for a row that is not there and for
\* two collections with one ID.
Constructs(row) ==
  /\ 0 <= row /\ row < NumRows
  /\ \A i, j \in DOMAIN table.columns : i # j =>
       /\ table.columns[i].meta.id # table.columns[j].meta.id
       /\ table.columns[i].name # table.columns[j].name

\* ArrowFrameData::getCollectionBuffers, for a column of a type with a reader.
CollectionAt(column, row) ==
  [name |-> column.name, type |-> column.meta.type, subset |-> column.meta.subset, id |-> column.meta.id,
   version |-> column.meta.version, value |-> AtRow(column.chunks, row)]

\* ArrowFrameData::getParameters.
ParametersAt(row) == [t \in ParamTypes |-> ExtractMap(AtRow(table.params, row)[t])]

\* convertTableToFrame, and getting all of the collections and parameters; for a
\* type without a reader getCollectionBuffers throws.
TableToFrame(row) ==
  /\ table # NoTable
  /\ frame' =
       IF ~ Constructs(row) THEN Thrown(row)
       ELSE LET columns == Range(table.columns)
                readable == {c \in columns : c.meta.type \in Converters}
            IN  [status |-> "frame", row |-> row,
                 collections |-> {CollectionAt(c, row) : c \in readable},
                 broken |-> {c.name : c \in columns \ readable},
                 parameters |-> {ParametersAt(row)}]
  /\ UNCHANGED <<table, rows, selection>>

Next ==
  \/ \E f \in DOMAIN Frames : (\E names \in Selections : Convert(f, names)) \/ Concatenate(f)
  \/ CombineChunks
  \/ \E row \in -1 .. MaxRows : TableToFrame(row)

Spec == Init /\ [][Next]_arrowVars
-----------------------------------------------------------------------------
\* The collection of a frame as the table has it.
Converted(f, name) ==
  LET coll == Frames[f].collections[name] IN
  [name |-> name, type |-> coll.type, subset |-> coll.subset, id |-> coll.id,
   version |-> coll.version, value |-> coll.value]

\* Whatever rows are before it and however they are in chunks, a row gives the
\* frame that was converted: its collections with their IDs, and its parameters.
\* What cannot be had is a row that is not there, a table in which two names have
\* one ID or a name is twice, and a subset collection of a type that is not
\* registered.
RowIsFrame ==
  /\ frame.status = "frame" =>
       LET f == rows[frame.row + 1]
           coll(n) == Frames[f].collections[n]
       IN  /\ frame.collections = {Converted(f, n) : n \in Range(selection) \ frame.broken}
           /\ \A n \in frame.broken : coll(n).subset /\ coll(n).type \notin Converters
           /\ frame.parameters = {Frames[f].parameters}
  /\ frame.status = "throw" =>
       \/ frame.row \notin 0 .. Len(rows) - 1
       \/ ~ IsInjective(selection)
       \/ \E f \in Range(rows), m, n \in Range(selection) :
            m # n /\ Frames[f].collections[m].id = Frames[f].collections[n].id
=============================================================================
