# podio in TLA+

podio reads, holds and writes event data. A *collection* is a vector of objects
of a generated type. A *frame* holds the collections of one event under their
names. Readers make frames from files and writers write them. The development in
this directory states what the parts of podio promise to each other, checks it
with TLC on small instances, and proves what matters most with TLAPS.

The first part is the inventory of the system. Then come the plan, the modules
that exist, and what is checked and proved about them.

## 1. The system

### 1.1 Components

| Component | State | Operations | Uses |
|---|---|---|---|
| `Frame` (`include/podio/Frame.h`) | raw data (`m_data`), map of collections (`m_collections`), ID table, IDs already retrieved, parameters, two mutexes | `get`, `put`, `getAvailableCollections`, `getName`, `putParameter`, `getCollectionForWrite`, `getCollectionIDTableForWrite` | frame data, ID table, collections, parameters |
| `CollectionIDTable` | two parallel vectors and a mutex | `add`, `name`, `collectionID`, `present`, `ids`, `names` | MurmurHash3 |
| Frame data (`ROOTFrameData`, `SIOFrameData`, `ArrowFrameData`) | buffers per collection name | `getCollectionBuffers`, `getIDTable`, `getParameters`, `getAvailableCollections` | buffer factory, readers |
| Collections and objects (`python/templates/*.jinja2`) | storage entries, buffers, flags `m_isPrepared`, `m_isValid`, `m_isReadFromFile`, `m_isSubsetColl`, collection ID | `create`, `push_back`, `clear`, `prepareForWrite`, `prepareAfterRead`, `setReferences` | `ICollectionProvider` (the frame), `MaybeSharedPtr` |
| `MaybeSharedPtr` | control block: count, ownership flag | copy, assign, destroy, `release` | – |
| `GenericParameters` | four maps, a mutex each | `set`, `get`, `getKeys`, `loadFrom` | – |
| `ROOTWriter`, `RNTupleWriter`, `rootUtils.h` | per category: tree or RNTuple writer, list, branches, collection info | `writeFrame`, `checkConsistency`, `finish` | `Frame::getCollectionForWrite` |
| `ROOTReader`, `RNTupleReader` | per category: chain or list of readers, cursor, collection info | `openFiles`, `readEntry`, `readNextEntry`, `getEntries` | buffer factory |
| SIO files, `sioUtils.h`, `SIOBlock` | stream, table of contents, counter per category; a registry of blocks filled from libraries | `writeFrame`, `finish`, `openFile`, `readEntry`, `readNextEntry`, `createBlock` | sio, `dlopen` |
| `Reader`, `Writer` | the reader or writer that was made for a file | `makeReader`, `makeWriter`, `readFrame`, `writeFrame`, `getSizeStats` | all readers and writers |
| Schema evolution, buffer factory, datamodel registry | registries filled while shared libraries are loaded | `registerEvolutionFunc`, `registerSchemaEvolution`, `evolveBuffers`, `createBuffers`, `registerDatamodel` | – |
| Links | a collection with two relations, links that are shared with handles; a navigator with two multimaps | life of a collection, `setFrom`, `setTo`, `getLinkedTo`, `getLinkedFrom` | collections, `MaybeSharedPtr` |
| Arrow conversion | two registries by type; frame data over one row of a table | `convertFrameToTable`, `convertTableToFrame` | Arrow |
| `DataSource` (RDataFrame) | a reader and a frame per slot, the ranges | `SetupInput`, `SetNSlots`, `SetEntry`, `GetEntryRanges` | readers |
| Legacy readers | cursors | `openFiles`, `readEntry`, `readNextEntry` | – |
| `podio-dump-tool`, Python bindings, Python tools | arguments, the entries that are left | one pass over a file | `Reader` |
| Code generator, schema comparison (Python) | none at run time | YAML to C++ | – |

How they interact: a reader gives a frame its raw data. A `get` takes buffers
out of the raw data, makes a collection, stores it in the map and lets it
resolve its relations. For this the collection calls the frame back (`get` with
a collection ID), which may unpack further collections. A writer gets all
collections of its list from the frame, prepares them and fills them into the
file. The only state that threads share on purpose is the frame, with its ID
table and parameters. Readers, writers and mutable collections belong to one
thread at a time. The registries are filled before `main`.

### 1.2 What is hard, and what makes each component correct

* **Frame.** Between taking the buffers (under `m_dataMtx`) and storing the
  collection (under `m_mapMtx`) neither mutex is held. Relations are resolved
  after the collection is visible, recursively, and may be cyclic. The set of
  retrieved IDs has no mutex. *Correct if* buffers are used once and not lost,
  stored collections stay, all threads get the same object, every relation is
  resolved once and to the right collection, and every call comes back.
* **ID table.** Lookups search one vector and index the other; the two are
  copied one after the other. *Correct if* the vectors stay parallel and ID and
  name are inverse to each other unless two names share a hash.
* **Collections.** A preparation that fails or is repeated, elements added after
  a preparation. *Correct if* what is written is what is in the collection, once.
* **MaybeSharedPtr.** Ownership passes to a collection while handles are alive.
  *Correct if* an object is deleted once, by its last owner.
* **Writers.** A refused frame between accepted ones, requests in another order
  or another case. *Correct if* every entry has its own frame's collections
  under their names, and the metadata describes the layout.
* **Readers.** Entries out of range, several files, files of every age, a chain
  whose branches are gone when the next tree is loaded. *Correct if* entry *i* is
  entry *i* of the files in their order, and whole.
* **SIO files.** A writer that dies before `finish`, a type without a block, 32 bit
  positions. *Correct if* a finished file gives what was written, and an
  unfinished one gives nothing.
* **Registries.** Registration by libraries in any order. *Correct if* the result
  does not depend on it.
* **Data source.** Ranges over slots, columns that point into frames that are
  replaced. *Correct if* every event is seen once, in its own frame.
* **Links.** Links that are changed after a preparation, subset collections,
  collections that are missing when references are resolved. *Correct if* what is
  read is what was prepared first, or a relation that is empty.
* **Buffers.** Raw pointers with five owners. *Correct if* each is deleted once.
* **Parameters.** A copy, a list and a write of four maps while others are set.
  *Correct if* a copy is of one moment and no key is lost.
* **Arrow.** Rows in chunks. *Correct if* a row gives the frame it was made of.
* **The dump tool.** Numbers as text, ranges that go down. *Correct if* exit code 0
  means that what was asked for was printed.

`PROJECT.json` lists every hazard with the line where it bites.

## 2. Plan

The modules were written in this order; the last rows are what is left.

| | Module | Composes | Contents | Section |
|---|---|---|---|---|
| done | `CollectionIDTable` | – | the table's lookups and `add` as operators | 3.1 |
| done | `FrameStore`, `Frame` | `CollectionIDTable` | get, put, relations, threads; the abstract frame | 3.1 |
| done | `RootWriter` | – | both ROOT writers | 3.2 |
| done | `Registries` | – | buffer factory, schema evolution, datamodel registry | 3.3 |
| done | `EntryReader` | – | what every reader promises | 3.3 |
| done | `RootReader` | `Registries`, `EntryReader` | both ROOT readers | 3.3 |
| done | `SioFile` | `EntryReader` | SIO writer, file and reader, libraries of blocks | 3.3 |
| done | `LegacyReaders` | `EntryReader` | the readers for files from before frames | 3.3 |
| done | `DataSource` | – | the RDataFrame source with its slots | 3.3 |
| done | `Readers` | the five above | `Reader` and `Writer`: one process and its files | 3.3 |
| done | `DumpTool` | `Readers` | `podio-dump-tool` | 3.3 |
| done | `SharedHandles` | – | `MaybeSharedPtr` with several threads | 3.4 |
| done | `LinkCollection` | – | the life of a link collection, the navigator | 3.4 |
| done | `Buffers` | – | the owners of read buffers, user data | 3.4 |
| done | `Parameters` | – | `GenericParameters` with several threads and in files | 3.4 |
| done | `ArrowTable` | – | frames as rows | 3.4 |
| done | `Memory` | the five above | what a process keeps in memory, one part at a time | 3.4 |
| done | `CollectionIDTable_proofs`, `RootWriter_proofs` | | table, writers | 5 |
| done | `Frame_proofs` | | the frame: threads, relations, recursion, one thread | 5 |
| done | `Recursion_proofs` | | recursive functions, used by `Memory_proofs`, `Readers_proofs` and `Sio_proofs` | 5 |
| done | `SharedHandles_proofs`, `Memory_proofs` | | handles, buffers, parameters, links, Arrow rows | 5 |
| done | `Readers_proofs` | | entries, the ROOT readers as an `EntryReader`, the event loop, registries | 5 |
| done | `Sio_proofs` | | sio files, their reader and the legacy readers as an `EntryReader`, frames by number, the dump tool | 5 |
| left | types of collections in `RootWriter` | | the consistency check compares names only | |
| left | a second `openFiles`, a second event loop | | | |

## 3. The modules

### 3.1 Frame

`CollectionIDTable` has the table as a record of two sequences. `CollectionID`
and `NameOf` are the two linear searches with the bounds that the code uses, `AddName`
is `add`. `Hash` is a constant: any function from names to numbers, collisions
included.

`Frame` models one frame and any number of threads. Each thread has a stack of
calls, because `doGet` calls itself through `setReferences` and `get(id)`. A
step is one critical section or one access to state without a mutex; work on
data that only the thread can see is part of the step that publishes it.

| Action | Code (`Frame.h` unless said) |
|---|---|
| `Get` | `Frame::get(name)`, the start of a call |
| `FindHit`, `FindMiss` | first critical section of `doGet` |
| `Unpack`, `UnpackNothing`, `UnpackThrows` | `getCollectionBuffers` under `m_dataMtx`; `UnpackThrows` is the exception of `ArrowFrameData` for a type without a reader |
| `EmplaceForRefs`, `EmplaceOnly` | `emplace` under `m_mapMtx`, with and without `setReferences` |
| `RefUnknown`, `RefKnown`, `RefsDone` | the loop of `setReferences` (`collections.jinja2`, `CollectionData.cc.jinja2`) and the name lookup of `get(id)` |
| `SearchID`, `InsertID` | `m_retrievedIDs.insert(id)`: looking for the place and linking the node, then the inner `doGet` |
| `Put`, `PutAdd`, `PutExists` | `put`: `try_emplace`, then the table and the ID, `m_mapMtx` held throughout; the exception for a name that is stored |

`Listed` is `availableCollections`. `FrameStore` is the abstract specification:
each name is absent, raw, loading, unpacked or put; the raw data is turned into a
collection at most once and nothing that is stored is replaced. `StateOf` maps a
frame to it, and `ImplementsStore` says every step of the frame is a step of the
store or none.

Abstractions:

* Relations are one sequence of IDs per collection, in the order `setReferences`
  goes through them; each is resolved to a collection, the object index in it is
  data. Collections that a user puts have no IDs left to resolve.
* A racing insertion into `m_retrievedIDs` is modelled by its outcomes (both
  threads believe they inserted the ID). That it may also corrupt the tree is
  not modelled.
* Schema evolution happens on data only the thread sees.
* The parameters are module `Parameters`; `getCollectionForWrite` is a `get` and
  the preparation in module `LinkCollection`; `getIDTable` as a copy is not
  modelled.

### 3.2 RootWriter

`ROOTWriter` and `RNTupleWriter` follow the same steps and differ in what tells
them that a category is initialised. `format` chooses between the two. One call
of `writeFrame` is one step, because a writer is used by one thread at a time
(the multi-threaded tests hold a mutex around it). Its exits are the actions:

| Action | Exit of `writeFrame` |
|---|---|
| `NotAvailable` | a collection of the list is not in the frame, or cannot be prepared: it throws. The tree is there by then, the RNTuple writer is not |
| `DuplicateField` | an RNTuple model refuses a second field of the same name |
| `FirstFrame` | `initBranches` or `createModels`, collection info, first entry |
| `InconsistentFrame` | the consistency check throws |
| `NextFrame` | the next entry |
| `Finish` | `finish` or the destructor: metadata for all categories of `m_categories` |

`stage` is what the code asks of its pointers: "new" is a null pointer, "listed"
a tree without branches (never an RNTuple), "filled" a category with branches.
`Lower` gives names a rank without regard to case, so that the sort (unstable:
any order of names that are alike) and the binary search are modelled by what
they compare. `CheckConsistency` is the query of the same name.

An entry records, besides its data, the frame and the request it was written
for; the code does not keep them, the properties compare with them. `writeFrame`
after `finish` dereferences pointers that are gone, in both writers; not calling
it is a precondition. A collection has a name here and no type.

### 3.3 Files: `Registries`, the readers, `Readers` and `DumpTool`

**`Registries`** has the registries as functions that `LoadLibrary` fills, one
library in one step: `RegisterCreationFunc` (a vector per type, indexed by the
version), `RegisterEvolutionFunc` (the priority has no effect, as in the code),
`RegisterDatamodel`. `CreateBuffers` and `EvolveBuffers` are what readers ask. A type
that was renamed since an older datamodel has generated code under its former name,
too: its creation function makes buffers of that name (`BuffersOf`), until the one
for the last version that had the name replaces it and asks the factory for version
1 of the new type (`FirstOf`). `Classes` are the types that ROOT has a class for.

**`EntryReader`** is the abstract specification of every reader: per category a
sequence of entries that does not change, a position, and the result of the last
call. A frame has the collections of one of the requests that a reader is given. A
call past the end gives nothing or throws and may leave the position anywhere.

**`RootReader`** models `ROOTReader` and `RNTupleReader`. One call is one step,
because a reader is used by one thread. What can go wrong inside is in the state:
`tree` is the tree that the chain has loaded, and every branch that the
reader keeps is a pair of a tree and a name; loading another tree makes the
pointers into the old one `Stale`, unless the code looks them up again. The four
versions of files (1: up to 0.16.3, without schema versions; 2: up to 0.16.98,
branches named by an index; 3: up to 0.99.98, one branch for the parameters; 4:
now) differ in the names of branches and in where the parameters are. For
RNTuples the accumulated entries and the search in them are as in the code.
A call may end the process (`crashed`): a category of a file of version 1 or 2 is
opened with a collection of each class, and a class that no library has is a null
pointer (`InitCrashes`); `setCollectionAddressesReader` goes by the relations of
the buffers, and so past the end of the branches where the registry knew fewer
relation names (`PastBranches`). These are names of a type that was renamed, or
of a library that came after one of the same datamodel. What is past the end of a
vector is undefined; there is no element of it at all where this happens, so the
model has the process end.

**`SioFile`** models `SIOWriter`, the file as a sequence of records, and
`SIOReader` with `SIOFrameData`. `Crash` leaves a prefix of what was being
written. `LoadedBlocks` is what `SIOBlockLibraryLoader` finds in a path of
directories; the process ends (`reader = "gone"`) when a block is missing.

**`LegacyReaders`** models `ROOTLegacyReader` and `SIOLegacyReader`, and
**`DataSource`** the source with slots that work at the same time; the event loop
of ROOT is external: it asks for ranges until there are none.

**`Readers`** is one process: it loads libraries, writes a file through `Writer`
(`MakeWriter`, `WriteFrame`, `WriteEvent`), makes one `Reader` (`MakeReader` with
all its refusals) and calls it, or uses a legacy reader or a data source. Its
variables are those of the modules, by `EXTENDS` for `RootReader` and `INSTANCE`
for the others. **`DumpTool`** is a client of it: `ParseArgs`, `OpenReader`,
`DumpEDMDefinition`, `ListEntries`, `PrintFrame` and `EndLoop` are the parts of
`main`; `tool` says how it ended ("ok" and "failed" are the exit codes 0 and 1,
"aborted" an exception that nobody catches, or a null pointer). `getSizeStats`
looks at every branch of the stored collections, and those of relations that are
not in the file are null (`StatsCrash`, `CrashInStats`). A `size_t` has the range
`SizeRange`, so that ranges that go down wrap as in the code, and an `unsigned` the
range `EntryRange`: `Narrowed` is what `Reader::readFrame` gives to the reader of an
index. `outcome` says of the last frame whether the index was below `getEntries`,
and whether an unsigned could hold it (`wrapped`).

| Module | Actions and the code |
|---|---|
| `Registries` | `LoadLibrary`: the static initialisers of one library |
| `RootReader` | `OpenFiles`, `ReadNextEntry`, `ReadEntry` (`ROOTReader.cc`, `RNTupleReader.cc`) |
| `SioFile` | `Create`, `WriteFrame`, `Finish` (`SIOWriter.cc`), `Crash`, `OpenFile`, `Read` (`SIOReader.cc`, `SIOFrameData.cc`) |
| `LegacyReaders` | `OpenFiles`, `ReadNextEntry`, `ReadEntry` |
| `DataSource` | `SetupInput`, `SetNSlots`, `GetColumnReaders`, `GetEntryRanges`, `InitSlot`, `SetEntry` (`DataSource.cc`) |
| `Readers` | `MakeWriter`, `WriteFrame`, `WriteEvent` (`Writer.cc`, `Writer.h`), `MakeReader`, `Read`, `ReadNextFrame` (`Reader.cc`, `Reader.h`) |

### 3.4 Memory: handles, links, buffers, parameters, Arrow

**`SharedHandles`**: each handle is a variable of one thread. Making, copying,
moving, assigning and dropping a handle are actions; a destructor takes three
(`Decrement`, `DeleteObject`, `DeleteBlock`) and `push_back` two (`StartPush`
copies the handle, `Push` releases the object to the collection), so that threads
meet in between. `ClearCollection` deletes what the collection has taken over.

**`LinkCollection`**: two collections of one link type are built (`Create`,
`MakeLink`, `Clone`, `PushBack`, `SetLink`, `SetSubsetCollection`, `Clear`), put
into a frame, prepared, written (`Write`), and read by another process (`Load`,
`SetReferences`), which may lack collections, and may write them again
(`Rewrite`). `BuildNavigator` makes the two multimaps. `asPrepared` remembers the
links at the first preparation; only properties look at it. Generated
collections work the same way; they have vector members and more relations.

**`Buffers`**: read buffers move from `createBuffers` through moves, moves onto
others and exceptions to a collection. Every vector is a number; `frees` counts
how often it was deleted. A user data collection has a member with the address of its
vector, which is copied when the collection is moved and set again when its buffers
are asked for (`VecPtr`). Writing takes steps: `Bind` gets the buffers of one
collection of a frame and keeps the address of the member, as a TTree does, or the
vector it leads to, as an RNTuple and a block do; other collections are bound,
moved, changed and destroyed, and buffers asked for by somebody else (`AskBuffers`);
`Fill` reads through what was bound. What is bound is in the frame and is not
changed.

**`Parameters`**: `Set`, the copy constructor under all mutexes (`StartCopy`,
`CopyMap`, `EndCopy`), `getKeys` with the size that is read too early, and
writing and reading: type by type to a TTree or an RNTuple (`StartFill`,
`FillParams`, `ReadEntry`), or in one block of an SIO file (`ReadBlock`, old
versions included). A device of the sio library is a sequence.

**`ArrowTable`**: `Convert` makes a row of a frame, `Concatenate` adds a row as
a chunk, `CombineChunks` joins the chunks, `TableToFrame` reads a row. The
converters and readers of the types are generated and taken as inverse to each
other.

`Memory` puts the five side by side: the variable `focus` says which of them a
behaviour is about, and the others do nothing, as they share no state. `MCMemory`
gives the constants their values.

## 4. What is checked

| Run | Instance | Shows |
|---|---|---|
| `frame_threads` | two threads, names a, b, c in the raw data in a cycle of relations, p put by users, b put by users too; ROOT-like and Arrow-like data, c unreadable by Arrow; 243 000 states | `TypeOK`, `BuffersInOnePlace`, `ResultsAreStored`, `RelationsInOrder`, `StoredByID`, `RecursionBounded`, `MapEntriesFinal`, `ImplementsStore`, and under fairness `CallsReturn` |
| `frame_one_thread` | one thread, four raw collections with relations to themselves, to each other, to a name that was not read and to an ID no table has | `GetFindsAvailable`, `ListsEveryCollection`, `RelationsComplete`: all three fail with two threads |
| `writer_all` | two categories, two entries each, names of which two differ in case only, seven requests (empty, permuted, duplicate, other case), two frames of which one lacks collections, both formats; 50 000 states | `TypeOK`, `EntriesFaithful`, `FileDescribed`, `WrittenAsRequested`, `CheckPredictsWrite`, `LayoutFinal` |
| `readers_all` | three libraries in any order, one with a type that was renamed; files of four versions in chains of one to three, TTrees and RNTuples, with a type that no library knows and one that is newer than the library; every SIO file of two frames and each of its prefixes, three paths of block libraries; old files; a source with up to six slots; twelve command lines; 94 000 states | what an entry gives (`ReadsEntries`, `SioReadsEntries`, `LegacyReadsEntries`: each reader implements `EntryReader`), how many there are (`EntriesCounted`, `BelowEntriesIsFrame`), registries (`ReadableEvolves`, `DefinitionMatchesVersion`), files (`SioFileDescribed`), the source (`EachEventOnce`, `ColumnsFollowFrame`) |
| `memory` | three handles of two objects; two link collections with two links; two buffers, two places and three vectors; two threads with two types, two keys and two settings of parameters; three rows of two frames; 1 145 000 states | handles (`BlockInUse`, `ManagedObjectAlive`, and under fairness `AllReclaimed`), links (`TrackedByPosition`, `ReadAsPrepared`, `RewrittenUnchanged`, `NavigatorComplete`), `BuffersOwnedOnce`, `WrittenIsCurrent`, parameters (`CopyIsSnapshot`, `KeysComplete`), `RowIsFrame` |
| `frame_lost`, `frame_unlisted`, `frame_mutable`, `frame_shadow`, `writer_first`, `root_stale`, `registry_user` | two threads on a ROOT-like frame, with puts for `frame_shadow` only; one TTree category; a chain of two trees; two libraries | a counterexample each, see section 6 |

Why the bounds are enough. Two threads are the fewest that race for a
collection, for an ID and for the gap between the mutexes. Three raw collections
give a cycle in which one thread waits deep in the recursion while another one
enters the cycle elsewhere. A relation to a known name without raw data, one to an
ID that becomes known only through a put, and one that never does are all there.
For the writer, the second entry is the first one that is checked, and a refused
frame can come before the first, between the two and for the other category.

For the readers, a chain of three files with an entry in the middle one is the
first where a search by accumulated entries can be off on both sides, and the
same file twice in a chain is there; a category that is in some of the files
only is there, too. Two written frames are the fewest with a first and a last
one, of one category or of two. `PositionRange` is larger than any file of the
model: the property is about files below 4 GiB. Five events in six slots give
more slots than events, and in two slots a remainder. `SizeRange` is 64 instead
of 2^64 and `MaxSize` 8: what counts is that a range that goes down is longer
than a vector can be. `EntryRange` is 7 instead of 2^32, more than the entries of
any chain; 7 itself is asked for, which is entry 0.

Three handles are one in a destructor, one that is copied and one that is
pushed; a second object shows that handles change objects. A second link shows
the order, and that a subset collection can refer to a link that is not the
first. Two settings show a change before and one after a map was copied.

What holds beyond these bounds is the business of the proofs.

Fairness. `FairSpec` assumes weak fairness of each thread's `Step`, the steps
inside a call: the operating system runs every thread that can run. No fairness
is assumed of the start of calls. A thread that waits for `m_mapMtx` is not
enabled while a put holds it, and the put always goes on, so weak fairness is
enough.

`AllReclaimed` assumes weak fairness of `Push` and `Destruct` of each handle: a
thread in the middle of a `push_back` or of a destructor goes on. It does not
assume that handles are dropped; it says that what no handle and no collection
refers to any more is deleted, object and control block.

Deadlock is checked for the frame. A writer stops after `finish`, a reader at the
end of what it is asked, and objects, links, rows and settings are made up to
their bounds, so the other runs say `CHECK_DEADLOCK FALSE`.

Every property of a passing run has a mutant in `PROJECT.json`: a change of one
definition, as a plausible bug would make it, under which TLC finds the property
violated. The mutated forms are the definitions commented "Faulty variant"; no
specification uses them.

## 5. What is proved

All proofs hold for any sets of threads, names, relations, frames, requests,
collections, links, buffers, handles, files, libraries, events and slots. The assumptions are the types of the
constants (`HashAssumption`, `NoNameAssumption`, `ConstantsAssumption`,
`WriterAssumption`, `HandlesAssumption`, `FilesType`, `SourceAssumption`,
`RegistriesAssumption`, `ArgumentsAssumption`) and these facts, which TLC evaluates in
the runs:

* The table stored with the raw data is well formed and names every raw
  collection, and the raw data has finitely many (`ConstantsAssumption`): a file
  written by podio guarantees it.
* No thread has the name of "nobody" (`ThreadsAssumption`), an artefact of the model.
* Objects that links lead to have IDs of their own, no ID is the invalid one, and
  no provider has a collection with the ID of objects that are in none
  (`LinksAssumption`): `setID` gives a collection the hash of its name, and
  positions are from 0.
* The types of parameters are among the four that `GenericParameters` can have, and
  what a file has of a type is keys and values in turn (`ParametersAssumption`).
* Frames that are rows of one table agree on the type, the ID and the schema version
  of a collection name, as frames of one category do; their parameters are finite
  maps, and the collections that are selected are a sequence (`FramesAssumption`).
* Files that are opened together are of one version of podio and have the same
  collections in a category they share; those of a TChain have the same categories,
  and entries in each; RNTuples exist since version 3 (`FilesAssumption`). A reader
  may be asked for all collections, and the relations of every stored type were known
  to those who wrote it (`RequestsAssumption`). Indices are natural numbers
  (`NumbersAssumption`), and files that are opened together have fewer entries than an
  `unsigned` can count (`EntryRangeAssumption`); only `readFrame` is given more.
* A type was renamed to one of the same library that was not renamed again, in an
  earlier schema version, and no library has a type of the former name
  (`RegistriesAssumption`): the generator compares each old datamodel with the new one.
* Libraries that register the same type give it the same schema version
  (`TypesAssumption`): a process has one class of that name, and the version is
  a constant of the class. What `makeReader` is given is among the lists of files
  that a behaviour may open (`ListsAssumption`).
* A frame of an sio file has finitely many collections, of types in the datamodels,
  and no category has the name of the record of the definitions (`SioAssumption`);
  a request names a collection once, and may ask for all.
* Old files have some content; the first record of an old sio file is not an event, as
  it has the IDs of the collections (`LegacyAssumption`).

**`CollectionIDTable_proofs`**: lookups invert each other, and `add` leaves
what is there alone and keeps the table well formed (`NameOfCollectionID`,
`AddNameStable`).

**`Frame_proofs`**: `TypeCorrect`. `TypeOK` is not inductive: that the type of
`relations` survives depends on the calls in progress. The inductive invariant
is `IInv == TypeOK /\ CallsOK /\ DataOK`. `CallsOK` says what a call on a stack
relies on: it emplaces only raw names; while it resolves relations its
collection is stored and there is a next relation; exactly the calls below the
innermost wait. `DataOK` says that raw collections are stored under raw names
only and that the table is well formed and knows them. One lemma per action.

From `IInv` follow

* `EntriesFinal` (`MapEntriesFinal`), `ReturnedIsStored` (`ResultsAreStored`);
* `BuffersConserved` (`BuffersInOnePlace`): every step is one of four kinds for
  a name (quiet, take, store, put), and each kind keeps the property;
* `FrameImplementsStore` (`ImplementsStore`): the same four kinds are the
  actions of `FrameStore` or stutters;
* `FoundByID` (`StoredByID`), with the lemmas about the table.

The rest of `Frame_proofs` is about relations, in two parts. The first holds for any
threads:

* `RelationsResolvedInOrder` (`RelationsInOrder`). The inductive invariant `RelInv`
  adds to the property that at most one call of all threads resolves the relations
  of a collection (`OneResolver`), that a waiting call waits for the call about its
  target (`Linked`), and that a call has resolved as many relations as there are
  (`InProgress`). A second resolver could only come from a second unpacking, which
  `BuffersInOnePlace` excludes.
* `RecursionIsBounded` (`RecursionBounded`). The calls of a thread that have missed
  the map are about different collections (`CallsDistinct`): those that wait have
  stored theirs, and a call that goes on has not found its own. They are
  therefore injected into the raw names.

The second assumes `OneThread`, that the frame is used by one thread. The runs
`frame_lost` and `frame_unlisted` show that its theorems fail with two threads.
`OneThreadFindsAll` (`GetFindsAvailable`) and `OneThreadListsAll`
(`ListsEveryCollection`) say that nothing is lost between the raw data and the map.
`OneThreadResolvesAll` (`RelationsComplete`) says that the shortcut of
`m_retrievedIDs`, which makes recursion over cycles end, loses no relation. Its
invariant `OneInv` says why: an ID in `m_retrievedIDs` stands for a collection
that is in the map, or that the innermost call is about to unpack and resolve
(`Retrieved`); a call that is told not to resolve relations finds its collection in
the map (`NeedsRefs`); no two names of the raw data share an ID (`FileNames`); and
what has been resolved so far was found (`AllResolved`). `Resolvable` are the
collections from which no relations lead to one that throws; the
property is about these.

**`RootWriter_proofs`**: the inductive invariant adds to the properties that a
category with branches has its list as branches and as collection info, that one
without branches has no entries, and that the metadata is that of the closing.
Writes that throw change at most the list of a category without branches
(`RefusedKeepsIInv`); writes that succeed append one entry for the list
(`AcceptedKeepsIInv`). Theorems: `WriterTypeCorrect`, `EntriesAreFaithful`,
`EntriesAsRequested` (as many distinct keys on both sides and one set in the
other, so they are equal), `FileIsDescribed`, `LayoutIsFinal`, and
`QueryPredictsWrite` (`CheckPredictsWrite`): when neither list has a name more
often than the other, the places of each name in the one are in bijection with
its places in the other; put together these show that the lists are equally long
(`NotLonger`).

**`SharedHandles_proofs`**: `IInv == Types /\ InCall /\ NotMade /\ BlockLife /\
ObjectLife`. What makes it inductive is that `count` is the number of references
(`BlockLife`): handles, and destructors and `push_back`s that have not yet taken
theirs off. Only the one that takes off the last reference cleans up, and
the block goes last. Theorems: `TypeCorrect`, `BlockOutlivesHandles`
(`BlockInUse`), `ObjectsStayAlive` (`ManagedObjectAlive`).

**`Memory_proofs`** has three parts. Buffers and the copy of parameters:
`VectorsOwnedOnce` (`BuffersOwnedOnce`) from `BInv`: a vector
that was not deleted has one owner, one that was has none, and buffers with a
vector have the functions to delete it. `WritesCurrent` (`WrittenIsCurrent`): from
getting the buffers on, a collection that is written stays where it is, and the
member leads to its own vector, so that the address that the writer keeps is good
when the tree is filled (`Bound`); whatever happens to the collections around it
leaves both alone (`OthersW`).
`CopiesAreSnapshots` (`CopyIsSnapshot`) from `CopyInv`: a thread that copies has
all the locks, and what it has copied is still what is there.

The second part is about links and the keys of parameters. `LinkInv` follows a link collection from its making to
its second writing. While it is built, a link that has an ID is at that position of
the one collection that has the ID (`Tracked`, `Apart`, `Placed`), and buffers are
what was prepared; what is read has, in each place, the ends of the file or
nothing (`Read`). Theorems: `LinksInvariant`, `LinksTracked`
(`TrackedByPosition`), `LinksReadAsPrepared` (`ReadAsPrepared`), `LinksRewritten`
(`RewrittenUnchanged`).

`NavigatorsComplete` (`NavigatorComplete`): what a navigator says of an object is
what the links say. The constructor adds to two multimaps link by link; by
induction over the links, `NavigatorInv` has an element of each map for each link,
in their order (`ElementsAre`), and `getLinkedTo` and `getLinkedFrom` count these.
An object that has an object equal to it in another link is the case in which an
insertion that overwrites would lose a link.

`KeysAreComplete` (`KeysComplete`): keys are never removed, so a list of keys that
was begun with fewer keys than there are later has all that were there when it
began. What a writer puts on a file, type by type, is a map as it was at a moment
since it began: it has the keys that there were then, and is the present map if
nothing was set since (`WrittenOf`); so what is read has these keys too (`KeysInv`).
That the device of an sio file gives back what was put on it needs
induction over the elements of a map and over the types of a block (`MapOnDevice`,
`BlockAgain`), and what `LoadFrom` makes of keys and values in turn one over the
keys (`LoadFromIs`).

The third part is about Arrow tables. `RowsAreFrames` (`RowIsFrame`): `ArrowInv` says
that each column has the values of the frames that were converted, in their order,
however they are divided into chunks (`Holds`, kept by `ChunkAdded` when a row is
added and by `FlatIs` when chunks are joined); that the metadata of a column, which
is that of the first row only, is right for all rows; and that the parameters are in
a column of their own. `AtRowIs` shows that the search for the chunk of a row, which
subtracts the lengths of the chunks before it, arrives at that row. No frame is given
only of a row that is not there, and where a name was selected twice or two names have
one ID.

**`Readers_proofs`**: the specification is `DumpSpec`, a process with its registries,
one writer, one reader or data source, and the dump tool. Each theorem looks at
the steps that change its variables (`SessionStep`, `RootSteps`, `SourceStep`,
`RegistryStep`).

* `AllEntriesCounted` (`EntriesCounted`): by induction over the files, the entries
  that can be read are as many as the files of the category have together
  (`StoredLength`), and so is the last accumulated total, although it runs over
  those files only that have the category (`AccumulatedTotal`). `SessionInv` keeps
  the total of an RNTuple for every category.
* `RootReadersImplement` (`ReadsEntries`): every step of a behaviour in which no
  branch of a deleted tree is read is a step of `EntryReader`, or leaves it alone.
  The condition is needed: it is what the run `root_stale` shows the code to
  violate for a chain and a selection of collections. Three parts come together.
  (1) Where an entry is: `StoredIs` has the offset of each file in the flattened
  list of entries, `TreeAt` shows that `LoadTree` arrives there, and `TupleAt`
  that the upper bound in the accumulated entries does, although it runs over the
  files with the category only (`ReaderFilesOf`, `HavingPrefix`, `AccumulatedAre`).
  (2) What is read there: `ReadInv` says that the pointers of a category are those
  of the tree that is loaded or dangle (`LookedUp`), and that they are null for the
  same collections in all trees; so a frame has the collections that can be made,
  are complete in the file, and were asked for (`TreeFrameIs`, `TupleFrameIs`).
  (3) Which entry is asked for: the tool goes beyond the numbers of its command
  line, but only from one entry to the next (`ToolInv`, `Listed`), which is what
  `readNextEntry` of the abstract reader does.
* `WholeChainsReadFresh` (`NoStaleBranchRead`) and with it `WholeChainsImplement`
  (`ReadsEntries`, without a condition on the behaviour): where every chain of
  several TTrees is read in whole, or asked for something no file has, the
  condition is met. `FreshInv`: the pointers of all collections that can be made
  are those of the tree that is loaded. The lists of `readers_all` are of this
  kind (`WholeChains`), those of `root_stale` are not. RNTuples and single files
  may be read with any selection.
* `SeenOnce` (`EachEventOnce`). `SourceInv` says where an event is: seen, or in a
  range that is available, in one that was handed out, or in what a slot has still
  to do; and no two ranges of these three kinds overlap (`RangesApart`,
  `SeenOrTodo`). `RangesCover` is about the division with its remainder.
* `ColumnsUpToDate` (`ColumnsFollowFrame`), from `SlotsFilled`: a column has the
  entry of the slot's frame from the first `SetEntry` on.
* `DefinitionsHaveTheirVersions` (`DefinitionMatchesVersion`). `DefinitionsInv`: names
  are registered once, together with the version of the same library.
* `MadeCanEvolve` (`ReadableEvolves`). `EvolutionInv`: an index has the version of the
  class and as many functions, and for a type that can be made none of these is
  empty, as a function of a user replaces functions and removes none.

**`Recursion_proofs`**: the recursive functions of the model (`Sum`, `ReaderFiles`, the
files one after another, the elements of a navigator, a map on a device, the chunks
of a column) are followed with the lemmas `Induction` and `Recursion`, which state
induction and definition by recursion over the natural numbers for sets and
functions, and are themselves proved from the well-foundedness of `<`. The module
also has what the others share: partial sums and the number whose part of a sum
contains a position (`PartialSums`, `Located`), sequences that are flattened
(`Flattened`), and the sequence of the elements of a set (`SetInSeq`).

**`Sio_proofs`** continues with `DumpSpec`.

* `FilesDescribed` (`SioFileDescribed`). `SioInv` has three parts. `WriterInv`: the
  table of contents has each name once, with as many positions as frames of the
  category were written, and the classes collected are those of these frames.
  `FileInv`: while the writer is open there are two records for a frame, after the
  header, and no marker; a file that is finished ends in the definitions, the table
  and a marker with the position of the definitions (`Finished`). `ReaderInv`: an
  open reader has that table and these definitions, or none. The theorem assumes
  `FileFits`: positions are 32 bits, and the file is shorter. Beyond, a position is
  cut off and the reader seeks elsewhere.
* `FramesAndDumps` (`BelowEntriesIsFrame`): the reader of either kind gives no frame
  beyond `getEntries` and one below, unless collections were asked for that are not
  there (`RootGives`, `SioGives`); and `podio-dump-tool` prints the entries that
  were asked for, all or up to the first that there is not. An index that no unsigned
  can hold is another entry (section 6), and all that is said of it is that the
  frame is marked so; `RoundOnce` and the lemmas behind it are about the narrowing of
  the others. Where the tool ends otherwise, a reason is named: a category with a
  class or a relation that the libraries lack (`Described`), statistics of a file
  without one of the relations or with old subset collections, a block that is
  missing, a range too long (`Excused`). `DumpInv`: while the
  loop runs, what was printed and what is to be read are together what was asked
  for (`Dumping`), and size statistics have the stored names (`StatsInv`). The
  theorem assumes `FileFits` and `NumbersFit`: the numbers on the command line are
  below the largest `size_t` by the length a vector can have. The largest itself
  stands for "all entries" (`podio-dump-tool.cpp:75`), and a range that ends there
  has a length of 0.

* `SioReaderImplements` (`SioReadsEntries`): the reader of an sio file refines
  `EntryReader`. That the table of contents counts right is not enough for it;
  `RecordsInv` says that each position it has of a category leads to a table and the
  data of one frame behind it, with a block for each name, and that these are the
  entries of the category in the order of `writeFrame` (`Leads`, `RecordsAt`,
  `IsFrame`). It is kept while records are added, because none is moved, and is
  what the reader relies on when it has taken over the table. Of a writer that ended
  early the reader has no table (`ReaderInv`), so it gives nothing. `CallsInv` is
  about the numbers that are asked for, `FrameGives` about what is selected of an
  entry. A process that ends for want of a block is a stutter of the abstract
  reader. The theorem assumes `FileFits`.
* `LegacyReadersImplement` (`LegacyReadsEntries`): both readers of files from before
  frames refine `EntryReader`. For a chain, `ChainInv` has the pointers at the tree
  that is loaded, and in it the entry that was read last; so an entry that is not
  the first of its tree is in the same tree as the one before (`LocatedOnce`,
  `ChainLoads`), and it is enough that the code looks its branches up at first
  entries. For an sio file, the abstract position is the number of event records
  that the stream has passed: the next event found is the one behind those
  (`NextEvent`), and one that the table of contents points to has as many before
  it (`EventsPlaced`). The theorem assumes `JumpsServed`, which the sessions of the
  run keep to: jumps lead to the first entries of trees or into a single tree, and
  to the events of an sio file only if there is a table. Other jumps go wrong in
  the code (section 7), or give nothing.

Every safety invariant and action property that a passing run checks is stated by a
theorem. Only model-checked are `CallsReturn` and `AllReclaimed`: liveness under
fairness, which TLAPS does not prove, like everything with ENABLED. The induction
theorems of the library take an operator as a parameter, so that only induction over
sets of numbers, as in `Recursion_proofs`, is at hand.

## 6. Where code and documentation disagree

1. `frame_lost`: two threads get the same collection. The one that comes second
   to the buffers, before the first has stored the collection, is told that it
   is not available.
2. `frame_unlisted`: in the same gap the collection is in neither of the lists
   that `getAvailableCollections` joins. A writer that asks for all collections
   then writes a frame without it.
3. `frame_mutable`: a collection that a thread was given is still being changed
   by the thread that resolves its relations.
4. `frame_shadow`: `put` refuses a name only if it is in the map, so it hides a
   collection of the raw data that the frame lists as available.
5. `writer_first`: `ROOTWriter` keeps the list of a first frame that it refused.
   The next frame is written with this list and is not checked. If the list has
   a name that no frame has, the category can never be written. `RNTupleWriter`
   chooses the list anew, as documented.
6. `root_stale`: a chain is read with a selection of collections when its tree
   changes, and then without. The branches of the collections that were left out
   belong to a tree that was deleted, and are read.
7. `registry_user`: the function of a user for the evolution from a version is
   replaced by the automatic one when the library with that one is loaded later.
   `Priority` is an argument that is not used.

Disagreements that were met while modelling, for which there is no run:

* `ROOTReader::getSizeStats` uses every branch of a collection without a test,
  although those of relations that the file does not have are null
  (`ROOTReader.cc:460-467`; `rootUtils.h:219` has the test). Where a library has a
  relation more than the file, `podio-dump-tool --size-stats` ends, instead of showing
  "size statistics per collection". The model has it (`StatsCrash`).
* `Reader.h:115`, `:128`, `:142` and `:156` document a `std::invalid_argument` for an
  entry or a category that is not there; what `readNextFrame` and `readFrame` throw is a
  `std::runtime_error` (`Reader.h:54`, `:62`). The model has it (`FrameOrThrow`).
* `readFrame` takes a `size_t` and the readers an `unsigned` (`Reader.h:57`): an index of
  2^32 or more gives another entry, where an exception is documented. The model has it
  (`Narrowed`), and `BelowEntriesIsFrame` says nothing of such an index.
* `makeWriter` with type "root" or "rntuple" and a name that ends with ".sio"
  writes a ROOT file; `Writer.h` says that the type is ignored for such names.
  The model has it (`CreateOther`).
* `makeReader` looks for RNTuple keys in the first file only.
* `PODIO_SIOBLOCK_PATH` is refused when its first directory has no library,
  although another one may have some (`NoneFound`).
* A type without an SIO block gives a null pointer that the sio library uses: the
  process ends, when writing after the table of the frame is in the file.
* `podio-dump`: a range that goes down by one prints nothing, with exit code 0;
  one that goes down further ends in an exception, as do the exceptions of
  `makeReader` and `getSizeStats`, which are outside of the `try`; `--size-stats`
  cuts seven characters off the name of a subset collection, also in files of
  version 2 and before, where no suffix of that length is. All of them are
  in the model. The single entry 2^64-1 means all entries; it is not.
* `DataSource::SetupInput` reads frame 0 before it tests for no events.

## 7. Known limits

Relations that stay unresolved for good are possible with two threads: one finds
the ID of a collection in `m_retrievedIDs`, unpacks it without its relations,
and the thread that inserted the ID finds it in the map. `RelationsComplete` is
therefore stated for one thread. The undefined behaviour of the races on
`m_retrievedIDs` and on the vectors of a collection goes beyond what is
modelled.

Preconditions of the models, each a case in which the code goes wrong or that is
left out:

* *Readers.* A reader opens its files once: `RNTupleReader` appends to the
  accumulated entries, `ROOTReader` keeps categories by views of strings that are
  replaced, `SIOReader` appends to its table. No library is loaded between the
  first and a later entry of a category. A library that ROOT finds and loads
  by itself, when it looks for a class, counts as loaded from the start. Types have a schema version of at least
  1 (version 0 is index -1 in `CollectionBufferFactory.cc:19`). Entry numbers are
  any `size_t`, but files that are opened together have fewer than 2^32 entries
  (`EntryRangeAssumption`). No datamodel renames a type twice (`RegistriesAssumption`).
  The legacy reader for TTrees has no check for the end, and reads
  stale branches when it jumps into the middle of another tree; that for SIO
  files is not used after its stream met the end.
* *Data source.* One event loop (`Initialize` is empty, and the ranges are not made
  again), and one `SetNSlots`.
* *Links.* `setSubsetCollection(false)` after `true` leaves no data buffer; one
  collection is not moved onto another, which leaks its links. A link to an
  object in no collection is written and read back empty, and a link of a
  subset collection may be beyond what was written of its owner: `ReadAsPrepared`
  allows both.
* *Parameters.* `print`, `buildParamMap` and the block of an SIO file read the maps
  without the mutexes, so that nothing may be set meanwhile. What a ROOT writer
  stores type by type is not a snapshot, unlike a copy.
* *Arrow.* No collection is called "frame_parameters". A subset collection of a
  type without a converter can be written and not read; concatenated tables have
  the metadata of the first.
* *Collections.* What only generated ones have is not modelled: vector members,
  one-to-many relations, and a `prepareForWrite` that throws half way.

## 8. Not modelled

* The bytes of files, compression, and ROOT, sio and Arrow themselves, of which
  only what podio relies on is modelled, as external actions and constants.
* What a collection contains beyond an identity, JSON, printing.
* The code generator, the schema comparison and the Python bindings: text
  transformations and thin wrappers without state of their own.
* The hash (`Hash` is any function) and `glob`.
