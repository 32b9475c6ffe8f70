------------------------------ MODULE RootReader ------------------------------
(***************************************************************************)
(* podio::ROOTReader (TTrees, a TChain per category) and                   *)
(* podio::RNTupleReader (RNTuples, a list of readers per category) on a    *)
(* number of files that are opened once and together.  A chain has one     *)
(* tree at a time: loading another one deletes it, and the branches that   *)
(* the reader keeps for the category point into the deleted tree until     *)
(* they are looked up again.  A reader is used by one thread               *)
(* (doc/frame.md), so one call is one step.                                *)
(*                                                                         *)
(* TChain and RNTuple are external: LoadTree gives the tree of an entry,   *)
(* and a tree that is loaded again is a new one.                           *)
(***************************************************************************)
EXTENDS Registries, FiniteSets

CONSTANTS
  Categories,
  Files,     \* file -> [version, entries, info]: the entries and the stored collections per category
  Sessions,  \* [format, files, requests]: files opened together, collsToRead asked for
  EntryRange,   \* 2^32: an entry number is an unsigned
  Data, ObjIdx  \* the names of the branches that are not those of a relation

\* Files read together were written with the same settings (ROOTReader.cc:288);
\* a category that a TTree file has has an entry, as writeFrame makes both.
ASSUME FilesAssumption ==
  \A s \in Sessions : \A i, j \in DOMAIN s.files :
    LET f == Files[s.files[i]]
        g == Files[s.files[j]]
    IN  /\ f.version = g.version
        /\ \A c \in DOMAIN f.info \cap DOMAIN g.info : f.info[c] = g.info[c]
        /\ s.format = "ttree" => /\ DOMAIN f.info = DOMAIN g.info
                                 /\ \A c \in DOMAIN f.info : f.entries[c] > 0
        /\ s.format = "rntuple" => f.version \in {3, 4}

\* Files are counted from 1; a category of a file has a number of entries and a
\* list of collections.
ASSUME FilesType ==
  /\ \A s \in Sessions : s.files # <<>> /\ s.files \in Seq(DOMAIN Files)
  /\ \A f \in DOMAIN Files : Files[f].version \in Nat
  /\ \A f \in DOMAIN Files : \A c \in DOMAIN Files[f].info :
       LET colls == Files[f].info[c] IN
       /\ Files[f].entries[c] \in Nat
       /\ colls \in Seq(Range(colls))
       /\ \A x \in Range(colls) : x = [name |-> x.name, type |-> x.type, schema |-> x.schema,
                                      subset |-> x.subset, parts |-> x.parts]

\* By default all collections are read, and the types of the collections have
\* relations that are known to those who wrote them.
ASSUME RequestsAssumption ==
  /\ \A s \in Sessions : {} \in s.requests
  /\ \A f \in DOMAIN Files : \A c \in DOMAIN Files[f].info :
       {x.type : x \in Range(Files[f].info[c])} \subseteq DOMAIN Relations

Sum(s) ==
  LET sum[k \in 0 .. Len(s)] == IF k = 0 THEN 0 ELSE sum[k - 1] + s[k]
  IN  sum[Len(s)]

\* TChain and RNTuple count further than an unsigned does; files that are opened
\* together have fewer entries than that.
EntriesIn(s, c) ==
  Sum([t \in DOMAIN s.files |->
         IF c \in DOMAIN Files[s.files[t]].info THEN Files[s.files[t]].entries[c] ELSE 0])
ASSUME EntryRangeAssumption ==
  /\ EntryRange \in Nat \ {0}
  /\ \A s \in Sessions, c \in Categories : EntriesIn(s, c) < EntryRange

VARIABLES
  session,       \* the files that are open
  stored,        \* per category CategoryInfo::storedClasses, m_collectionInfo
  tree,          \* per category the number of the tree that its chain has loaded, 0 for none
  branches,      \* CategoryInfo::branches: the tree of each pointer, 0 for a null pointer
  cursor,        \* CategoryInfo::entry, m_entries
  readerEntries, \* RNTupleReader::m_readerEntries
  totalEntries,  \* RNTupleReader::m_totalEntries
  readers,       \* RNTupleReader::m_readers: the number of the file of each
  result,        \* of the last call
  crashed        \* whether the process ended in a call

catVars == <<stored, tree, branches>>
tupleVars == <<readerEntries, totalEntries, readers>>
readVars == <<session, catVars, tupleVars, cursor, result, crashed>>

Closed == [format |-> "none", files |-> <<>>, requests |-> {}]
NoResult == [status |-> "none", sources |-> {}, colls |-> {}]
Null == [NoResult EXCEPT !.status = "null"]
Thrown == [NoResult EXCEPT !.status = "throw"]

\* A branch of a tree that was deleted; what is read through it is no entry.
Stale == -1

\* The versions of podio that changed what is in a file: 1 is up to 0.16.3
\* without schema versions, 2 up to 0.16.98 with branches named by an index, 3
\* up to 0.99.98 with one branch for the parameters, 4 after that.
SchemaVersion(v, x) == IF v = 1 THEN 1 ELSE x.schema
ParamBranches(v) == IF v <= 3 THEN <<"PARAMETERS">> ELSE <<"int", "float", "double", "string">>

\* The branches of a collection: subsetBranch, refBranch and vecBranch of
\* root_utils, by index in old files, else by the names of the relations.
BranchNames(v, x, names) ==
  IF x.subset THEN << <<x.name, IF v <= 2 THEN 0 ELSE ObjIdx>> >>
  ELSE << <<x.name, Data>> >> \o
       [i \in 1 .. Len(names) |-> <<x.name, IF v <= 2 THEN i - 1 ELSE names[i]>>]

\* What the file with number t has: its writer knew the first x.parts relations.
FileOf(t) == Files[session.files[t]]
FileBranches(t, c) ==
  UNION {Range(BranchNames(FileOf(t).version, x, SubSeq(Relations[x.type], 1, x.parts))) :
           x \in Range(FileOf(t).info[c])}

\* root_utils::getBranch in the tree with number t.
GetBranch(t, c, name) == IF name \in FileBranches(t, c) THEN t ELSE 0

Version == FileOf(1).version
AvailableCategories == DOMAIN FileOf(1).info

\* What initCategory reads of the metadata of the first file: the stored
\* collections, and createCollectionBranches with the relations that the
\* registry names, or createCollectionBranchesIndexBased with those that a
\* collection of the class has; the parameter branches come last.
StoredClasses(c) ==
  [i \in DOMAIN FileOf(1).info[c] |->
     [FileOf(1).info[c][i] EXCEPT !.schema = SchemaVersion(Version, FileOf(1).info[c][i])]]
CollectionBranches(x) ==
  BranchNames(Version, x, IF Version <= 2 THEN Relations[x.type] ELSE GetRelationNames(x.type))
CreateCollectionBranches(c, t) ==
  [i \in DOMAIN StoredClasses(c) |->
     LET names == CollectionBranches(StoredClasses(c)[i])
     IN  [k \in DOMAIN names |-> GetBranch(t, c, names[k])]]
  \o << [k \in DOMAIN ParamBranches(Version) |-> t] >>

\* The trees of a chain one after the other: TChain::GetEntries and LoadTree.
TreeEntries(c) == [t \in DOMAIN session.files |-> FileOf(t).entries[c]]
Offset(c, t) == Sum(SubSeq(TreeEntries(c), 1, t - 1))
TreeOf(c, n) == CHOOSE t \in DOMAIN session.files : Offset(c, t) <= n /\ n < Offset(c, t + 1)

\* getEntries of the readers.
GetEntries(c) ==
  IF session = Closed \/ c \notin AvailableCategories THEN 0
  ELSE IF session.format = "ttree" THEN Sum(TreeEntries(c))
  ELSE totalEntries[c]

Wanted(request, x) == request = {} \/ x.name \in request
Creatable(x) == CreateBuffers(x.type, x.schema) # NoBuffers
Missing(request, classes) == ~(request \subseteq {classes[i].name : i \in DOMAIN classes})
-----------------------------------------------------------------------------
ReadInit ==
  /\ session = Closed
  /\ stored = [c \in Categories |-> <<>>]
  /\ tree = [c \in Categories |-> 0]
  /\ branches = [c \in Categories |-> <<>>]
  /\ cursor = [c \in Categories |-> 0]
  /\ readerEntries = [c \in Categories |-> <<>>]
  /\ totalEntries = [c \in Categories |-> 0]
  /\ readers = [c \in Categories |-> <<>>]
  /\ result = NoResult
  /\ crashed = FALSE

\* The numbers of the files that have the category.
ReaderFiles(files, c) ==
  LET having[t \in 0 .. Len(files)] ==
        IF t = 0 THEN <<>>
        ELSE IF c \in DOMAIN Files[files[t]].info THEN Append(having[t - 1], t) ELSE having[t - 1]
  IN  having[Len(files)]

\* Faulty variant: the entries of the first file are accumulated again and again.
AccumulatedFirst(files, c) ==
  [k \in 1 .. Len(ReaderFiles(files, c)) + 1 |->
     (k - 1) * Files[files[ReaderFiles(files, c)[1]]].entries[c]]

\* Their accumulated entries: the first is 0, and the last, the total, is taken
\* off again.
Accumulated(files, c) ==
  [k \in 1 .. Len(ReaderFiles(files, c)) + 1 |->
     Sum([i \in 1 .. k - 1 |-> Files[files[ReaderFiles(files, c)[i]]].entries[c]])]

\* ROOTReader::openFiles, RNTupleReader::openFiles.
OpenFiles(s) ==
  /\ session = Closed
  /\ session' = s
  /\ \/ /\ s.format = "ttree"
        /\ UNCHANGED tupleVars
     \/ /\ s.format = "rntuple"
        /\ LET available == {c \in Categories : c \in DOMAIN Files[s.files[1]].info}
               all(c) == IF c \in available THEN Accumulated(s.files, c) ELSE <<0>>
           IN  /\ readers' = [c \in Categories |-> IF c \in available THEN ReaderFiles(s.files, c) ELSE <<>>]
               /\ totalEntries' = [c \in Categories |-> Last(all(c))]
               /\ readerEntries' = [c \in Categories |-> Front(all(c))]
  /\ UNCHANGED <<catVars, cursor, result, crashed>>

\* ROOTReader::getCategoryInfo, with initCategory when it has not been done; to
\* look at the branches of a chain loads its first tree.  For the branches by
\* index a collection is made of each class, without a look at whether the class
\* is there.
InitCrashes(c) ==
  /\ branches[c] = <<>>
  /\ Version <= 2
  /\ ~({x.type : x \in Range(StoredClasses(c))} \subseteq Classes)
InitCategory(c) ==
  IF branches[c] # <<>>
  THEN [stored |-> stored[c], tree |-> tree[c], branches |-> branches[c]]
  ELSE [stored |-> StoredClasses(c), tree |-> 1, branches |-> CreateCollectionBranches(c, 1)]

SetCategory(c, info) ==
  /\ stored' = [stored EXCEPT ![c] = info.stored]
  /\ tree' = [tree EXCEPT ![c] = info.tree]
  /\ branches' = [branches EXCEPT ![c] = info.branches]

\* Faulty variant: the branches of the relations are forgotten.
ResetDataBranch(c, t, x, old) ==
  [k \in DOMAIN old |-> IF k = 1 /\ old[k] # 0 THEN t ELSE old[k]]

\* root_utils::resetBranches: a data branch is looked up only if there was one.
ResetBranches(c, t, x, old) ==
  LET names == CollectionBranches(x)
  IN  [k \in DOMAIN old |-> IF ~x.subset /\ k = 1 /\ old[k] = 0 THEN 0
                            ELSE GetBranch(t, c, names[k])]

\* LoadTree and the loop over the stored classes: the pointers after a call
\* that reads entry n for this request.
LoadBranches(c, info, n, request) ==
  LET t == TreeOf(c, n)
      treeChange == t # info.tree
      reloadBranches == treeChange \/ n = Offset(c, t)
      kept(p) == [k \in DOMAIN p |-> IF treeChange /\ p[k] # 0 THEN Stale ELSE p[k]]
  IN  [info EXCEPT !.tree = t,
         !.branches = [i \in DOMAIN info.branches |->
           IF i > Len(info.stored)
           THEN IF reloadBranches THEN [k \in DOMAIN info.branches[i] |-> t] ELSE info.branches[i]
           ELSE LET x == info.stored[i]
                IN  IF Wanted(request, x) /\ Creatable(x) /\ reloadBranches
                    THEN ResetBranches(c, t, x, info.branches[i])
                    ELSE kept(info.branches[i])]]

\* What is read: setCollectionAddressesReader gives up at a null pointer, and
\* readBranchesData reads the local entry through all of them.
TreeFrame(c, info, n, request) ==
  LET local == n - Offset(c, info.tree)
      delivered == {i \in DOMAIN info.stored :
                      /\ Wanted(request, info.stored[i]) /\ Creatable(info.stored[i])
                      /\ 0 \notin Range(info.branches[i])}
      read == delivered \cup {Len(info.stored) + 1}
  IN  [status |-> "frame",
       sources |-> {<<p, local>> : p \in UNION {Range(info.branches[i]) : i \in read}},
       colls |-> {info.stored[i].name : i \in delivered}]

\* The relations of the buffers that are made for a collection.
BufferRelations(x) == Relations[CreateBuffers(x.type, x.schema).type]

\* setCollectionAddressesReader goes by the relations of the buffers, and so past
\* the end of the branches when the registry does not know all of them: not those
\* of an old name, and none of a library that came after one of the same model.
PastBranches(x) == ~x.subset /\ Len(CollectionBranches(x)) <= Len(BufferRelations(x))

ReadCrashes(c, n, request) ==
  /\ n < GetEntries(c)
  /\ ~Missing(request, InitCategory(c).stored)
  /\ LET info == LoadBranches(c, InitCategory(c), n, request)
     IN  \E i \in DOMAIN info.stored :
           /\ Wanted(request, info.stored[i]) /\ Creatable(info.stored[i])
           /\ 0 \notin Range(info.branches[i]) /\ PastBranches(info.stored[i])

TreeCrashes(c, n, request) ==
  c \in AvailableCategories /\ (InitCrashes(c) \/ ReadCrashes(c, n, request))

\* Nothing is left of what the reader was.
CrashTree(c, n, request) ==
  /\ session.format = "ttree"
  /\ TreeCrashes(c, n, request)
  /\ crashed' = TRUE
  /\ UNCHANGED <<session, catVars, tupleVars, cursor, result>>

\* ROOTReader::readEntry: the cursor is set first, to n or where it is.
ReadTree(c, n, request) ==
  /\ session.format = "ttree"
  /\ ~TreeCrashes(c, n, request)
  /\ \/ /\ c \notin AvailableCategories
        /\ result' = Null
        /\ UNCHANGED <<catVars, cursor>>
     \/ /\ c \in AvailableCategories
        /\ n >= GetEntries(c)
        /\ SetCategory(c, InitCategory(c))
        /\ cursor' = [cursor EXCEPT ![c] = n]
        /\ result' = Null
     \/ /\ c \in AvailableCategories
        /\ n < GetEntries(c)
        /\ Missing(request, InitCategory(c).stored)
        /\ SetCategory(c, InitCategory(c))
        /\ cursor' = [cursor EXCEPT ![c] = n]
        /\ result' = Thrown
     \/ /\ c \in AvailableCategories
        /\ n < GetEntries(c)
        /\ ~Missing(request, InitCategory(c).stored)
        /\ LET info == LoadBranches(c, InitCategory(c), n, request)
           IN  /\ SetCategory(c, info)
               /\ result' = TreeFrame(c, info, n, request)
        /\ cursor' = [cursor EXCEPT ![c] = n + 1]
  /\ UNCHANGED <<session, tupleVars, crashed>>

\* Faulty variant: lower_bound for upper_bound.
ReaderIndexLower(c, n) ==
  LET from == {k \in DOMAIN readerEntries[c] : readerEntries[c][k] >= n}
  IN  IF from = {} THEN Len(readerEntries[c]) ELSE Max({1, Min(from) - 1})

\* The reader of an entry: the last one whose first entry is not after it.
ReaderIndex(c, n) ==
  LET after == {k \in DOMAIN readerEntries[c] : readerEntries[c][k] > n}
  IN  IF after = {} THEN Len(readerEntries[c]) ELSE Min(after) - 1

\* A collection is left out when its buffers cannot be made or a field is
\* missing; all that is there is bound to one entry and loaded at once.
TupleFrame(c, classes, n, request) ==
  LET k == ReaderIndex(c, n)
      t == readers[c][k]
      fields(x) == Range(BranchNames(4, x, GetRelationNames(x.type)))
  IN  [status |-> "frame",
       sources |-> { <<t, n - readerEntries[c][k]>> },
       colls |-> {x.name : x \in {y \in Range(classes) :
                    Wanted(request, y) /\ Creatable(y) /\ fields(y) \subseteq FileBranches(t, c)}}]

\* RNTupleReader::readEntry: the cursor is set after the checks.
ReadTuple(c, n, request) ==
  /\ session.format = "rntuple"
  /\ \/ /\ c \notin AvailableCategories
        /\ result' = Null
        /\ UNCHANGED <<stored, cursor>>
     \/ /\ c \in AvailableCategories
        /\ stored' = [stored EXCEPT ![c] = StoredClasses(c)]
        /\ \/ /\ n >= totalEntries[c]
              /\ result' = Null
              /\ UNCHANGED cursor
           \/ /\ n < totalEntries[c]
              /\ Missing(request, stored'[c])
              /\ result' = Thrown
              /\ UNCHANGED cursor
           \/ /\ n < totalEntries[c]
              /\ ~Missing(request, stored'[c])
              /\ cursor' = [cursor EXCEPT ![c] = n + 1]
              /\ result' = TupleFrame(c, stored'[c], n, request)
  /\ UNCHANGED <<session, tree, branches, tupleVars, crashed>>

ReadEntry(c, n, request) ==
  ~crashed /\ (ReadTree(c, n, request) \/ CrashTree(c, n, request) \/ ReadTuple(c, n, request))
ReadNextEntry(c, request) == ReadEntry(c, cursor[c], request)

Init == RegInit /\ ReadInit

Next ==
  \/ LoadLibrary /\ session = Closed /\ UNCHANGED readVars
  \/ /\ \/ \E s \in Sessions : OpenFiles(s)
        \/ /\ session # Closed
           /\ \E c \in Categories, request \in session.requests :
                \/ ReadNextEntry(c, request)
                \/ \E n \in 0 .. EntryRange - 1 : ReadEntry(c, n, request)
     /\ UNCHANGED regVars

Spec == Init /\ [][Next]_<<regVars, readVars>>
-----------------------------------------------------------------------------
\* The collections that a file and the libraries allow to read.
Readable(t, c) ==
  LET there == FileBranches(t, c)
  IN  {x.name : x \in {y \in Range(StoredClasses(c)) :
         Creatable(y) /\ Range(CollectionBranches(y)) \subseteq there}}

\* All entries of a category, file after file.
EntriesOfFile(t, c) ==
  IF c \notin DOMAIN FileOf(t).info THEN <<>>
  ELSE LET colls == Readable(t, c)
       IN  [l \in 1 .. FileOf(t).entries[c] |-> [at |-> <<t, l - 1>>, colls |-> colls]]

StoredEntries(c) ==
  IF session = Closed \/ c \notin AvailableCategories THEN <<>>
  ELSE FlattenSeq([t \in DOMAIN session.files |-> EntriesOfFile(t, c)])

Abstract == INSTANCE EntryReader WITH
  stored <- [c \in Categories |-> StoredEntries(c)], position <- cursor,
  Numbers <- 0 .. EntryRange - 1, Requests <- UNION {s.requests : s \in Sessions},
  Names <- UNION {{x.name : x \in Range(Files[p[1]].info[p[2]])} :
             p \in {q \in (DOMAIN Files) \X Categories : q[2] \in DOMAIN Files[q[1]].info}}

\* Whatever is asked for in whatever order, a frame comes from the one entry
\* that the sequence of the files has at that place, with the collections that
\* can be read, and reading goes on after it (ROOTReader.cc:102,
\* RNTupleReader.cc:137).
ReadsEntries == Abstract!Spec

\* getEntries tells how many entries can be read (ROOTReader.cc:343,
\* RNTupleReader.cc:125).
EntriesCounted == \A c \in Categories : GetEntries(c) = Len(StoredEntries(c))

\* No branch of a deleted tree is read (ROOTReader.cc:118).
NoStaleBranchRead == \A s \in result.sources : s[1] # Stale
=============================================================================
