-------------------------------- MODULE Frame --------------------------------
(***************************************************************************)
(* One podio::Frame (Frame::FrameModel) shared by several threads: lazy    *)
(* unpacking of collections from the raw data, recursive resolution of     *)
(* relations through ICollectionProvider, and put().  A thread's C++ call  *)
(* stack inside the Frame is a sequence with the innermost call at its     *)
(* head.  One step is one critical section of a mutex or one access to     *)
(* state that no mutex guards; what a thread does on data only it can see  *)
(* (evolveBuffers, createCollection, prepareAfterRead, setID of a          *)
(* collection not yet in the map) is part of the step that publishes it.   *)
(***************************************************************************)
EXTENDS CollectionIDTable, FiniteSets

CONSTANTS
  Threads,     \* the threads that use the frame
  RawNames,    \* the collections the raw data has buffers for
  PutNames,    \* the names under which users put collections
  FileTable,   \* the collection ID table stored with the raw data
  Rel,         \* for each raw collection the collection IDs of its relations
  Unreadable,  \* raw collections without an Arrow reader: unpacking throws
  Backends,    \* values of extracting: TRUE for ROOT and SIO, FALSE for Arrow
  NoColl       \* nullptr

Colls == [name : Names, origin : {"raw", "put"}, by : Threads]

ASSUME ConstantsAssumption ==
  /\ RawNames \subseteq Names /\ IsFiniteSet(RawNames)
  /\ PutNames \subseteq Names
  /\ FileTable \in Tables /\ WellFormed(FileTable)
  /\ \A n \in RawNames : \E i \in DOMAIN FileTable.names : FileTable.names[i] = n
  /\ Rel \in [RawNames -> Seq(Nat)]
  /\ Unreadable \subseteq RawNames
  /\ Backends \subseteq BOOLEAN
  /\ NoColl \notin Colls

VARIABLES
  extracting,   \* TRUE if unpacking removes the buffers from the raw data
  rawData,      \* m_data: the names it still has buffers for
  collections,  \* m_collections
  collectionID, \* m_collectionID of the collection stored under a name
  relations,    \* what setReferences resolved so far for the stored collection
  idTable,      \* m_idTable
  retrievedIDs, \* m_retrievedIDs, which no mutex guards
  stack,        \* per thread, the calls that are in progress
  result        \* per thread, the outcome of its last call

vars == <<extracting, rawData, collections, collectionID, relations,
          idTable, retrievedIDs, stack, result>>

Calls ==
  [name    : Names,    \* argument of doGet or put
   setRefs : BOOLEAN,  \* argument setReferences of doGet
   pc      : {"find", "unpack", "emplace", "refs", "search", "insert",
              "wait", "add"},
   k       : Nat,      \* number of relations resolved by this call
   target  : Names,    \* the related collection that get(id) is about
   found   : BOOLEAN]  \* whether the target's ID was in m_retrievedIDs

Results ==
  [op : {"none", "get", "put", "exists", "throw"}, name : Names \cup {NoName},
   coll : Colls \cup {NoColl}]

Call(n, setRefs, pc) ==
  [name |-> n, setRefs |-> setRefs, pc |-> pc, k |-> 0, target |-> n, found |-> FALSE]

Result(op, n, coll) == [op |-> op, name |-> n, coll |-> coll]
NoResult == Result("none", NoName, NoColl)

Idle(t) == stack[t] = <<>>
Top(t) == stack[t][1]
At(t, pc) == ~Idle(t) /\ Top(t).pc = pc

\* m_mapMtx is held between two steps only by a put that adds the name to
\* the table; every other critical section of m_mapMtx and m_dataMtx is
\* within one step.
MapUnlocked == \A t \in Threads : ~At(t, "add")

SetTop(t, call) == stack' = [stack EXCEPT ![t] = <<call>> \o Tail(@)]

\* The collection IDs that setReferences of the stored collection resolves:
\* those read from the raw data.  A collection put by a user has none.
RefIDs(n) == IF collections[n].origin = "raw" THEN Rel[n] ELSE <<>>
-----------------------------------------------------------------------------
\* Frame::FrameModel(std::unique_ptr<FrameDataT>)
Init ==
  /\ extracting \in Backends
  /\ rawData = RawNames
  /\ collections = [n \in Names |-> NoColl]
  /\ collectionID = [n \in Names |-> 0]
  /\ relations = [n \in Names |-> <<>>]
  /\ idTable = FileTable
  /\ retrievedIDs = {}
  /\ stack = [t \in Threads |-> <<>>]
  /\ result = [t \in Threads |-> NoResult]

\* FrameModel::get(name): a user, or a writer, asks for a collection.
Get(t, n) ==
  /\ Idle(t)
  /\ stack' = [stack EXCEPT ![t] = <<Call(n, TRUE, "find")>>]
  /\ result' = [result EXCEPT ![t] = NoResult]
  /\ UNCHANGED <<extracting, rawData, collections, collectionID, relations,
                 idTable, retrievedIDs>>

\* The innermost doGet returns coll: to the user, or to get(id), whose
\* caller setReferences appends what it got and goes on.
Return(t, coll) ==
  \/ /\ Len(stack[t]) = 1
     /\ stack' = [stack EXCEPT ![t] = <<>>]
     /\ result' = [result EXCEPT ![t] = Result("get", Top(t).name, coll)]
     /\ UNCHANGED relations
  \/ /\ Len(stack[t]) > 1
     /\ LET caller == stack[t][2] IN
        /\ stack' = [stack EXCEPT ![t] =
             <<[caller EXCEPT !.pc = "refs", !.k = @ + 1]>> \o Tail(Tail(@))]
        /\ relations' = [relations EXCEPT ![caller.name] = Append(@, coll)]
     /\ UNCHANGED result

\* Faulty variant: relations are resolved again when the collection is there.
FindHit_ResolvesAgain(t) ==
  /\ At(t, "find") /\ MapUnlocked
  /\ collections[Top(t).name] # NoColl
  /\ \/ /\ Top(t).setRefs
        /\ SetTop(t, [Top(t) EXCEPT !.pc = "refs"])
        /\ UNCHANGED <<relations, result>>
     \/ ~Top(t).setRefs /\ Return(t, collections[Top(t).name])
  /\ UNCHANGED <<extracting, rawData, collections, collectionID, idTable, retrievedIDs>>

\* doGet, first critical section: the collection is in the map ...
FindHit(t) ==
  /\ At(t, "find") /\ MapUnlocked
  /\ collections[Top(t).name] # NoColl
  /\ Return(t, collections[Top(t).name])
  /\ UNCHANGED <<extracting, rawData, collections, collectionID, idTable, retrievedIDs>>

\* ... or it is not, and the map is unlocked again.
FindMiss(t) ==
  /\ At(t, "find") /\ MapUnlocked
  /\ collections[Top(t).name] = NoColl
  /\ SetTop(t, [Top(t) EXCEPT !.pc = "unpack"])
  /\ UNCHANGED <<extracting, rawData, collections, collectionID, relations,
                 idTable, retrievedIDs, result>>

\* Faulty variant: the buffers are copied instead of extracted.
Unpack_Copies(t) ==
  /\ At(t, "unpack")
  /\ Top(t).name \in rawData
  /\ extracting \/ Top(t).name \notin Unreadable
  /\ SetTop(t, [Top(t) EXCEPT !.pc = "emplace"])
  /\ UNCHANGED <<extracting, rawData, collections, collectionID, relations,
                 idTable, retrievedIDs, result>>

\* doGet, the critical section of m_dataMtx: there are buffers, which ROOT
\* and SIO data hand out once and Arrow data as often as it is asked ...
Unpack(t) ==
  /\ At(t, "unpack")
  /\ Top(t).name \in rawData
  /\ extracting \/ Top(t).name \notin Unreadable
  /\ rawData' = IF extracting THEN rawData \ {Top(t).name} ELSE rawData
  /\ SetTop(t, [Top(t) EXCEPT !.pc = "emplace"])
  /\ UNCHANGED <<extracting, collections, collectionID, relations, idTable,
                 retrievedIDs, result>>

\* ... or there are none, and doGet returns a nullptr ...
UnpackNothing(t) ==
  /\ At(t, "unpack")
  /\ Top(t).name \notin rawData
  /\ Return(t, NoColl)
  /\ UNCHANGED <<extracting, rawData, collections, collectionID, idTable, retrievedIDs>>

\* ... or ArrowFrameData throws, and the exception leaves every call of the
\* thread, those that wait in setReferences included.
UnpackThrows(t) ==
  /\ At(t, "unpack")
  /\ ~extracting /\ Top(t).name \in Unreadable
  /\ stack' = [stack EXCEPT ![t] = <<>>]
  /\ result' = [result EXCEPT ![t] = Result("throw", Top(t).name, NoColl)]
  /\ UNCHANGED <<extracting, rawData, collections, collectionID, relations,
                 idTable, retrievedIDs>>

\* Faulty variant: insert_or_assign instead of emplace.
Emplaced_Overwrites(t) ==
  LET n == Top(t).name IN
  /\ collections' = [collections EXCEPT ![n] = [name |-> n, origin |-> "raw", by |-> t]]
  /\ collectionID' = [collectionID EXCEPT ![n] = CollectionID(idTable, n)]

\* doGet, second critical section of m_mapMtx: the new collection, whose ID
\* is set, goes into the map unless there is one; either way doGet goes on
\* with the one that is in the map.
Emplaced(t) ==
  LET n == Top(t).name IN
  /\ collections' = IF collections[n] = NoColl
                    THEN [collections EXCEPT ![n] =
                            [name |-> n, origin |-> "raw", by |-> t]]
                    ELSE collections
  /\ collectionID' = IF collections[n] = NoColl
                     THEN [collectionID EXCEPT ![n] = CollectionID(idTable, n)]
                     ELSE collectionID

EmplaceForRefs(t) ==
  /\ At(t, "emplace") /\ MapUnlocked
  /\ Top(t).setRefs
  /\ Emplaced(t)
  /\ SetTop(t, [Top(t) EXCEPT !.pc = "refs"])
  /\ UNCHANGED <<extracting, rawData, relations, idTable, retrievedIDs, result>>

\* doGet(name, false) does not resolve the relations.
EmplaceOnly(t) ==
  /\ At(t, "emplace") /\ MapUnlocked
  /\ ~Top(t).setRefs
  /\ Emplaced(t)
  /\ Return(t, collections'[Top(t).name])
  /\ UNCHANGED <<extracting, rawData, idTable, retrievedIDs>>

\* Faulty variant: the loop does not go on after an unknown ID.
RefUnknown_Stays(t) ==
  /\ At(t, "refs")
  /\ Top(t).k < Len(RefIDs(Top(t).name))
  /\ NameOf(idTable, RefIDs(Top(t).name)[Top(t).k + 1]) = NoName
  /\ UNCHANGED vars

\* setReferences asks get(id) for the collection of the next relation: its
\* ID is not in the table and the relation stays empty ...
RefUnknown(t) ==
  /\ At(t, "refs")
  /\ LET n == Top(t).name IN
     /\ Top(t).k < Len(RefIDs(n))
     /\ NameOf(idTable, RefIDs(n)[Top(t).k + 1]) = NoName
     /\ relations' = [relations EXCEPT ![n] = Append(@, NoColl)]
  /\ SetTop(t, [Top(t) EXCEPT !.k = @ + 1])
  /\ UNCHANGED <<extracting, rawData, collections, collectionID, idTable,
                 retrievedIDs, result>>

\* Faulty variant: the optional name is used without a check.
RefKnown_Unchecked(t) ==
  /\ At(t, "refs")
  /\ LET n == Top(t).name IN
     /\ Top(t).k < Len(RefIDs(n))
     /\ SetTop(t, [Top(t) EXCEPT !.pc = "search",
          !.target = NameOf(idTable, RefIDs(n)[Top(t).k + 1])])
  /\ UNCHANGED <<extracting, rawData, collections, collectionID, relations,
                 idTable, retrievedIDs, result>>

\* ... or its name is known and m_retrievedIDs.insert(id) starts ...
RefKnown(t) ==
  /\ At(t, "refs")
  /\ LET n == Top(t).name IN
     /\ Top(t).k < Len(RefIDs(n))
     /\ LET name == NameOf(idTable, RefIDs(n)[Top(t).k + 1]) IN
        /\ name # NoName
        /\ SetTop(t, [Top(t) EXCEPT !.pc = "search", !.target = name])
  /\ UNCHANGED <<extracting, rawData, collections, collectionID, relations,
                 idTable, retrievedIDs, result>>

\* Faulty variant: an empty relation counts as a failure of setReferences.
RefsDone_Strict(t) ==
  /\ At(t, "refs")
  /\ LET n == Top(t).name
         complete == \A i \in DOMAIN relations[n] : relations[n][i] # NoColl
     IN  /\ Top(t).k >= Len(RefIDs(n))
         /\ Return(t, IF complete THEN collections[n] ELSE NoColl)
  /\ UNCHANGED <<extracting, rawData, collections, collectionID, idTable, retrievedIDs>>

\* ... or all relations are resolved and doGet returns the collection.
RefsDone(t) ==
  /\ At(t, "refs")
  /\ Top(t).k >= Len(RefIDs(Top(t).name))
  /\ Return(t, collections[Top(t).name])
  /\ UNCHANGED <<extracting, rawData, collections, collectionID, idTable, retrievedIDs>>

\* std::set::insert looks for the place and then links the node; nothing
\* keeps two threads from doing both at the same time.
SearchID(t) ==
  /\ At(t, "search")
  /\ SetTop(t, [Top(t) EXCEPT !.pc = "insert",
       !.found = RefIDs(Top(t).name)[Top(t).k + 1] \in retrievedIDs])
  /\ UNCHANGED <<extracting, rawData, collections, collectionID, relations,
                 idTable, retrievedIDs, result>>

\* Faulty variant: the two branches of get(id) are exchanged.
InsertID_Exchanged(t) ==
  /\ At(t, "insert")
  /\ retrievedIDs' = retrievedIDs \cup {RefIDs(Top(t).name)[Top(t).k + 1]}
  /\ stack' = [stack EXCEPT ![t] =
       <<Call(Top(t).target, Top(t).found, "find"),
         [Top(t) EXCEPT !.pc = "wait"]>> \o Tail(@)]
  /\ UNCHANGED <<extracting, rawData, collections, collectionID, relations,
                 idTable, result>>

\* get(id) calls doGet, which resolves relations only if the ID is new.
InsertID(t) ==
  /\ At(t, "insert")
  /\ retrievedIDs' = retrievedIDs \cup {RefIDs(Top(t).name)[Top(t).k + 1]}
  /\ stack' = [stack EXCEPT ![t] =
       <<Call(Top(t).target, ~Top(t).found, "find"),
         [Top(t) EXCEPT !.pc = "wait"]>> \o Tail(@)]
  /\ UNCHANGED <<extracting, rawData, collections, collectionID, relations,
                 idTable, result>>

\* Faulty variant: insert_or_assign instead of try_emplace.
Put_Overwrites(t, n) ==
  /\ Idle(t) /\ MapUnlocked
  /\ collections' = [collections EXCEPT ![n] = [name |-> n, origin |-> "put", by |-> t]]
  /\ stack' = [stack EXCEPT ![t] = <<Call(n, FALSE, "add")>>]
  /\ result' = [result EXCEPT ![t] = NoResult]
  /\ UNCHANGED <<extracting, rawData, collectionID, relations, idTable, retrievedIDs>>

\* FrameModel::put: try_emplace under m_mapMtx, which stays locked ...
Put(t, n) ==
  /\ Idle(t) /\ MapUnlocked
  /\ collections[n] = NoColl
  /\ collections' = [collections EXCEPT ![n] = [name |-> n, origin |-> "put", by |-> t]]
  /\ stack' = [stack EXCEPT ![t] = <<Call(n, FALSE, "add")>>]
  /\ result' = [result EXCEPT ![t] = NoResult]
  /\ UNCHANGED <<extracting, rawData, collectionID, relations, idTable, retrievedIDs>>

\* Faulty variant: the ID is looked up before the name is added.
PutAdd_LateAdd(t) ==
  /\ At(t, "add")
  /\ LET n == Top(t).name IN
     /\ idTable' = AddName(idTable, n)
     /\ collectionID' = [collectionID EXCEPT ![n] = CollectionID(idTable, n)]
     /\ result' = [result EXCEPT ![t] = Result("put", n, collections[n])]
  /\ stack' = [stack EXCEPT ![t] = <<>>]
  /\ UNCHANGED <<extracting, rawData, collections, relations, retrievedIDs>>

\* ... until the name is in the table and the collection has its ID ...
PutAdd(t) ==
  /\ At(t, "add")
  /\ LET n == Top(t).name IN
     /\ idTable' = AddName(idTable, n)
     /\ collectionID' = [collectionID EXCEPT ![n] = CollectionID(idTable', n)]
     /\ result' = [result EXCEPT ![t] = Result("put", n, collections[n])]
  /\ stack' = [stack EXCEPT ![t] = <<>>]
  /\ UNCHANGED <<extracting, rawData, collections, relations, retrievedIDs>>

\* ... or put throws std::invalid_argument, because the map has the name.
PutExists(t, n) ==
  /\ Idle(t) /\ MapUnlocked
  /\ collections[n] # NoColl
  /\ result' = [result EXCEPT ![t] = Result("exists", n, NoColl)]
  /\ UNCHANGED <<extracting, rawData, collections, collectionID, relations,
                 idTable, retrievedIDs, stack>>

\* The steps inside a call, which a scheduled thread takes.
Step(t) ==
  \/ FindHit(t) \/ FindMiss(t)
  \/ Unpack(t) \/ UnpackNothing(t) \/ UnpackThrows(t)
  \/ EmplaceForRefs(t) \/ EmplaceOnly(t)
  \/ RefUnknown(t) \/ RefKnown(t) \/ RefsDone(t)
  \/ SearchID(t) \/ InsertID(t)
  \/ PutAdd(t)

Next ==
  \E t \in Threads :
    \/ Step(t)
    \/ \E n \in Names : Get(t, n)
    \/ \E n \in PutNames : Put(t, n) \/ PutExists(t, n)

Spec == Init /\ [][Next]_vars

\* The operating system schedules every thread that can run.
FairSpec == Spec /\ \A t \in Threads : WF_vars(Step(t))
-----------------------------------------------------------------------------
\* Faulty variant: only the raw data is listed.
Listed_RawOnly(n) == IF n \in rawData THEN 1 ELSE 0

\* FrameModel::availableCollections: how often a name is in the list.
Listed(n) ==
  (IF n \in rawData THEN 1 ELSE 0) + (IF collections[n] # NoColl THEN 1 ELSE 0)
-----------------------------------------------------------------------------
TypeOK ==
  /\ extracting \in BOOLEAN
  /\ rawData \subseteq RawNames
  /\ collections \in [Names -> Colls \cup {NoColl}]
  /\ collectionID \in [Names -> Nat \cup {NoID}]
  /\ relations \in [Names -> Seq(Colls \cup {NoColl})]
  /\ idTable \in Tables
  /\ retrievedIDs \subseteq Nat
  /\ stack \in [Threads -> Seq(Calls)]
  /\ result \in [Threads -> Results]

Stored(n) == collections[n] # NoColl
StoredRaw(n) == Stored(n) /\ collections[n].origin = "raw"

\* Thread t holds the buffers of n, or the collection made of them, between
\* the two mutexes of doGet.
InHand(t, n) == At(t, "emplace") /\ Top(t).name = n

\* The buffers of a raw collection are in the raw data, in the hand of one
\* thread, or in the map, and are given up only for a collection that a user
\* put under the same name (doGet between the two mutexes).
BuffersInOnePlace ==
  extracting => \A n \in RawNames :
    /\ n \in rawData \/ (\E t \in Threads : InHand(t, n)) \/ Stored(n)
    /\ n \in rawData => ~StoredRaw(n) /\ \A t \in Threads : ~InHand(t, n)
    /\ \A t, u \in Threads : InHand(t, n) /\ InHand(u, n) => t = u
    /\ \A t \in Threads : InHand(t, n) => ~StoredRaw(n)

\* References that get and put hand out stay valid: an entry of the map is
\* never replaced or removed, by whatever two threads do with its name.
MapEntriesFinal ==
  [][\A n \in Names : Stored(n) => collections'[n] = collections[n]]_vars

\* What get returned, or a put that did not throw, is the collection in the
\* map: all threads see the same object under a name.
ResultsAreStored ==
  \A t \in Threads :
    result[t].coll # NoColl => collections[result[t].name] = result[t].coll

\* A relation is resolved at most once, in the order of the stored IDs, to
\* nothing or to the collection stored under the name that has the ID: two
\* threads never resolve the relations of one collection.
RelationsInOrder ==
  extracting => \A n \in RawNames : StoredRaw(n) =>
    /\ Len(relations[n]) <= Len(Rel[n])
    /\ \A i \in DOMAIN relations[n] : relations[n][i] # NoColl =>
         \E m \in Names : /\ m = NameOf(idTable, Rel[n][i])
                          /\ relations[n][i] = collections[m]

\* As long as no two names have the same hash, a stored collection has the
\* ID of its name in the table and is found by it; the put that still holds
\* m_mapMtx is excepted.
StoredByID ==
  IDsDistinct(idTable) => \A n \in Names :
    Stored(n) /\ (\A t \in Threads : ~(At(t, "add") /\ Top(t).name = n)) =>
      /\ collectionID[n] = CollectionID(idTable, n)
      /\ NameOf(idTable, collectionID[n]) = n

\* Relations may be cyclic; the recursion of doGet through setReferences and
\* get(id) is still no deeper than the number of raw collections.
RecursionBounded ==
  \A t \in Threads : Len(stack[t]) <= Cardinality(RawNames) + 1

\* Every call comes back, whatever the relations are.
CallsReturn == \A t \in Threads : ~Idle(t) ~> Idle(t)
-----------------------------------------------------------------------------
(* What holds when one thread uses the frame. *)

\* The raw collections from which no relation leads to an unreadable one.
Resolvable ==
  LET readable == IF extracting THEN RawNames ELSE RawNames \ Unreadable
  IN  UNION {S \in SUBSET readable : \A n \in S : \A i \in DOMAIN Rel[n] :
               LET m == NameOf(FileTable, Rel[n][i]) IN m \in RawNames => m \in S}

\* When no call is in progress, all relations of an unpacked collection are
\* resolved, and to a collection wherever the raw data has one.
RelationsComplete ==
  (\A t \in Threads : Idle(t)) => \A n \in Resolvable : StoredRaw(n) =>
    /\ Len(relations[n]) = Len(Rel[n])
    /\ \A i \in DOMAIN relations[n] :
         NameOf(FileTable, Rel[n][i]) \in RawNames => relations[n][i] # NoColl

\* "A const pointer to a collection if it is available or a nullptr if it is
\* not": get finds every collection of the raw data.
GetFindsAvailable ==
  \A t \in Threads :
    result[t].op = "get" /\ result[t].name \in RawNames => result[t].coll # NoColl

\* getAvailableCollections returns "the names of all collections, including
\* those that might still need unpacking", for any thread that calls it.
ListsEveryCollection ==
  MapUnlocked /\ (\E t \in Threads : Idle(t)) => \A n \in RawNames : Listed(n) > 0

\* The frame "only gives read access to immutable data": the relations of a
\* collection that get has returned do not change any more.
ReturnedIsImmutable ==
  [][\A t \in Threads : result[t].coll # NoColl =>
       relations'[result[t].name] = relations[result[t].name]]_vars

\* put throws "in case a collection already exists with the same name", the
\* collections that are still in the raw data included.
PutNeedsNewName ==
  \A t \in Threads : result[t].op = "put" => result[t].name \notin RawNames
-----------------------------------------------------------------------------
\* The frame implements FrameStore: where the collection of a name is.
StateOf(n) ==
  CASE StoredRaw(n) -> "unpacked"
    [] Stored(n) /\ ~StoredRaw(n) -> "put"
    [] ~Stored(n) /\ n \in rawData -> "raw"
    [] ~Stored(n) /\ n \notin rawData /\ n \in RawNames -> "loading"
    [] OTHER -> "absent"

Store == INSTANCE FrameStore WITH state <- [n \in Names |-> StateOf(n)]

\* Every step of the frame is a step of the store or leaves it unchanged.
ImplementsStore == Store!StoreSpec
=============================================================================
