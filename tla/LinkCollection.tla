---------------------------- MODULE LinkCollection ----------------------------
(***************************************************************************)
(* podio::LinkCollection with its LinkCollectionData, LinkObj and Link:    *)
(* weighted links between an object of one kind and one of another, each   *)
(* of which may be missing.  Two collections of one link type are filled,  *)
(* either of which may be a subset collection with links of the other; are *)
(* put into a frame; are prepared and written, while mutable handles to    *)
(* their links are still around; are read again, where the objects may or  *)
(* may not be there; and are written once more as they were read.          *)
(*                                                                         *)
(* The collections that the linked objects are in are constants; how       *)
(* handles share a link is module SharedHandles.  setSubsetCollection      *)
(* is called with true only: when a subset collection becomes a normal one *)
(* again it has no data buffer any more.                                   *)
(***************************************************************************)
EXTENDS Integers, FiniteSets, SequencesExt

CONSTANTS
  Colls,        \* the link collections
  MaybeSubsets, \* those that may be made subset collections
  ObjectIDs,    \* the objects that are linked -> their ObjectID
  Values,       \* [weight, from, to]: what the n-th link is set to
  Providers,    \* sets of target collections: what an ICollectionProvider may have
  MaxLinks      \* bound: links that are made

VARIABLES
  mode,       \* "build", or "read" in a process that reads what was written
  objs,       \* the LinkObj's, by address
  colls,      \* the collections: of the application, or those that were read
  asPrepared, \* the links (or their IDs) at the time a collection was prepared
  file,       \* the buffers that were written
  resolved,   \* the collections that have their references, in mode "read"
  rewritten,  \* what was written of a collection that had been read
  navigator   \* a LinkNavigator, with the links it was made of

linkVars == <<mode, objs, colls, asPrepared, file, resolved, rewritten, navigator>>

None == "none"                        \* an empty handle, m_from or m_to that is null
NotPresent == 0                       \* a nullptr among the entries
Outside == -1                         \* what entries[index] is beyond the end
ID(index, coll) == [index |-> index, coll |-> coll]
Untracked == ID(-1, -1)               \* ObjectID{}
Invalid == ID(-2, 0)                  \* {ObjectID::invalid, 0}
CollectionID(c) == 100 + CHOOSE i \in DOMAIN SetToSeq(Colls) : SetToSeq(Colls)[i] = c

\* LinkObj(): a link that is in no collection.
NewLink == [id |-> Untracked, weight |-> 1, from |-> None, to |-> None]

\* LinkCollectionData(): for a subset collection data is the nullptr.
NewCollection ==
  [subset |-> FALSE, id |-> 0, prepared |-> FALSE, entries |-> <<>>, data |-> <<>>, refs |-> << <<>>, <<>> >>]

NothingWritten == [written |-> FALSE, subset |-> FALSE, id |-> 0, data |-> <<>>, refs |-> <<>>]
NoNavigator == [from2to |-> <<>>, to2from |-> <<>>, links |-> <<>>]

\* Link::getFrom, getTo and getWeight of every link of a collection, as
\* its iterators give them.
Links(c) == [k \in DOMAIN c.entries |->
               [from |-> objs[c.entries[k]].from, to |-> objs[c.entries[k]].to, weight |-> objs[c.entries[k]].weight]]

\* Link::getObjectID of a handle that may be empty, for what is written.
GetObjectID(handle) == IF handle = None THEN Invalid ELSE ObjectIDs[handle]
-----------------------------------------------------------------------------
Init ==
  /\ mode = "build"
  /\ objs = <<>>
  /\ colls = [c \in Colls |-> NewCollection]
  /\ asPrepared = [c \in Colls |-> <<>>]
  /\ file = [c \in Colls |-> NothingWritten]
  /\ resolved = {}
  /\ rewritten = [c \in Colls |-> NothingWritten]
  /\ navigator = NoNavigator

\* A collection that the application has not yet given to a frame.
Local(c) == mode = "build" /\ colls[c].id = 0
Change(c, coll) == colls' = [colls EXCEPT ![c] = coll]

\* LinkCollection::create, which throws for a subset collection.
Create(c) ==
  /\ Local(c)
  /\ ~ colls[c].subset
  /\ Len(objs) < MaxLinks
  /\ objs' = Append(objs, [NewLink EXCEPT !.id = ID(Len(colls[c].entries), colls[c].id)])
  /\ Change(c, [colls[c] EXCEPT !.entries = Append(@, Len(objs'))])
  /\ UNCHANGED <<mode, asPrepared, file, resolved, rewritten, navigator>>

\* A link that is in no collection.
MakeLink ==
  /\ mode = "build"
  /\ Len(objs) < MaxLinks
  /\ objs' = Append(objs, NewLink)
  /\ UNCHANGED <<mode, colls, asPrepared, file, resolved, rewritten, navigator>>

\* Link::clone: the copy is in no collection.
Clone(o, cloneRelations) ==
  /\ mode = "build"
  /\ Len(objs) < MaxLinks
  /\ objs' = Append(objs, IF cloneRelations THEN [objs[o] EXCEPT !.id = Untracked]
                          ELSE [NewLink EXCEPT !.weight = objs[o].weight])
  /\ UNCHANGED <<mode, colls, asPrepared, file, resolved, rewritten, navigator>>

\* Faulty variant: a link may be in two collections.
CanTakeAny(coll, id) == coll.subset => id.index >= 0

\* A normal collection takes links that are in no other, a subset collection only
\* those that are; push_back throws for the rest.
CanTake(coll, id) == IF coll.subset THEN id.index >= 0 ELSE id.index = Untracked.index

\* LinkCollection::push_back, with a mutable or an immutable handle.
PushBack(c, o) ==
  /\ Local(c)
  /\ CanTake(colls[c], objs[o].id)
  /\ Len(colls[c].entries) < MaxLinks
  /\ objs' = IF colls[c].subset THEN objs
             ELSE [objs EXCEPT ![o].id = ID(Len(colls[c].entries), colls[c].id)]
  /\ Change(c, [colls[c] EXCEPT !.entries = Append(@, o)])
  /\ UNCHANGED <<mode, asPrepared, file, resolved, rewritten, navigator>>

\* setWeight, setFrom and setTo of a mutable handle, which there may be of a link
\* in a collection in a frame.
SetLink(o) ==
  /\ mode = "build"
  /\ objs' = [objs EXCEPT ![o].weight = Values[o].weight, ![o].from = Values[o].from, ![o].to = Values[o].to]
  /\ UNCHANGED <<mode, colls, asPrepared, file, resolved, rewritten, navigator>>

\* LinkCollectionData::makeSubsetCollection.
MakeSubset(coll) == [coll EXCEPT !.subset = TRUE, !.data = <<>>, !.refs = << <<>> >>]

\* LinkCollection::setSubsetCollection, which throws for a collection with links.
SetSubsetCollection(c) ==
  /\ Local(c)
  /\ c \in MaybeSubsets
  /\ ~ colls[c].subset /\ colls[c].entries = <<>>
  /\ Change(c, MakeSubset(colls[c]))
  /\ UNCHANGED <<mode, objs, asPrepared, file, resolved, rewritten, navigator>>

\* LinkCollection::clear and LinkCollectionData::clear.  The links of a normal
\* collection are deleted, and those that refer to them must be gone before.
Clear(c) ==
  /\ Local(c)
  /\ colls[c].entries # <<>>
  /\ ~ colls[c].subset =>
       \A d \in Colls \ {c} : colls[d].entries = <<>>
  /\ Change(c, [colls[c] EXCEPT !.entries = <<>>, !.prepared = FALSE, !.data = <<>>,
                                !.refs = [i \in DOMAIN @ |-> <<>>]])
  /\ UNCHANGED <<mode, objs, asPrepared, file, resolved, rewritten, navigator>>
-----------------------------------------------------------------------------
\* LinkCollection::setID: the links of a normal collection get it, too.
SetID(coll, id, store) ==
  [o \in DOMAIN store |->
     IF ~ coll.subset /\ o \in Range(coll.entries) THEN [store[o] EXCEPT !.id.coll = id] ELSE store[o]]

\* Frame::put.
PutIntoFrame(c) ==
  /\ Local(c)
  /\ objs' = SetID(colls[c], CollectionID(c), objs)
  /\ Change(c, [colls[c] EXCEPT !.id = CollectionID(c)])
  /\ UNCHANGED <<mode, asPrepared, file, resolved, rewritten, navigator>>

\* LinkCollectionData::prepareForWrite: of a subset collection only the IDs of its
\* links.  The references are cleared first, the data are not.
FillBuffers(coll) ==
  IF coll.subset
  THEN [coll EXCEPT !.refs = << [k \in DOMAIN coll.entries |-> objs[coll.entries[k]].id] >>]
  ELSE LET links == Links(coll) IN
       [coll EXCEPT !.data = @ \o [k \in DOMAIN links |-> links[k].weight],
                    !.refs = << [k \in DOMAIN links |-> GetObjectID(links[k].from)],
                                [k \in DOMAIN links |-> GetObjectID(links[k].to)] >>]

\* Faulty variant: the buffers are filled anew each time.
PrepareAgain(coll) == [FillBuffers([coll EXCEPT !.data = <<>>]) EXCEPT !.prepared = TRUE]

\* LinkCollection::prepareForWrite, under m_storageMtx: only the first one counts.
PrepareForWrite(coll) == IF coll.prepared THEN coll ELSE [FillBuffers(coll) EXCEPT !.prepared = TRUE]

Prepared(c) ==
  /\ Change(c, PrepareForWrite(colls[c]))
  /\ asPrepared' = IF colls[c].prepared THEN asPrepared
                   ELSE [asPrepared EXCEPT ![c] =
                           IF colls[c].subset THEN [k \in DOMAIN colls[c].entries |-> objs[colls[c].entries[k]].id]
                           ELSE Links(colls[c])]

\* Anybody can prepare a collection at any time, more than one thread also.
Prepare(c) ==
  /\ mode = "build"
  /\ Prepared(c)
  /\ UNCHANGED <<mode, objs, file, resolved, rewritten, navigator>>

\* getBuffers, and what a writer makes of them.
GetBuffers(coll) ==
  [written |-> TRUE, subset |-> coll.subset, id |-> coll.id, data |-> coll.data, refs |-> coll.refs]

\* Frame::getCollectionForWrite and a writer.
Write(c) ==
  /\ mode = "build"
  /\ colls[c].id # 0
  /\ Prepared(c)
  /\ file' = [file EXCEPT ![c] = GetBuffers(colls'[c])]
  /\ UNCHANGED <<mode, objs, resolved, rewritten, navigator>>
-----------------------------------------------------------------------------
\* The file is opened elsewhere.
StartReading ==
  /\ mode = "build"
  /\ \E c \in Colls : file[c].written
  /\ mode' = "read"
  /\ objs' = <<>>
  /\ colls' = [c \in Colls |-> NewCollection]
  /\ asPrepared' = [c \in Colls |-> IF file[c].written THEN asPrepared[c] ELSE <<>>]
  /\ UNCHANGED <<file, resolved, rewritten, navigator>>

\* createLinkBuffers with the content of the file, and the LinkCollectionData and
\* LinkCollection that its createCollection makes of them.
FromBuffers(buffers) ==
  [NewCollection EXCEPT !.subset = buffers.subset, !.data = buffers.data, !.refs = buffers.refs]

\* Faulty variant: the collection is prepared for writing again.
ReadyAgain(coll) == [coll EXCEPT !.prepared = FALSE]

\* The buffers stay, so that the collection is prepared for writing.
Ready(coll) == [coll EXCEPT !.prepared = TRUE]

\* LinkCollection::prepareAfterRead: the links that it makes, and the collection.
LinksOf(coll) ==
  IF coll.subset THEN <<>>
  ELSE [k \in DOMAIN coll.data |-> [NewLink EXCEPT !.id = ID(k - 1, coll.id), !.weight = coll.data[k]]]
PrepareAfterRead(coll) ==
  [Ready(coll) EXCEPT !.entries = [k \in DOMAIN LinksOf(coll) |-> Len(objs) + k]]

\* Frame::doGet up to the references, for a collection that was not read before.
Load(c) ==
  /\ mode = "read"
  /\ file[c].written
  /\ colls[c].id = 0
  /\ LET coll == PrepareAfterRead(FromBuffers(file[c])) IN
       /\ objs' = SetID(coll, file[c].id, objs \o LinksOf(FromBuffers(file[c])))
       /\ Change(c, [coll EXCEPT !.id = file[c].id])
  /\ UNCHANGED <<mode, asPrepared, file, resolved, rewritten, navigator>>

\* The object that an ID stands for, if the collection of it can be had.
Resolve(id, available) ==
  IF id.index # Invalid.index /\ id.coll \in available
  THEN CHOOSE x \in DOMAIN ObjectIDs : ObjectIDs[x] = id
  ELSE None

\* The link of a collection that was read before, for a subset collection.
ResolveLink(id) ==
  LET owners == {d \in Colls : colls[d].id # 0 /\ colls[d].id = id.coll} IN
  IF owners = {} THEN NotPresent
  ELSE LET entries == colls[CHOOSE d \in owners : TRUE].entries IN
       IF id.index < Len(entries) THEN entries[id.index + 1] ELSE Outside

\* LinkCollectionData::setReferences with a provider of some collections.
SetReferences(c, available) ==
  /\ mode = "read"
  /\ colls[c].id # 0 /\ c \notin resolved
  /\ resolved' = resolved \cup {c}
  /\ LET coll == colls[c] IN
       IF coll.subset
       THEN /\ Change(c, [coll EXCEPT !.entries = @ \o [k \in DOMAIN coll.refs[1] |-> ResolveLink(coll.refs[1][k])]])
            /\ UNCHANGED objs
       ELSE /\ objs' = [o \in DOMAIN objs |->
                          LET k == SelectInSeq(coll.entries, LAMBDA e : e = o) IN
                          IF k = 0 THEN objs[o]
                          ELSE [objs[o] EXCEPT !.from = Resolve(coll.refs[1][k], available),
                                               !.to = Resolve(coll.refs[2][k], available)]]
            /\ UNCHANGED colls
  /\ UNCHANGED <<mode, asPrepared, file, rewritten, navigator>>

\* What was read is written to another file.
Rewrite(c) ==
  /\ mode = "read"
  /\ colls[c].id # 0
  /\ ~ rewritten[c].written
  /\ rewritten' = [rewritten EXCEPT ![c] = GetBuffers(PrepareForWrite(colls[c]))]
  /\ Change(c, PrepareForWrite(colls[c]))
  /\ UNCHANGED <<mode, objs, asPrepared, file, resolved, navigator>>
-----------------------------------------------------------------------------
\* Faulty variant: one object for a key.
EmplaceOnce(map, key, value) ==
  IF \E i \in DOMAIN map : map[i].key = key THEN map ELSE Append(map, [key |-> key, value |-> value])

\* std::multimap::emplace.
Emplace(map, key, value) == Append(map, [key |-> key, value |-> value])

\* What the loop over the links puts into the maps, element after element.
FromEntry(link) == [key |-> link.from, value |-> [object |-> link.to, weight |-> link.weight]]
ToEntry(link) == [key |-> link.to, value |-> [object |-> link.from, weight |-> link.weight]]
Elements(entries) ==
  LET map[n \in 0 .. Len(entries)] ==
        IF n = 0 THEN <<>> ELSE Emplace(map[n - 1], entries[n].key, entries[n].value)
  IN  map[Len(entries)]

\* LinkNavigator::LinkNavigator: both maps, from the links as they are.
BuildNavigator(c) ==
  /\ navigator = NoNavigator
  /\ colls[c].entries # <<>>
  /\ Range(colls[c].entries) \subseteq DOMAIN objs
  /\ LET links == Links(colls[c]) IN
     navigator' =
       [from2to |-> Elements([k \in DOMAIN links |-> FromEntry(links[k])]),
        to2from |-> Elements([k \in DOMAIN links |-> ToEntry(links[k])]),
        links |-> links]
  /\ UNCHANGED <<mode, objs, colls, asPrepared, file, resolved, rewritten>>

\* LinkNavigator::getLinkedTo and getLinkedFrom: "no guarantees on the order of
\* the returned objects", which are a bag here.
GetLinked(map, object) ==
  LET found(v) == {i \in DOMAIN map : map[i] = [key |-> object, value |-> v]}
  IN  [v \in {map[i].value : i \in {j \in DOMAIN map : map[j].key = object}} |-> Cardinality(found(v))]
GetLinkedTo(from) == GetLinked(navigator.from2to, from)
GetLinkedFrom(to) == GetLinked(navigator.to2from, to)

\* While there is a navigator, the links that it was made of may be set anew.
Next ==
  \/ \E o \in DOMAIN objs : SetLink(o)
  \/ /\ navigator = NoNavigator
     /\ \/ \E c \in Colls :
             \/ Create(c) \/ SetSubsetCollection(c) \/ Clear(c) \/ PutIntoFrame(c)
             \/ Prepare(c) \/ Write(c)
             \/ Load(c) \/ Rewrite(c) \/ BuildNavigator(c)
             \/ \E o \in DOMAIN objs : PushBack(c, o)
             \/ \E available \in Providers : SetReferences(c, available)
        \/ MakeLink
        \/ \E o \in DOMAIN objs, r \in BOOLEAN : Clone(o, r)
        \/ StartReading

Spec == Init /\ [][Next]_linkVars
-----------------------------------------------------------------------------
\* The ID of a link is its position and the ID of its collection, whether it was
\* made there, added, or read, and before and after a frame gives the ID: what
\* others write of it is found again.  No link is in two normal collections.
TrackedByPosition ==
  \A c \in Colls : ~ colls[c].subset =>
    \A k \in DOMAIN colls[c].entries : objs[colls[c].entries[k]].id = ID(k - 1, colls[c].id)

\* A link that was read is the one that was prepared: it has its weight, and
\* comes from and goes to the same objects unless their collection is not there
\* or never had them.
SameOrGone(read, wrote) == read = wrote \/ read = None

\* What is read is what was prepared first, however many threads prepared the
\* collection and whatever became of its links later: the same number of links,
\* in order, none twice.  A link of a subset collection is the one with the ID.
ReadAsPrepared ==
  mode = "read" =>
    \A c \in resolved :
      LET entries == colls[c].entries IN
      /\ Len(entries) = Len(asPrepared[c])
      /\ \A k \in DOMAIN entries :
           IF colls[c].subset
           THEN entries[k] \in DOMAIN objs => objs[entries[k]].id = asPrepared[c][k]
           ELSE LET read == objs[entries[k]]
                    wrote == asPrepared[c][k]
                IN  /\ read.weight = wrote.weight
                    /\ SameOrGone(read.from, wrote.from)
                    /\ SameOrGone(read.to, wrote.to)

\* A collection that was read is written as it was, also when what it refers to
\* could not be found: "keep the I/O data buffer to keep the preparedForWrite
\* state intact" (LinkCollectionData.h:132).
RewrittenUnchanged ==
  \A c \in Colls : rewritten[c].written => rewritten[c] = file[c]

\* A navigator gives every link that it was made of, from either side, as often
\* as it is there and with its weight, also those of objects with several links
\* and those whose other side is missing.
IsGiven(value, n, found) == value \in DOMAIN found /\ found[value] = n
NavigatorComplete ==
  \A l \in Range(navigator.links) :
    LET n == Cardinality({k \in DOMAIN navigator.links : navigator.links[k] = l}) IN
    /\ IsGiven([object |-> l.to, weight |-> l.weight], n, GetLinkedTo(l.from))
    /\ IsGiven([object |-> l.from, weight |-> l.weight], n, GetLinkedFrom(l.to))
=============================================================================
