-------------------------- MODULE RootWriter_proofs --------------------------
(***************************************************************************)
(* What a file of the ROOT writers holds, for any categories, names, frames*)
(* and requests, and however many frames were refused.                     *)
(***************************************************************************)
EXTENDS RootWriter, SequenceTheorems, FiniteSetTheorems, FunctionTheorems, TLAPS

\* A category is described by its list once it has branches, and has no
\* entries before; an RNTuple has no state in between.
StagesOK ==
  \A c \in Categories :
    /\ stage[c] = "filled" => branches[c] = collsToWrite[c] /\ collInfo[c] = collsToWrite[c]
    /\ stage[c] # "filled" => entries[c] = <<>>
    /\ stage[c] = "listed" => format = "ttree"
    /\ entries[c] # <<>> => c \in categories

\* The metadata describes the categories when the file was closed.
MetadataOK ==
  ~isOpen => metadata = {[category |-> c, names |-> collInfo[c]] : c \in categories}

\* The data of an entry is that of the branches bs.
Faithful(e, bs) == e.data = [b \in DOMAIN bs |-> [frame |-> e.frame, name |-> bs[b]]]

\* The inductive invariant.
IInv == TypeOK /\ StagesOK /\ MetadataOK /\ EntriesFaithful /\ WrittenAsRequested

-----------------------------------------------------------------------------
(* Lists and entries.                                                      *)

\* The elements of a list of names are names.
LEMMA ElemsOfList ==
  ASSUME NEW s \in Seq(Names)
  PROVE  /\ DOMAIN s = 1 .. Len(s) /\ Len(s) \in Nat
         /\ \A i \in DOMAIN s : s[i] \in Names
         /\ Elems(s) \subseteq Names
BY LenProperties, ElementOfSeq DEF Elems

\* Sorting gives a list of the same names.
LEMMA SortedListOK ==
  ASSUME NEW s \in Seq(Names), NEW l \in SortedLists(s)
  PROVE  l \in Seq(Names) /\ DOMAIN l = DOMAIN s /\ Elems(l) = Elems(s)
<1>1. l \in [1 .. Len(s) -> Names] /\ DOMAIN l = DOMAIN s /\ Elems(l) \subseteq Elems(s)
  BY ElemsOfList DEF SortedLists, Elems
<1>2. l \in Seq(Names)
  BY <1>1, ElemsOfList
<1>3. ASSUME NEW n \in Elems(s) PROVE n \in Elems(l)
  <2>. DEFINE S == {i \in DOMAIN s : s[i] = n}
              T == {i \in DOMAIN l : l[i] = n}
  <2>1. IsFiniteSet(1 .. Len(s))
    BY FS_Interval, ElemsOfList
  <2>2. IsFiniteSet(S) /\ IsFiniteSet(T)
    <3>1. S \in SUBSET (1 .. Len(s)) /\ T \in SUBSET (1 .. Len(s))
      BY <1>1, ElemsOfList
    <3>. QED  BY <2>1, <3>1, FS_Subset
  <2>3. Cardinality(T) = Cardinality(S)
    BY DEF SortedLists, Count
  <2>4. S # {}
    BY DEF Elems
  <2>5. T # {}
    BY <2>2, <2>3, <2>4, FS_EmptySet
  <2>. QED  BY <2>5 DEF Elems
<1>. QED  BY <1>1, <1>2, <1>3

\* The keys of a list are those of its elements.
LEMMA SameElemsSameKeys ==
  ASSUME NEW s, NEW t, Elems(s) = Elems(t)
  PROVE  Keys(s) = Keys(t)
BY DEF Elems, Keys

\* There are finitely many keys, as many as names if they are distinct.
LEMMA KeysFinite ==
  ASSUME NEW s \in Seq(Names)
  PROVE  IsFiniteSet(Keys(s)) /\ Cardinality(Keys(s)) \in Nat
<1>. DEFINE f == [i \in 1 .. Len(s) |-> Lower[s[i]]]
<1>1. DOMAIN s = 1 .. Len(s) /\ Len(s) \in Nat
  BY ElemsOfList
<1>2. IsFiniteSet(1 .. Len(s))
  BY <1>1, FS_Interval
<1>3. Keys(s) = {f[i] : i \in 1 .. Len(s)}
  BY <1>1 DEF Keys
<1>4. f \in Surjection(1 .. Len(s), Keys(s))
  BY <1>3 DEF Surjection
<1>. QED  BY <1>2, <1>4, FS_Surjection, FS_CardinalityType

\* A request that passes the check has the keys of the list, if neither of
\* the two has a key twice.
LEMMA ConsistentKeys ==
  ASSUME NEW info \in Seq(Names), NEW request \in Seq(Names),
         Consistent(info, request), DistinctKeys(info), DistinctKeys(request)
  PROVE  Keys(request) = Keys(info)
<1>1. Keys(request) \in SUBSET Keys(info)
  BY DEF Consistent, Keys
<1>2. Cardinality(Keys(request)) = Cardinality(Keys(info))
  BY DEF Consistent, DistinctKeys
<1>. QED  BY <1>1, <1>2, KeysFinite, FS_Subset

\* An entry filled from available collections.
LEMMA FilledOK ==
  ASSUME NEW f \in Frames, NEW request \in Requests, NEW list \in Seq(Names),
         Elems(list) \subseteq Available[f]
  PROVE  Filled(f, request, list) \in Entries
<1>. DEFINE data == [i \in DOMAIN list |-> [frame |-> f, name |-> list[i]]]
<1>1. DOMAIN list = 1 .. Len(list) /\ Len(list) \in Nat
  BY ElemsOfList
<1>2. \A i \in 1 .. Len(list) : [frame |-> f, name |-> list[i]] \in Data
  BY <1>1, ElemsOfList DEF Data, Elems
<1>3. data \in [1 .. Len(list) -> Data]
  BY <1>1, <1>2
<1>4. data \in Seq(Data)
  BY <1>1, <1>3
<1>. QED  BY <1>4 DEF Filled, Entries

-----------------------------------------------------------------------------
(* Every exit of writeFrame keeps the inductive invariant.                 *)

\* The initial file.
LEMMA InitIInv == Init => IInv
<1>. SUFFICES ASSUME Init PROVE IInv
  OBVIOUS
<1>. USE DEF Init
<1>1. TypeOK
  BY EmptySeq DEF TypeOK, Lists
<1>2. StagesOK /\ MetadataOK
  BY DEF StagesOK, MetadataOK
<1>3. EntriesFaithful /\ WrittenAsRequested
  BY DEF EntriesFaithful, WrittenAsRequested
<1>. QED  BY <1>1, <1>2, <1>3 DEF IInv

\* The list that writeFrame goes on with.
LEMMA ListChosen ==
  ASSUME IInv, NEW c \in Categories, NEW request \in Requests,
         NEW list \in ListsFor(c, request)
  PROVE  /\ list \in Seq(Names)
         /\ stage[c] # "new" => list = collsToWrite[c]
         /\ stage[c] = "new" => Elems(list) = Elems(request)
<1>1. request \in Seq(Names) /\ collsToWrite[c] \in Seq(Names)
  BY WriterAssumption DEF IInv, TypeOK, Lists
<1>. QED  BY <1>1, SortedListOK DEF ListsFor

\* What holds of the entries stays so while nothing is filled.
LEMMA EntriesUnchanged ==
  ASSUME IInv, UNCHANGED <<format, branches, entries>>
  PROVE  EntriesFaithful' /\ WrittenAsRequested'
<1>1. EntriesFaithful'
  <2>1. \A d \in Categories : \A i \in DOMAIN entries'[d] : Faithful(entries'[d][i], branches'[d])
    BY DEF IInv, EntriesFaithful, Faithful
  <2>. QED  BY <2>1, Zenon DEF EntriesFaithful, Faithful
<1>2. WrittenAsRequested'
  BY DEF IInv, WrittenAsRequested
<1>. QED  BY <1>1, <1>2

\* A writeFrame that throws changes the list at most, and that only while
\* the category has no branches.
LEMMA RefusedKeepsIInv ==
  ASSUME IInv, isOpen, NEW c \in Categories, NEW list \in Seq(Names),
         stage[c] # "new" => list = collsToWrite[c],
         categories' = categories \cup {c},
         collsToWrite' = [collsToWrite EXCEPT ![c] = list],
         \/ stage' = stage
         \/ stage[c] = "new" /\ format = "ttree" /\ stage' = [stage EXCEPT ![c] = "listed"],
         UNCHANGED <<format, isOpen, branches, collInfo, entries, metadata>>
  PROVE  IInv'
<1>1. TypeOK'
  BY DEF IInv, TypeOK, Lists
<1>2. StagesOK'
  <2>1. SUFFICES ASSUME NEW d \in Categories
                 PROVE  /\ stage'[d] = "filled" => /\ branches[d] = collsToWrite'[d]
                                                   /\ collInfo[d] = collsToWrite'[d]
                        /\ stage'[d] # "filled" => entries[d] = <<>>
                        /\ stage'[d] = "listed" => format = "ttree"
                        /\ entries[d] # <<>> => d \in categories'
    BY DEF StagesOK
  <2>2. stage \in [Categories -> {"new", "listed", "filled"}] /\ collsToWrite \in Lists
    BY DEF IInv, TypeOK
  <2>3. CASE d = c
    BY <2>2, <2>3 DEF IInv, StagesOK, Lists
  <2>4. CASE d # c
    BY <2>2, <2>4 DEF IInv, StagesOK, Lists
  <2>. QED  BY <2>3, <2>4
<1>3. MetadataOK'
  BY DEF IInv, MetadataOK
<1>4. EntriesFaithful' /\ WrittenAsRequested'
  BY EntriesUnchanged
<1>. QED  BY <1>1, <1>2, <1>3, <1>4 DEF IInv

\* An entry that is filled with the list of the category, from collections
\* that are available, for a request with the keys of the list.
LEMMA AcceptedKeepsIInv ==
  ASSUME IInv, isOpen, NEW c \in Categories, NEW f \in Frames, NEW request \in Requests,
         NEW list \in Seq(Names), Elems(list) \subseteq Available[f],
         stage[c] = "filled" => list = collsToWrite[c],
         /\ format = "rntuple" \/ entries[c] # <<>>
         /\ DistinctKeys(request) /\ DistinctKeys(list)
         => Keys(request) = Keys(list),
         categories' = categories \cup {c},
         collsToWrite' = [collsToWrite EXCEPT ![c] = list],
         branches' = [branches EXCEPT ![c] = list],
         collInfo' = [collInfo EXCEPT ![c] = list],
         stage' = [stage EXCEPT ![c] = "filled"],
         entries' = [entries EXCEPT ![c] = Append(@, Filled(f, request, list))],
         UNCHANGED <<format, isOpen, metadata>>
  PROVE  IInv'
<1>. DEFINE new == Filled(f, request, list)
<1>1. new \in Entries
  BY FilledOK
<1>2. /\ entries \in [Categories -> Seq(Entries)] /\ branches \in Lists
      /\ collsToWrite \in Lists /\ collInfo \in Lists
      /\ stage \in [Categories -> {"new", "listed", "filled"}]
  BY DEF IInv, TypeOK
<1>3. \A d \in Categories :
        /\ collsToWrite'[d] = (IF d = c THEN list ELSE collsToWrite[d])
        /\ branches'[d] = (IF d = c THEN list ELSE branches[d])
        /\ collInfo'[d] = (IF d = c THEN list ELSE collInfo[d])
        /\ stage'[d] = (IF d = c THEN "filled" ELSE stage[d])
        /\ entries'[d] = (IF d = c THEN Append(entries[c], new) ELSE entries[d])
  BY <1>2 DEF Lists
<1>4. entries[c] # <<>> => branches[c] = list
  BY DEF IInv, StagesOK
<1>5. /\ Append(entries[c], new) \in Seq(Entries)
      /\ Append(entries[c], new) # <<>>
      /\ DOMAIN entries[c] = 1 .. Len(entries[c]) /\ Len(entries[c]) \in Nat
      /\ DOMAIN Append(entries[c], new) = 1 .. (Len(entries[c]) + 1)
      /\ \A i \in 1 .. Len(entries[c]) : Append(entries[c], new)[i] = entries[c][i]
      /\ Append(entries[c], new)[Len(entries[c]) + 1] = new
  <2>1. entries[c] \in Seq(Entries)
    BY <1>2
  <2>2. /\ Append(entries[c], new) \in Seq(Entries)
        /\ Append(entries[c], new) # <<>>
        /\ Len(Append(entries[c], new)) = Len(entries[c]) + 1
        /\ \A i \in 1 .. Len(entries[c]) : Append(entries[c], new)[i] = entries[c][i]
        /\ Append(entries[c], new)[Len(entries[c]) + 1] = new
    BY <1>1, <2>1, AppendProperties
  <2>. QED  BY <2>1, <2>2, LenProperties
<1>6. TypeOK'
  BY <1>1, <1>2, <1>5 DEF IInv, TypeOK, Lists
<1>7. StagesOK'
  <2>1. SUFFICES ASSUME NEW d \in Categories
                 PROVE  /\ stage'[d] = "filled" => /\ branches'[d] = collsToWrite'[d]
                                                   /\ collInfo'[d] = collsToWrite'[d]
                        /\ stage'[d] # "filled" => entries'[d] = <<>>
                        /\ stage'[d] = "listed" => format = "ttree"
                        /\ entries'[d] # <<>> => d \in categories'
    BY DEF StagesOK
  <2>. QED  BY <1>3 DEF IInv, StagesOK
<1>8. MetadataOK'
  BY DEF MetadataOK
<1>9. ASSUME NEW d \in Categories, NEW i \in DOMAIN entries'[d]
      PROVE  \/ d = c /\ i = Len(entries[c]) + 1 /\ entries'[d][i] = new /\ branches'[d] = list
             \/ i \in DOMAIN entries[d] /\ entries'[d][i] = entries[d][i] /\ branches'[d] = branches[d]
  <2>1. CASE d # c
    BY <1>3, <2>1
  <2>2. CASE d = c /\ i = Len(entries[c]) + 1
    BY <1>3, <1>5, <2>2
  <2>3. CASE d = c /\ i # Len(entries[c]) + 1
    <3>1. i \in 1 .. Len(entries[c])
      BY <1>3, <1>5, <2>3
    <3>2. entries[c] # <<>>
      BY <3>1, <1>5
    <3>. QED  BY <1>3, <1>4, <1>5, <2>3, <3>1, <3>2
  <2>. QED  BY <2>1, <2>2, <2>3
<1>10. EntriesFaithful'
  <2>1. \A d \in Categories : \A i \in DOMAIN entries[d] : Faithful(entries[d][i], branches[d])
    BY DEF IInv, EntriesFaithful, Faithful
  <2>2. Faithful(new, list)
    BY DEF Filled, Faithful
  <2>3. \A d \in Categories : \A i \in DOMAIN entries'[d] : Faithful(entries'[d][i], branches'[d])
    <3>. HIDE DEF new
    <3>. QED  BY <1>9, <2>1, <2>2
  <2>. QED  BY <2>3, Zenon DEF EntriesFaithful, Faithful
<1>11. WrittenAsRequested'
  <2>1. SUFFICES ASSUME NEW d \in Categories, NEW i \in DOMAIN entries'[d],
                        format = "rntuple" \/ i > 1,
                        DistinctKeys(entries'[d][i].request), DistinctKeys(branches'[d])
                 PROVE  Keys(entries'[d][i].request) = Keys(branches'[d])
    BY DEF WrittenAsRequested
  <2>2. new.request = request
    BY DEF Filled
  <2>3. i = Len(entries[c]) + 1 /\ i > 1 => entries[c] # <<>>
    BY <1>5
  <2>. HIDE DEF new
  <2>4. CASE d = c /\ i = Len(entries[c]) + 1 /\ entries'[d][i] = new /\ branches'[d] = list
    BY <2>1, <2>2, <2>3, <2>4
  <2>5. CASE i \in DOMAIN entries[d] /\ entries'[d][i] = entries[d][i] /\ branches'[d] = branches[d]
    BY <2>1, <2>5 DEF IInv, WrittenAsRequested
  <2>. QED  BY <1>9, <2>4, <2>5
<1>. QED  BY <1>6, <1>7, <1>8, <1>10, <1>11 DEF IInv

\* "Collection .. is not available in Frame".
LEMMA NotAvailableIInv ==
  ASSUME IInv, NEW c \in Categories, NEW f \in Frames, NEW request \in Requests,
         NotAvailable(c, f, request)
  PROVE  IInv'
<1>1. PICK list \in ListsFor(c, request) : Collect(c, f, list, FALSE)
  BY DEF NotAvailable
<1>2. /\ list \in Seq(Names)
      /\ stage[c] # "new" => list = collsToWrite[c]
  BY ListChosen
<1>3. stage \in [Categories -> {"new", "listed", "filled"}]
  BY DEF IInv, TypeOK
<1>4. \/ stage' = stage
      \/ stage[c] = "new" /\ format = "ttree" /\ stage' = [stage EXCEPT ![c] = "listed"]
  BY <1>3 DEF NotAvailable
<1>. QED  BY <1>1, <1>2, <1>4, RefusedKeepsIInv DEF NotAvailable, Collect

\* Two fields of one name.
LEMMA DuplicateFieldIInv ==
  ASSUME IInv, NEW c \in Categories, NEW f \in Frames, NEW request \in Requests,
         DuplicateField(c, f, request)
  PROVE  IInv'
<1>1. PICK list \in ListsFor(c, request) : Collect(c, f, list, TRUE)
  BY DEF DuplicateField
<1>2. /\ list \in Seq(Names)
      /\ stage[c] # "new" => list = collsToWrite[c]
  BY ListChosen
<1>. QED  BY <1>1, <1>2, RefusedKeepsIInv DEF DuplicateField, Collect

\* "Trying to write category .. with inconsistent collection content".
LEMMA InconsistentFrameIInv ==
  ASSUME IInv, NEW c \in Categories, NEW f \in Frames, NEW request \in Requests,
         InconsistentFrame(c, f, request)
  PROVE  IInv'
<1>1. PICK list \in ListsFor(c, request) : Collect(c, f, list, TRUE)
  BY DEF InconsistentFrame
<1>2. /\ list \in Seq(Names)
      /\ stage[c] # "new" => list = collsToWrite[c]
  BY ListChosen
<1>. QED  BY <1>1, <1>2, RefusedKeepsIInv DEF InconsistentFrame, Collect

\* The first frame that is accepted.  An RNTuple has no list yet, so that the
\* request decides; a TTree may have the list of a refused frame.
LEMMA FirstFrameIInv ==
  ASSUME IInv, NEW c \in Categories, NEW f \in Frames, NEW request \in Requests,
         FirstFrame(c, f, request)
  PROVE  IInv'
<1>1. PICK list \in ListsFor(c, request) :
        /\ Collect(c, f, list, TRUE)
        /\ branches' = [branches EXCEPT ![c] = list]
        /\ collInfo' = [collInfo EXCEPT ![c] = list]
        /\ entries' = [entries EXCEPT ![c] = Append(@, Filled(f, request, list))]
  BY DEF FirstFrame
<1>2. list \in Seq(Names) /\ (stage[c] = "new" => Elems(list) = Elems(request))
  BY ListChosen
<1>3. entries[c] = <<>> /\ (format = "rntuple" => stage[c] = "new")
  BY DEF FirstFrame, IInv, TypeOK, StagesOK
<1>4. format = "rntuple" \/ entries[c] # <<>> => Keys(request) = Keys(list)
  BY <1>2, <1>3, SameElemsSameKeys
<1>. QED  BY <1>1, <1>2, <1>4, AcceptedKeepsIInv DEF FirstFrame, Collect

\* A later frame with a consistent request.
LEMMA NextFrameIInv ==
  ASSUME IInv, NEW c \in Categories, NEW f \in Frames, NEW request \in Requests,
         NextFrame(c, f, request)
  PROVE  IInv'
<1>1. PICK list \in ListsFor(c, request) :
        /\ Collect(c, f, list, TRUE)
        /\ entries' = [entries EXCEPT ![c] = Append(@, Filled(f, request, list))]
  BY DEF NextFrame
<1>2. list \in Seq(Names) /\ list = collsToWrite[c]
  BY ListChosen DEF NextFrame
<1>3. list = branches[c] /\ list = collInfo[c] /\ stage[c] = "filled"
  BY <1>2 DEF NextFrame, IInv, StagesOK
<1>4. /\ branches' = [branches EXCEPT ![c] = list]
      /\ collInfo' = [collInfo EXCEPT ![c] = list]
      /\ stage' = [stage EXCEPT ![c] = "filled"]
  BY <1>3 DEF NextFrame, IInv, TypeOK, Lists
<1>5. DistinctKeys(request) /\ DistinctKeys(list) => Keys(request) = Keys(list)
  BY <1>2, <1>3, ConsistentKeys, WriterAssumption DEF NextFrame
<1>. QED  BY <1>1, <1>2, <1>4, <1>5, AcceptedKeepsIInv DEF NextFrame, Collect

\* finish().
LEMMA FinishIInv ==
  ASSUME IInv, Finish
  PROVE  IInv'
<1>. USE DEF Finish
<1>1. TypeOK'
  <2>1. \A c \in categories :
          [category |-> c, names |-> collInfo[c]] \in [category : Categories, names : Seq(Names)]
    BY DEF IInv, TypeOK, Lists
  <2>2. metadata' \subseteq [category : Categories, names : Seq(Names)]
    BY <2>1, Zenon
  <2>3. isOpen' \in BOOLEAN
    OBVIOUS
  <2>. QED  BY <2>2, <2>3 DEF IInv, TypeOK
<1>2. StagesOK' /\ MetadataOK'
  BY DEF IInv, StagesOK, MetadataOK
<1>3. EntriesFaithful' /\ WrittenAsRequested'
  BY EntriesUnchanged
<1>. QED  BY <1>1, <1>2, <1>3 DEF IInv

\* Steps that change nothing keep the invariant.
LEMMA StutterIInv ==
  ASSUME IInv, UNCHANGED vars
  PROVE  IInv'
<1>. USE DEF vars
<1>1. TypeOK'
  BY DEF IInv, TypeOK, Lists
<1>2. StagesOK' /\ MetadataOK'
  BY DEF IInv, StagesOK, MetadataOK
<1>3. EntriesFaithful' /\ WrittenAsRequested'
  BY EntriesUnchanged
<1>. QED  BY <1>1, <1>2, <1>3 DEF IInv

\* IInv is inductive.
LEMMA IInvStep == IInv /\ [Next]_vars => IInv'
<1>. SUFFICES ASSUME IInv, [Next]_vars PROVE IInv'
  OBVIOUS
<1>1. ASSUME NEW c \in Categories, NEW f \in Frames, NEW request \in Requests,
             Write(c, f, request)
      PROVE  IInv'
  BY <1>1, NotAvailableIInv, DuplicateFieldIInv, FirstFrameIInv,
     InconsistentFrameIInv, NextFrameIInv DEF Write
<1>2. CASE UNCHANGED vars
  BY <1>2, StutterIInv
<1>. QED  BY <1>1, <1>2, FinishIInv DEF Next

\* IInv holds throughout.
LEMMA Invariance == Spec => []IInv
<1>. QED  BY InitIInv, IInvStep, PTL DEF Spec

-----------------------------------------------------------------------------
(* The theorems.                                                           *)

\* Every variable keeps its type; no entry was filled from a collection that
\* its frame does not have.
THEOREM WriterTypeCorrect == Spec => []TypeOK
<1>1. IInv => TypeOK
  BY DEF IInv
<1>. QED  BY <1>1, Invariance, PTL

\* Under the name of a branch, every entry has the collection that its frame
\* had under this name, however the names are sorted and requested.
THEOREM EntriesAreFaithful == Spec => []EntriesFaithful
<1>1. IInv => EntriesFaithful
  BY DEF IInv
<1>. QED  BY <1>1, Invariance, PTL

\* The entries have the collections that were requested, except the first one
\* of a TTree and requests with names that differ in case only.
THEOREM EntriesAsRequested == Spec => []WrittenAsRequested
<1>1. IInv => WrittenAsRequested
  BY DEF IInv
<1>. QED  BY <1>1, Invariance, PTL

\* The collection info in the metadata of a closed file names the branches of
\* every category that has entries.
THEOREM FileIsDescribed == Spec => []FileDescribed
<1>1. ASSUME IInv PROVE FileDescribed
  <2>1. SUFFICES ASSUME NEW c \in Categories, entries[c] # <<>>
                 PROVE  /\ Elems(collInfo[c]) = Elems(branches[c])
                        /\ Len(collInfo[c]) = Len(branches[c])
                        /\ ~isOpen => [category |-> c, names |-> collInfo[c]] \in metadata
    BY DEF FileDescribed
  <2>2. collInfo[c] = branches[c] /\ c \in categories
    BY <1>1, <2>1 DEF IInv, StagesOK
  <2>. QED  BY <1>1, <2>2 DEF IInv, MetadataOK
<1>. QED  BY <1>1, Invariance, PTL

\* The layout of a category is final from its first entry on, whatever frames
\* are offered, accepted or refused afterwards.
THEOREM LayoutIsFinal == Spec => LayoutFinal
<1>1. ASSUME IInv, [Next]_vars
      PROVE  [\A c \in Categories : entries[c] # <<>> =>
                /\ collsToWrite'[c] = collsToWrite[c]
                /\ branches'[c] = branches[c]
                /\ collInfo'[c] = collInfo[c]]_vars
  <2>1. SUFFICES ASSUME NEW d \in Categories, entries[d] # <<>>, Next
                 PROVE  /\ collsToWrite'[d] = collsToWrite[d]
                        /\ branches'[d] = branches[d]
                        /\ collInfo'[d] = collInfo[d]
    BY <1>1
  <2>2. stage[d] = "filled"
    BY <1>1, <2>1 DEF IInv, StagesOK
  <2>3. ASSUME NEW c \in Categories, NEW f \in Frames, NEW request \in Requests,
               Write(c, f, request)
        PROVE  collsToWrite'[d] = collsToWrite[d]
    <3>1. PICK list \in ListsFor(c, request) : \E ok \in BOOLEAN : Collect(c, f, list, ok)
      BY <2>3 DEF Write, NotAvailable, DuplicateField, FirstFrame, InconsistentFrame, NextFrame
    <3>2. collsToWrite' = [collsToWrite EXCEPT ![c] = list] /\ collsToWrite \in Lists
      BY <1>1, <3>1 DEF Collect, IInv, TypeOK
    <3>3. c = d => list = collsToWrite[d]
      BY <1>1, <2>2, ListChosen
    <3>. QED  BY <3>2, <3>3 DEF Lists
  <2>4. ASSUME NEW c \in Categories, NEW f \in Frames, NEW request \in Requests,
               Write(c, f, request)
        PROVE  branches'[d] = branches[d] /\ collInfo'[d] = collInfo[d]
    <3>1. CASE FirstFrame(c, f, request)
      <4>1. c # d
        BY <2>2, <3>1 DEF FirstFrame
      <4>. QED  BY <1>1, <3>1, <4>1 DEF FirstFrame, IInv, TypeOK, Lists
    <3>2. CASE ~FirstFrame(c, f, request)
      BY <2>4, <3>2 DEF Write, NotAvailable, DuplicateField, InconsistentFrame, NextFrame
    <3>. QED  BY <3>1, <3>2
  <2>5. CASE Finish
    BY <2>5 DEF Finish
  <2>. QED  BY <2>1, <2>3, <2>4, <2>5 DEF Next
<1>. QED  BY <1>1, Invariance, PTL DEF Spec, LayoutFinal
-----------------------------------------------------------------------------
(* What checkConsistency says and what writeFrame does.                    *)

\* The places of a name in a list are finitely many.
LEMMA CountType ==
  ASSUME NEW s \in Seq(Names), NEW n
  PROVE  IsFiniteSet({i \in DOMAIN s : s[i] = n}) /\ Count(s, n) \in Nat
<1>1. IsFiniteSet(1 .. Len(s)) /\ DOMAIN s = 1 .. Len(s)
  BY FS_Interval, ElemsOfList
<1>2. {i \in DOMAIN s : s[i] = n} \in SUBSET (1 .. Len(s))
  BY <1>1
<1>. QED  BY <1>1, <1>2, FS_Subset, FS_CardinalityType DEF Count

\* A list that has a name has it at least once.
LEMMA CountOfElem ==
  ASSUME NEW s \in Seq(Names), NEW n
  PROVE  n \in Elems(s) <=> Count(s, n) > 0
<1>. DEFINE places == {i \in DOMAIN s : s[i] = n}
<1>1. n \in Elems(s) <=> places # {}
  BY DEF Elems
<1>2. IsFiniteSet(places) /\ Cardinality(places) \in Nat /\ Count(s, n) = Cardinality(places)
  BY CountType DEF Count
<1>. QED  BY <1>1, <1>2, FS_EmptySet

\* A list is not longer than one that has each of its names as often: the
\* places of a name in the one are mapped to its places in the other.
LEMMA NotLonger ==
  ASSUME NEW s \in Seq(Names), NEW t \in Seq(Names),
         \A n \in Elems(s) : Count(s, n) = Count(t, n)
  PROVE  Len(s) <= Len(t)
<1>. DEFINE PlacesIn(l, n) == {i \in DOMAIN l : l[i] = n}
            OfName(n) == CHOOSE f : f \in Bijection(PlacesIn(s, n), PlacesIn(t, n))
            g == [i \in DOMAIN s |-> OfName(s[i])[i]]
<1>1. ASSUME NEW n \in Elems(s) PROVE OfName(n) \in Bijection(PlacesIn(s, n), PlacesIn(t, n))
  <2>1. IsFiniteSet(PlacesIn(s, n)) /\ IsFiniteSet(PlacesIn(t, n))
    BY CountType
  <2>2. Cardinality(PlacesIn(s, n)) = Cardinality(PlacesIn(t, n))
    BY DEF Count
  <2>3. ExistsBijection(PlacesIn(s, n), PlacesIn(t, n))
    BY <2>1, <2>2, FS_SameCardinalityBij
  <2>. QED  BY <2>3 DEF ExistsBijection
<1>2. ASSUME NEW i \in DOMAIN s
      PROVE  /\ g[i] \in PlacesIn(t, s[i])
             /\ \A k \in PlacesIn(s, s[i]) :
                  OfName(s[i])[i] = OfName(s[i])[k] => i = k
  <2>1. s[i] \in Elems(s) /\ i \in PlacesIn(s, s[i])
    BY DEF Elems
  <2>2. OfName(s[i]) \in Bijection(PlacesIn(s, s[i]), PlacesIn(t, s[i]))
    BY <1>1, <2>1
  <2>3. OfName(s[i]) \in [PlacesIn(s, s[i]) -> PlacesIn(t, s[i])]
    BY <2>2, Fun_BijectionProperties
  <2>4. \A a, b \in PlacesIn(s, s[i]) : OfName(s[i])[a] = OfName(s[i])[b] => a = b
    BY <2>2, Fun_BijectionProperties
  <2>5. OfName(s[i])[i] \in PlacesIn(t, s[i])
    BY <2>1, <2>3
  <2>. HIDE DEF OfName, PlacesIn
  <2>. QED  BY <2>1, <2>4, <2>5
<1>3. g \in [DOMAIN s -> DOMAIN t]
  BY <1>2
<1>4. ASSUME NEW i \in DOMAIN s, NEW k \in DOMAIN s, g[i] = g[k] PROVE i = k
  <2>1. t[g[i]] = s[i] /\ t[g[k]] = s[k]
    BY <1>2
  <2>2. s[i] = s[k] /\ k \in PlacesIn(s, s[i])
    BY <1>4, <2>1
  <2>3. OfName(s[i])[i] = OfName(s[i])[k]
    BY <1>4, <2>2
  <2>. QED  BY <1>2, <2>2, <2>3
<1>5. g \in Injection(DOMAIN s, DOMAIN t)
  <2>. HIDE DEF g
  <2>. QED  BY <1>3, <1>4 DEF Injection, IsInjective
<1>6. /\ IsFiniteSet(DOMAIN s) /\ Cardinality(DOMAIN s) = Len(s)
      /\ IsFiniteSet(DOMAIN t) /\ Cardinality(DOMAIN t) = Len(t)
  <2>1. ASSUME NEW l \in Seq(Names) PROVE IsFiniteSet(DOMAIN l) /\ Cardinality(DOMAIN l) = Len(l)
    <3>1. DOMAIN l = 1 .. Len(l) /\ Len(l) \in Nat
      BY ElemsOfList
    <3>2. /\ IsFiniteSet(1 .. Len(l))
          /\ Cardinality(1 .. Len(l)) = IF 1 > Len(l) THEN 0 ELSE Len(l) - 1 + 1
      <4>1. Len(l) \in Int /\ 1 \in Int
        BY <3>1
      <4>. QED  BY ONLY <4>1, FS_Interval
    <3>3. (IF 1 > Len(l) THEN 0 ELSE Len(l) - 1 + 1) = Len(l)
      BY <3>1
    <3>. QED  BY <3>1, <3>2, <3>3
  <2>. QED  BY <2>1
<1>. HIDE DEF g
<1>. QED  BY <1>5, <1>6, FS_Injection DEF ExistsInjection

\* Lists of which neither has a name more often than the other have the same
\* names and are equally long.
LEMMA SameCounts ==
  ASSUME NEW s \in Seq(Names), NEW t \in Seq(Names),
         OnlyIn(s, t) = {}, OnlyIn(t, s) = {}
  PROVE  Len(s) = Len(t) /\ Elems(s) = Elems(t)
<1>1. \A n : Count(s, n) \in Nat /\ Count(t, n) \in Nat
  BY CountType
<1>2. \A n \in Elems(s) : Count(s, n) <= Count(t, n)
  BY <1>1 DEF OnlyIn
<1>3. \A n \in Elems(t) : Count(t, n) <= Count(s, n)
  BY <1>1 DEF OnlyIn
<1>4. \A n : (n \in Elems(s) <=> Count(s, n) > 0) /\ (n \in Elems(t) <=> Count(t, n) > 0)
  BY CountOfElem
<1>5. Elems(s) = Elems(t)
  BY <1>1, <1>2, <1>3, <1>4
<1>6. \A n \in Elems(s) : Count(s, n) = Count(t, n)
  BY <1>1, <1>2, <1>3, <1>5
<1>7. Len(s) <= Len(t) /\ Len(t) <= Len(s)
  BY <1>5, <1>6, NotLonger
<1>. QED  BY <1>5, <1>7, ElemsOfList

\* A request that checkConsistency finds nothing missing from and nothing
\* superfluous in is not refused as inconsistent by writeFrame: the one counts
\* the names, the other compares the lengths and looks each name up.
THEOREM QueryPredictsWrite == Spec => []CheckPredictsWrite
<1>1. ASSUME IInv PROVE CheckPredictsWrite
  <2>1. SUFFICES ASSUME NEW c \in Categories, entries[c] # <<>>, NEW request \in Requests,
                        CheckConsistency(request, c) = <<{}, {}>>
                 PROVE  Consistent(collInfo[c], request)
    BY DEF CheckPredictsWrite
  <2>2. collInfo[c] = collsToWrite[c] /\ c \in categories
    BY <1>1, <2>1 DEF IInv, StagesOK
  <2>3. collInfo[c] \in Seq(Names) /\ request \in Seq(Names)
    BY <1>1, WriterAssumption DEF IInv, TypeOK, Lists
  <2>4. OnlyIn(collInfo[c], request) = {} /\ OnlyIn(request, collInfo[c]) = {}
    BY <2>1, <2>2 DEF CheckConsistency
  <2>5. Len(collInfo[c]) = Len(request) /\ Elems(request) = Elems(collInfo[c])
    BY <2>3, <2>4, SameCounts
  <2>. QED  BY <2>5 DEF Consistent, Elems
<1>. QED  BY <1>1, Invariance, PTL
=============================================================================
