------------------------------ MODULE RootWriter ------------------------------
(***************************************************************************)
(* podio::ROOTWriter (one TTree per category) and podio::RNTupleWriter     *)
(* (one RNTuple per category): which collections a category holds is       *)
(* decided once, and every later frame has to match.  The two differ in    *)
(* what tells them that a category is initialised: the pointer to the      *)
(* tree, which is set before the first frame is accepted, or the pointer   *)
(* to the RNTuple writer, which is set when it is.  One writeFrame, which  *)
(* one thread at a time may call, is one step; its exits are the actions.  *)
(***************************************************************************)
EXTENDS Naturals, Sequences, FiniteSets

CONSTANTS
  Categories,
  Names,      \* collection names
  Lower,      \* rank of a name in lower case: equal for "Hits" and "hits"
  Frames,
  Available,  \* the names getCollectionForWrite gives a collection for
  Requests,   \* collsToWrite arguments
  Formats,    \* subset of {"ttree", "rntuple"}
  MaxEntries  \* bound: frames written to one category

ASSUME WriterAssumption ==
  /\ Lower \in [Names -> Nat]
  /\ Available \in [Frames -> SUBSET Names]
  /\ Requests \subseteq Seq(Names)
  /\ Formats \subseteq {"ttree", "rntuple"}

VARIABLES
  format,
  isOpen,        \* m_file is there to be written to
  categories,    \* the keys of m_categories
  stage,         \* per category: "new", "listed" (tree without branches), "filled"
  collsToWrite,  \* CategoryInfo::collsToWrite, names in the RNTupleWriter
  branches,      \* the branches or fields of the collections, in their order
  collInfo,      \* the names in CategoryInfo::collInfo
  entries,       \* what was filled into the tree or RNTuple
  metadata       \* collInfo per category in the metadata of the closed file

vars == <<format, isOpen, categories, stage, collsToWrite, branches, collInfo,
          entries, metadata>>

Lists == [Categories -> Seq(Names)]

\* A collection of a frame, which getCollectionForWrite gives for its name.
Data == {d \in [frame : Frames, name : Names] : d.name \in Available[d.frame]}

\* An entry holds one collection per branch; the frame and the request it was
\* written for are kept for the properties only.
Entries == [frame : Frames, request : Requests, data : Seq(Data)]

Elems(s) == {s[i] : i \in DOMAIN s}
Count(s, n) == Cardinality({i \in DOMAIN s : s[i] = n})
HasDuplicates(s) == \E i, j \in DOMAIN s : i # j /\ s[i] = s[j]

\* sortAlphabeticaly: any order of names that differ in case only, since
\* std::ranges::sort is not stable.
SortedLists(s) ==
  {l \in [DOMAIN s -> Elems(s)] :
     /\ \A i, j \in DOMAIN s : i < j => Lower[l[i]] <= Lower[l[j]]
     /\ \A n \in Elems(s) : Count(l, n) = Count(s, n)}

\* checkConsistentColls: as many names, and each of them found by a binary
\* search without regard to case.
Consistent(info, request) ==
  /\ Len(info) = Len(request)
  /\ \A i \in DOMAIN request : \E j \in DOMAIN info : Lower[request[i]] = Lower[info[j]]

\* getInconsistentColls: the names that s has more often than t.
OnlyIn(s, t) == {n \in Elems(s) : Count(s, n) > Count(t, n)}

\* ROOTWriter::checkConsistency, RNTupleWriter::checkConsistency: the missing
\* and the superfluous names.
CheckConsistency(request, c) ==
  IF c \in categories
  THEN <<OnlyIn(collsToWrite[c], request), OnlyIn(request, collsToWrite[c])>>
  ELSE <<{}, Elems(request)>>
-----------------------------------------------------------------------------
Init ==
  /\ format \in Formats
  /\ isOpen = TRUE
  /\ categories = {}
  /\ stage = [c \in Categories |-> "new"]
  /\ collsToWrite = [c \in Categories |-> <<>>]
  /\ branches = [c \in Categories |-> <<>>]
  /\ collInfo = [c \in Categories |-> <<>>]
  /\ entries = [c \in Categories |-> <<>>]
  /\ metadata = {}

\* Faulty variant: the list is chosen again for every frame.
ListsFor_Always(c, request) == SortedLists(request)

\* The lists that writeFrame goes on with: that of the category if it counts
\* as initialised, the sorted request otherwise.
ListsFor(c, request) ==
  IF stage[c] = "new" THEN SortedLists(request) ELSE {collsToWrite[c]}

\* Faulty variant: a nullptr is not noticed.
Collect_Unnoticed(c, f, list, ok) ==
  /\ isOpen /\ ok
  /\ categories' = categories \cup {c}
  /\ collsToWrite' = [collsToWrite EXCEPT ![c] = list]

\* getCategoryInfo, the choice of the list, and the loop over the collections
\* of the list up to its end, which it reaches if ok.
Collect(c, f, list, ok) ==
  /\ isOpen
  /\ ok <=> Elems(list) \subseteq Available[f]
  /\ categories' = categories \cup {c}
  /\ collsToWrite' = [collsToWrite EXCEPT ![c] = list]

\* "Collection .. is not available in Frame": the tree of a new category, but
\* not the RNTuple writer, is there by then.
NotAvailable(c, f, request) ==
  /\ \E list \in ListsFor(c, request) : Collect(c, f, list, FALSE)
  /\ stage' = [stage EXCEPT ![c] =
                 IF @ = "new" /\ format = "ttree" THEN "listed" ELSE @]
  /\ UNCHANGED <<format, isOpen, branches, collInfo, entries, metadata>>

\* An RNTuple model has no two fields of the same name: createModels throws.
DuplicateField(c, f, request) ==
  /\ format = "rntuple" /\ stage[c] = "new"
  /\ \E list \in ListsFor(c, request) :
       HasDuplicates(list) /\ Collect(c, f, list, TRUE)
  /\ UNCHANGED <<format, isOpen, stage, branches, collInfo, entries, metadata>>

\* Faulty variant: the frame's collections are in the order of the request.
Filled_RequestOrder(f, request, list) ==
  [frame |-> f, request |-> request,
   data |-> [i \in DOMAIN request |-> [frame |-> f, name |-> request[i]]]]

\* The entry for a frame: branch addresses are set position by position, and
\* fields are bound by name, to the collections of the list.
Filled(f, request, list) ==
  [frame |-> f, request |-> request,
   data |-> [i \in DOMAIN list |-> [frame |-> f, name |-> list[i]]]]

\* Faulty variant: the collection info lists what was requested.
FirstFrame_InfoRequested(c, f, request) ==
  /\ stage[c] # "filled"
  /\ \E list \in ListsFor(c, request) :
       /\ format = "rntuple" => ~HasDuplicates(list)
       /\ Collect(c, f, list, TRUE)
       /\ branches' = [branches EXCEPT ![c] = list]
       /\ collInfo' = [collInfo EXCEPT ![c] = request]
       /\ entries' = [entries EXCEPT ![c] = Append(@, Filled(f, request, list))]
  /\ stage' = [stage EXCEPT ![c] = "filled"]
  /\ UNCHANGED <<format, isOpen, metadata>>

\* initBranches, or createModels and Append: the first frame of the category
\* that is accepted gives it branches and collection info.  Its request is
\* not compared with the list.
FirstFrame(c, f, request) ==
  /\ stage[c] # "filled"
  /\ \E list \in ListsFor(c, request) :
       /\ format = "rntuple" => ~HasDuplicates(list)
       /\ Collect(c, f, list, TRUE)
       /\ branches' = [branches EXCEPT ![c] = list]
       /\ collInfo' = [collInfo EXCEPT ![c] = list]
       /\ entries' = [entries EXCEPT ![c] = Append(@, Filled(f, request, list))]
  /\ stage' = [stage EXCEPT ![c] = "filled"]
  /\ UNCHANGED <<format, isOpen, metadata>>

\* "Trying to write category .. with inconsistent collection content".
InconsistentFrame(c, f, request) ==
  /\ stage[c] = "filled"
  /\ \E list \in ListsFor(c, request) : Collect(c, f, list, TRUE)
  /\ ~Consistent(collInfo[c], request)
  /\ UNCHANGED <<format, isOpen, stage, branches, collInfo, entries, metadata>>

\* Faulty variant: the request is not checked.
NextFrame_Unchecked(c, f, request) ==
  /\ stage[c] = "filled"
  /\ \E list \in ListsFor(c, request) :
       /\ Collect(c, f, list, TRUE)
       /\ entries' = [entries EXCEPT ![c] = Append(@, Filled(f, request, list))]
  /\ UNCHANGED <<format, isOpen, stage, branches, collInfo, metadata>>

\* Every later frame is filled if its request is consistent.
NextFrame(c, f, request) ==
  /\ stage[c] = "filled"
  /\ Consistent(collInfo[c], request)
  /\ \E list \in ListsFor(c, request) :
       /\ Collect(c, f, list, TRUE)
       /\ entries' = [entries EXCEPT ![c] = Append(@, Filled(f, request, list))]
  /\ UNCHANGED <<format, isOpen, stage, branches, collInfo, metadata>>

\* finish(), which the destructor calls again to no effect: the metadata has
\* every category that a frame was ever offered for.
Finish ==
  /\ isOpen
  /\ isOpen' = FALSE
  /\ metadata' = {[category |-> c, names |-> collInfo[c]] : c \in categories}
  /\ UNCHANGED <<format, categories, stage, collsToWrite, branches, collInfo, entries>>

Write(c, f, request) ==
  \/ NotAvailable(c, f, request)
  \/ DuplicateField(c, f, request)
  \/ FirstFrame(c, f, request)
  \/ InconsistentFrame(c, f, request)
  \/ NextFrame(c, f, request)

Next ==
  \/ \E c \in Categories, f \in Frames, request \in Requests :
       Len(entries[c]) < MaxEntries /\ Write(c, f, request)
  \/ Finish

Spec == Init /\ [][Next]_vars
-----------------------------------------------------------------------------
TypeOK ==
  /\ format \in Formats
  /\ isOpen \in BOOLEAN
  /\ categories \subseteq Categories
  /\ stage \in [Categories -> {"new", "listed", "filled"}]
  /\ collsToWrite \in Lists /\ branches \in Lists /\ collInfo \in Lists
  /\ entries \in [Categories -> Seq(Entries)]
  /\ metadata \subseteq [category : Categories, names : Seq(Names)]

\* Names that differ in case only count as one.
Keys(s) == {Lower[s[i]] : i \in DOMAIN s}
DistinctKeys(s) == Cardinality(Keys(s)) = Len(s)

\* A reader finds under every name of every entry the collection that the
\* frame had under this name: writeFrame fills branches by position and must
\* go through the collections in the order of the first frame.
EntriesFaithful ==
  \A c \in Categories : \A i \in DOMAIN entries[c] :
    LET e == entries[c][i]
    IN  e.data = [b \in DOMAIN branches[c] |-> [frame |-> e.frame, name |-> branches[c][b]]]

\* The collection info a reader relies on names the branches of the tree,
\* also after refused frames, and the closed file has it for every category
\* that has entries.
FileDescribed ==
  \A c \in Categories : entries[c] # <<>> =>
    /\ Elems(collInfo[c]) = Elems(branches[c]) /\ Len(collInfo[c]) = Len(branches[c])
    /\ ~isOpen => [category |-> c, names |-> collInfo[c]] \in metadata

\* What writeFrame accepts, it writes: an entry has the collections of its
\* request, up to case, if no two names of the request or of the category
\* are alike.  The first frame of a TTree is not compared with its request.
WrittenAsRequested ==
  \A c \in Categories : \A i \in DOMAIN entries[c] :
    LET request == entries[c][i].request
    IN  /\ format = "rntuple" \/ i > 1
        /\ DistinctKeys(request) /\ DistinctKeys(branches[c])
        => Keys(request) = Keys(branches[c])

\* "If both vectors are empty the category and the passed collsToWrite are
\* consistent": after checkConsistency says so, writeFrame does not refuse
\* the request as inconsistent.
CheckPredictsWrite ==
  \A c \in Categories : entries[c] # <<>> =>
    \A request \in Requests :
      CheckConsistency(request, c) = <<{}, {}>> => Consistent(collInfo[c], request)

\* From the first entry on, the layout of a category is final: neither later
\* frames nor refused ones change its list, its branches or its info.
LayoutFinal ==
  [][\A c \in Categories : entries[c] # <<>> =>
       /\ collsToWrite'[c] = collsToWrite[c]
       /\ branches'[c] = branches[c]
       /\ collInfo'[c] = collInfo[c]]_vars

\* "The contents of the first Frame that is written in this way determines
\* the contents that will be written for all subsequent Frames."
FirstWrittenDecides ==
  \A c \in Categories : entries[c] # <<>> =>
    Keys(entries[c][1].request) = Keys(branches[c])
=============================================================================
