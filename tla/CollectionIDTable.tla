-------------------------- MODULE CollectionIDTable --------------------------
(***************************************************************************)
(* podio::CollectionIDTable: two parallel vectors, m_collectionIDs and     *)
(* m_names, searched linearly.  A table is a record of the two sequences.  *)
(* Every operation takes m_mutex for its whole duration, so each is one    *)
(* step of the thread that calls it; only ids() and names() read the       *)
(* vectors without the mutex.                                              *)
(***************************************************************************)
EXTENDS Integers, Sequences

CONSTANTS
  Names,   \* the collection names
  Hash     \* MurmurHash3_x86_32 of a name: the ID that add() gives to it

ASSUME HashAssumption == Hash \in [Names -> Nat]

\* std::optional without a value, for an ID and for a name.
NoID == -1
NoName == "<no name>"

ASSUME NoNameAssumption == NoName \notin Names

Tables == [ids : Seq(Nat), names : Seq(Names)]

\* Position of the first e in s, one past the end if there is none: what
\* std::distance(begin, std::ranges::find(..)) is, counted from 1.
FirstIndex(s, e) ==
  IF \E i \in DOMAIN s : s[i] = e
  THEN CHOOSE i \in DOMAIN s : s[i] = e /\ \A j \in 1..(i-1) : s[j] # e
  ELSE Len(s) + 1

\* CollectionIDTable::collectionID(name): the position is looked up in the
\* names, bounded by the size of the ids.
CollectionID(table, name) ==
  LET index == FirstIndex(table.names, name)
  IN  IF index > Len(table.ids) THEN NoID ELSE table.ids[index]

\* CollectionIDTable::name(ID): the position is looked up in the ids,
\* bounded by the size of the names.
NameOf(table, id) ==
  LET index == FirstIndex(table.ids, id)
  IN  IF index > Len(table.names) THEN NoName ELSE table.names[index]

\* CollectionIDTable::add(name): the table afterwards.  The hash of a new
\* name is not compared with the IDs that are already there.
AddName(table, name) ==
  IF \E i \in DOMAIN table.names : table.names[i] = name
  THEN table
  ELSE [ids   |-> Append(table.ids, Hash[name]),
        names |-> Append(table.names, name)]

-----------------------------------------------------------------------------
\* The vectors are parallel and name every collection once.
WellFormed(table) ==
  /\ Len(table.ids) = Len(table.names)
  /\ \A i, j \in DOMAIN table.names : table.names[i] = table.names[j] => i = j

\* No two names of the table have the same ID: true unless two names hash to
\* the same 32 bits, which add() does not detect.
IDsDistinct(table) ==
  \A i, j \in DOMAIN table.ids : table.ids[i] = table.ids[j] => i = j
=============================================================================
