----------------------- MODULE CollectionIDTable_proofs -----------------------
(***************************************************************************)
(* What the operations of the collection ID table return and preserve, for *)
(* every set of names and every hash function.                             *)
(***************************************************************************)
EXTENDS CollectionIDTable, TLAPS, SequenceTheorems, WellFoundedInduction

\* The library states well-foundedness of < with OpToRel, which the SMT
\* backend cannot read; this relation stands for it.
LEMMA LessThanInOpToRel ==
  ASSUME NEW x \in Nat, NEW y \in Nat, y < x
  PROVE  <<y, x>> \in OpToRel(<, Nat)
BY Zenon DEF OpToRel

\* Some well-founded relation contains the order of the natural numbers.
LEMMA WellFoundedOrder ==
  \E R : IsWellFoundedOn(R, Nat) /\ \A x, y \in Nat : y < x => <<y, x>> \in R
BY NatLessThanWellFounded, LessThanInOpToRel, Zenon

\* A set of positions that is not empty has a first one.
LEMMA LeastElement ==
  ASSUME NEW I, I \subseteq Nat, I # {}
  PROVE  \E i \in I : \A j \in I : ~(j < i)
<1>1. PICK R : IsWellFoundedOn(R, Nat) /\ \A x, y \in Nat : y < x => <<y, x>> \in R
  BY WellFoundedOrder, Zenon
<1>2. \E i \in I : \A j \in I : ~(<<j, i>> \in R)
  BY <1>1, WFMin, Zenon
<1>. QED BY <1>1, <1>2, Zenon

\* The linear search returns the first occurrence, or one past the end.
LEMMA FirstIndexProperties ==
  ASSUME NEW S, NEW s \in Seq(S), NEW e
  PROVE  /\ FirstIndex(s, e) \in 1 .. Len(s) + 1
         /\ FirstIndex(s, e) <= Len(s) => s[FirstIndex(s, e)] = e
         /\ \A j \in 1 .. FirstIndex(s, e) - 1 : s[j] # e
<1>. DEFINE I == {i \in DOMAIN s : s[i] = e}
<1>0. Len(s) \in Nat /\ DOMAIN s = 1 .. Len(s)
  BY LenProperties
<1>1. CASE I = {}
  BY <1>0, <1>1 DEF FirstIndex
<1>2. CASE I # {}
  <2>1. I \subseteq Nat
    BY <1>0
  <2>2. PICK i \in I : \A j \in I : ~(j < i)
    <3>. HIDE DEF I
    <3>. QED BY <2>1, <1>2, LeastElement
  <2>3. i \in DOMAIN s /\ s[i] = e /\ \A j \in 1 .. (i - 1) : s[j] # e
    BY <2>2, <1>0
  <2>. QED BY <2>3, <1>0 DEF FirstIndex
<1>. QED BY <1>1, <1>2

\* No other position has both properties of the first occurrence.
LEMMA FirstIndexIs ==
  ASSUME NEW S, NEW s \in Seq(S), NEW e,
         NEW i \in 1 .. Len(s), s[i] = e, \A j \in 1 .. i - 1 : s[j] # e
  PROVE  FirstIndex(s, e) = i
BY FirstIndexProperties

-----------------------------------------------------------------------------
\* The name is in m_names.
Known(table, name) == \E i \in DOMAIN table.names : table.names[i] = name

\* The lookups return an ID or nothing, a name or nothing.
LEMMA LookupType ==
  ASSUME NEW table \in Tables, NEW name, NEW id
  PROVE  /\ CollectionID(table, name) \in Nat \cup {NoID}
         /\ NameOf(table, id) \in Names \cup {NoName}
<1>1. table.ids \in Seq(Nat) /\ table.names \in Seq(Names)
  BY DEF Tables
<1>2. /\ FirstIndex(table.names, name) \in 1 .. Len(table.names) + 1
      /\ FirstIndex(table.ids, id) \in 1 .. Len(table.ids) + 1
  BY <1>1, FirstIndexProperties
<1>. QED BY <1>1, <1>2, ElementOfSeq, LenProperties DEF CollectionID, NameOf

\* A name that was found is the one of a position in the table.
LEMMA NameOfKnown ==
  ASSUME NEW table \in Tables, WellFormed(table), NEW id,
         NameOf(table, id) # NoName
  PROVE  Known(table, NameOf(table, id))
<1>1. table.ids \in Seq(Nat) /\ table.names \in Seq(Names)
  BY DEF Tables
<1>2. FirstIndex(table.ids, id) \in 1 .. Len(table.ids) + 1
  BY <1>1, FirstIndexProperties
<1>3. FirstIndex(table.ids, id) \in DOMAIN table.names
  BY <1>1, <1>2, LenProperties DEF NameOf, WellFormed
<1>. QED BY <1>1, <1>2, <1>3, LenProperties DEF NameOf, Known

\* In a table whose vectors are parallel, a known name has an ID, at the
\* first of its positions.
LEMMA KnownHasID ==
  ASSUME NEW table \in Tables, WellFormed(table), NEW name, Known(table, name)
  PROVE  /\ FirstIndex(table.names, name) \in DOMAIN table.ids
         /\ table.names[FirstIndex(table.names, name)] = name
         /\ CollectionID(table, name) = table.ids[FirstIndex(table.names, name)]
         /\ CollectionID(table, name) \in Nat
<1>1. table.ids \in Seq(Nat) /\ table.names \in Seq(Names)
  BY DEF Tables
<1>2. /\ FirstIndex(table.names, name) \in 1 .. Len(table.names) + 1
      /\ FirstIndex(table.names, name) <= Len(table.names) =>
           table.names[FirstIndex(table.names, name)] = name
      /\ \A j \in 1 .. FirstIndex(table.names, name) - 1 : table.names[j] # name
  BY <1>1, FirstIndexProperties
<1>3. FirstIndex(table.names, name) <= Len(table.names)
  BY <1>1, <1>2, LenProperties DEF Known
<1>4. Len(table.ids) = Len(table.names) /\ DOMAIN table.ids = 1 .. Len(table.ids)
  BY <1>1, LenProperties DEF WellFormed
<1>. QED BY <1>1, <1>2, <1>3, <1>4, ElementOfSeq DEF CollectionID

\* As long as IDs are distinct, the name of the ID of a known name is that
\* name: lookups by name and by ID are inverse.
LEMMA NameOfCollectionID ==
  ASSUME NEW table \in Tables, WellFormed(table), IDsDistinct(table),
         NEW name, Known(table, name)
  PROVE  NameOf(table, CollectionID(table, name)) = name
<1>. DEFINE i == FirstIndex(table.names, name)
<1>1. table.ids \in Seq(Nat) /\ Len(table.ids) = Len(table.names)
  BY DEF Tables, WellFormed
<1>2. /\ i \in DOMAIN table.ids /\ table.names[i] = name
      /\ CollectionID(table, name) = table.ids[i]
  BY KnownHasID
<1>3. DOMAIN table.ids = 1 .. Len(table.ids)
  BY <1>1, LenProperties
<1>4. FirstIndex(table.ids, table.ids[i]) = i
  <2>1. \A j \in 1 .. i - 1 : table.ids[j] # table.ids[i]
    BY <1>2, <1>3 DEF IDsDistinct
  <2>. QED BY <1>1, <1>2, <1>3, <2>1, FirstIndexIs
<1>. QED BY <1>1, <1>2, <1>3, <1>4 DEF NameOf

-----------------------------------------------------------------------------
\* add() keeps the table a table with parallel vectors and unique names, and
\* knows the name afterwards.
LEMMA AddNameWellFormed ==
  ASSUME NEW table \in Tables, NEW name \in Names
  PROVE  /\ AddName(table, name) \in Tables
         /\ WellFormed(table) => WellFormed(AddName(table, name))
         /\ Known(AddName(table, name), name)
<1>1. table.ids \in Seq(Nat) /\ table.names \in Seq(Names) /\ Hash[name] \in Nat
  BY HashAssumption DEF Tables
<1>2. CASE Known(table, name)
  BY <1>2 DEF AddName, Known
<1>3. CASE ~Known(table, name)
  <2>. DEFINE new == [ids   |-> Append(table.ids, Hash[name]),
                      names |-> Append(table.names, name)]
  <2>1. AddName(table, name) = new
    BY <1>3 DEF AddName, Known
  <2>2. /\ new.ids \in Seq(Nat) /\ Len(new.ids) = Len(table.ids) + 1
        /\ new.names \in Seq(Names) /\ Len(new.names) = Len(table.names) + 1
        /\ \A i \in 1 .. Len(table.names) : new.names[i] = table.names[i]
        /\ new.names[Len(table.names) + 1] = name
    BY <1>1, AppendProperties
  <2>3. /\ Len(table.names) \in Nat /\ DOMAIN table.names = 1 .. Len(table.names)
        /\ DOMAIN new.names = 1 .. Len(table.names) + 1
    BY <1>1, <2>2, LenProperties
  <2>4. new \in Tables
    BY <2>2 DEF Tables
  <2>5. WellFormed(table) => WellFormed(new)
    <3>1. \A i \in 1 .. Len(table.names) : table.names[i] # name
      BY <1>3, <2>3 DEF Known
    <3>. QED BY <3>1, <2>2, <2>3 DEF WellFormed
  <2>6. Known(new, name)
    BY <2>2, <2>3, SMTT(30) DEF Known
  <2>. QED BY <2>1, <2>4, <2>5, <2>6
<1>. QED BY <1>2, <1>3

\* add() does not change the ID of a name that is known already, and cannot
\* make two equal IDs distinct.
LEMMA AddNameStable ==
  ASSUME NEW table \in Tables, WellFormed(table), NEW name \in Names
  PROVE  /\ \A m : Known(table, m) =>
              /\ Known(AddName(table, name), m)
              /\ CollectionID(AddName(table, name), m) = CollectionID(table, m)
         /\ \A id : NameOf(table, id) # NoName =>
              NameOf(AddName(table, name), id) = NameOf(table, id)
         /\ IDsDistinct(AddName(table, name)) => IDsDistinct(table)
<1>1. /\ table.ids \in Seq(Nat) /\ table.names \in Seq(Names) /\ Hash[name] \in Nat
      /\ Len(table.ids) = Len(table.names)
  BY HashAssumption DEF Tables, WellFormed
<1>2. CASE Known(table, name)
  BY <1>2 DEF AddName, Known
<1>3. CASE ~Known(table, name)
  <2>. DEFINE new == [ids   |-> Append(table.ids, Hash[name]),
                      names |-> Append(table.names, name)]
              n == Len(table.names)
  <2>1. AddName(table, name) = new
    BY <1>3 DEF AddName, Known
  <2>2. /\ new.ids \in Seq(Nat) /\ Len(new.ids) = n + 1
        /\ \A i \in 1 .. n : new.ids[i] = table.ids[i]
        /\ new.names \in Seq(Names) /\ Len(new.names) = n + 1
        /\ \A i \in 1 .. n : new.names[i] = table.names[i]
    BY <1>1, AppendProperties
  <2>3. /\ n \in Nat /\ DOMAIN table.names = 1 .. n /\ DOMAIN table.ids = 1 .. n
        /\ DOMAIN new.names = 1 .. n + 1 /\ DOMAIN new.ids = 1 .. n + 1
    BY <1>1, <2>2, LenProperties
  <2>4. new \in Tables /\ WellFormed(new)
    BY <2>1, AddNameWellFormed
  <2>5. ASSUME NEW m, Known(table, m)
        PROVE  Known(new, m) /\ CollectionID(new, m) = CollectionID(table, m)
    <3>. DEFINE i == FirstIndex(table.names, m)
    <3>1. /\ i \in 1 .. n /\ table.names[i] = m
          /\ CollectionID(table, m) = table.ids[i]
          /\ \A j \in 1 .. i - 1 : table.names[j] # m
      BY <1>1, <2>3, <2>5, KnownHasID, FirstIndexProperties
    <3>2. i \in 1 .. Len(new.names) /\ new.names[i] = m
          /\ \A j \in 1 .. i - 1 : new.names[j] # m
      BY <2>2, <2>3, <3>1
    <3>3. FirstIndex(new.names, m) = i
      <4>. HIDE DEF new, i
      <4>. QED BY <2>2, <3>2, FirstIndexIs
    <3>4. Known(new, m)
      BY <2>2, <2>3, <3>2 DEF Known
    <3>5. CollectionID(new, m) = new.ids[i]
      <4>. HIDE DEF new
      <4>. QED BY <2>4, <3>3, <3>4, KnownHasID
    <3>6. new.ids[i] = table.ids[i]
      BY <2>2, <3>1
    <3>. QED BY <3>1, <3>4, <3>5, <3>6
  <2>6. ASSUME NEW id, NameOf(table, id) # NoName
        PROVE  NameOf(new, id) = NameOf(table, id)
    <3>. DEFINE i == FirstIndex(table.ids, id)
    <3>1. /\ i \in 1 .. n /\ NameOf(table, id) = table.names[i]
          /\ table.ids[i] = id /\ \A j \in 1 .. i - 1 : table.ids[j] # id
      BY <1>1, <2>3, <2>6, FirstIndexProperties DEF NameOf
    <3>2. i \in 1 .. Len(new.ids) /\ new.ids[i] = id
          /\ \A j \in 1 .. i - 1 : new.ids[j] # id
      BY <2>2, <2>3, <3>1
    <3>3. FirstIndex(new.ids, id) = i
      <4>. HIDE DEF new, i
      <4>. QED BY <2>2, <3>2, FirstIndexIs
    <3>. QED BY <2>2, <2>3, <3>1, <3>3 DEF NameOf
  <2>7. IDsDistinct(new) => IDsDistinct(table)
    BY <2>2, <2>3, SMTT(30) DEF IDsDistinct
  <2>. HIDE DEF new
  <2>. QED BY <2>1, <2>5, <2>6, <2>7
<1>. QED BY <1>2, <1>3
=============================================================================
