------------------------------ MODULE Sio_proofs ------------------------------
(***************************************************************************)
(* What is in a SIO file when its writer has ended, what its reader gives, *)
(* what podio-dump prints of a file of either kind, and what the readers   *)
(* of old files give, for any frames that were written, any classes of     *)
(* models, any entries that were asked for and any bounds of the library   *)
(* and of the file.                                                        *)
(***************************************************************************)
EXTENDS Readers_proofs

-----------------------------------------------------------------------------
(* Operators: tables of contents, models and sequences.                    *)

\* A file is smaller than what a position can hold.
FileFits == 2 * MaxWritten + 2 < PositionRange

\* The table of contents has each name once, with positions behind the header.
Recorded == Categories \cup {Sio!EDMDefinitions}
Places == 1 .. PositionRange - 1
TOCEntries == [name : Recorded, positions : Seq(Places)]
IsTOC(map) ==
  /\ map \in Seq(TOCEntries)
  /\ \A i, j \in 1 .. Len(map) : map[i].name = map[j].name => i = j

\* The least of one number.
LEMMA MinOfOne ==
  ASSUME NEW i \in Nat
  PROVE  Sio!Min({i}) = i
<1>1. PICK k : k = Sio!Min({i})
  OBVIOUS
<1>2. \E x \in {i} : \A y \in {i} : x <= y
  OBVIOUS
<1>. QED  BY <1>2 DEF Sio!Min

\* The positions of a name are those of its entry.
LEMMA PositionsAre ==
  ASSUME NEW map, IsTOC(map), NEW name
  PROVE  /\ \A i \in 1 .. Len(map) : map[i].name = name => Sio!Positions(map, name) = map[i].positions
         /\ (\A i \in 1 .. Len(map) : map[i].name # name) => Sio!Positions(map, name) = <<>>
         /\ Sio!Positions(map, name) \in Seq(Places)
<1>. DEFINE at == {i \in DOMAIN map : map[i].name = name}
<1>1. DOMAIN map = 1 .. Len(map) /\ Len(map) \in Nat /\ \A i \in 1 .. Len(map) : map[i] \in TOCEntries
  BY DEF IsTOC
<1>2. ASSUME NEW i \in 1 .. Len(map), map[i].name = name PROVE Sio!Positions(map, name) = map[i].positions
  <2>1. at = {i}
    BY <1>1, <1>2 DEF IsTOC
  <2>2. Sio!Min(at) = i
    BY <2>1, MinOfOne
  <2>3. Sio!Positions(map, name) = IF at = {} THEN <<>> ELSE map[Sio!Min(at)].positions
    BY DEF Sio!Positions
  <2>. HIDE DEF at
  <2>. QED  BY <2>1, <2>2, <2>3
<1>3. ASSUME \A i \in 1 .. Len(map) : map[i].name # name PROVE Sio!Positions(map, name) = <<>>
  <2>1. at = {}
    BY <1>1, <1>3
  <2>2. Sio!Positions(map, name) = IF at = {} THEN <<>> ELSE map[Sio!Min(at)].positions
    BY DEF Sio!Positions
  <2>. HIDE DEF at
  <2>. QED  BY <2>1, <2>2
<1>4. Sio!Positions(map, name) \in Seq(Places)
  <2>1. CASE \E i \in 1 .. Len(map) : map[i].name = name
    <3>1. PICK i \in 1 .. Len(map) : map[i].name = name
      BY <2>1
    <3>2. map[i] \in TOCEntries
      BY <1>1
    <3>3. map[i].positions \in Seq(Places)
      BY <3>2 DEF TOCEntries
    <3>. QED  BY <1>2, <3>1, <3>3
  <2>2. CASE ~ \E i \in 1 .. Len(map) : map[i].name = name
    <3>1. <<>> \in Seq(Places)
      OBVIOUS
    <3>. QED  BY <1>3, <2>2, <3>1
  <2>. QED  BY <2>1, <2>2
<1>. QED  BY <1>2, <1>3, <1>4

\* A record is added behind the others of its name.
LEMMA RecordAdded ==
  ASSUME NEW map, IsTOC(map), NEW name \in Recorded, NEW p \in Places
  PROVE  /\ IsTOC(Sio!AddRecord(map, name, p))
         /\ Sio!Positions(Sio!AddRecord(map, name, p), name) = Append(Sio!Positions(map, name), p)
         /\ \A other : other # name =>
              Sio!Positions(Sio!AddRecord(map, name, p), other) = Sio!Positions(map, other)
<1>. DEFINE S == TOCEntries
            n == Len(map)
            new == Sio!AddRecord(map, name, p)
            at == {i \in DOMAIN map : map[i].name = name}
            entry == [name |-> name, positions |-> <<p>>]
<1>1. DOMAIN map = 1 .. n /\ n \in Nat /\ map \in Seq(S) /\ \A i \in 1 .. n : map[i] \in S
  BY DEF IsTOC
<1>2. p % PositionRange = p
  BY SioAssumption DEF Places
<1>3. new = IF at = {} THEN Append(map, entry)
            ELSE [i \in DOMAIN map |-> IF i = Sio!Min(at) THEN [map[i] EXCEPT !.positions = Append(@, p)] ELSE map[i]]
  BY <1>2 DEF Sio!AddRecord
<1>4. <<p>> \in Seq(Places) /\ entry \in S
  BY DEF TOCEntries
<1>5. CASE at = {}
  <2>1. \A i \in 1 .. n : map[i].name # name
    BY <1>1, <1>5
  <2>2. new = Append(map, entry)
    BY <1>3, <1>5
  <2>. HIDE DEF S, at, entry, n, new
  <2>3. new \in Seq(S) /\ Len(new) = n + 1 /\ new[n + 1] = entry /\ \A i \in 1 .. n : new[i] = map[i]
    BY <1>1, <1>4, <2>2 DEF n
  <2>4. entry.name = name /\ entry.positions = <<p>>
    BY DEF entry
  <2>5. IsTOC(new)
    BY <1>1, <2>1, <2>3, <2>4 DEF IsTOC, S, n
  <2>6. Sio!Positions(map, name) = <<>>
    BY <2>1, PositionsAre DEF n
  <2>7. Sio!Positions(new, name) = <<p>>
    <3>1. n + 1 \in 1 .. Len(new)
      BY <1>1, <2>3
    <3>. QED  BY <2>3, <2>4, <2>5, <3>1, PositionsAre
  <2>8. ASSUME NEW other, other # name PROVE Sio!Positions(new, other) = Sio!Positions(map, other)
    <3>1. CASE \E i \in 1 .. n : map[i].name = other
      <4>1. PICK i \in 1 .. n : map[i].name = other
        BY <3>1
      <4>2. i \in 1 .. Len(new) /\ new[i] = map[i]
        BY <1>1, <2>3
      <4>. QED  BY <2>5, <4>1, <4>2, PositionsAre DEF n
    <3>2. CASE ~ \E i \in 1 .. n : map[i].name = other
      <4>1. \A i \in 1 .. Len(new) : new[i].name # other
        BY <1>1, <2>3, <2>4, <2>8, <3>2
      <4>. QED  BY <2>5, <3>2, <4>1, PositionsAre DEF n
    <3>. QED  BY <3>1, <3>2
  <2>9. Append(<<>>, p) = <<p>>
    OBVIOUS
  <2>. QED  BY <2>5, <2>6, <2>7, <2>8, <2>9 DEF new
<1>6. CASE at # {}
  <2>1. PICK k \in 1 .. n : map[k].name = name
    BY <1>1, <1>6
  <2>2. at = {k}
    BY <1>1, <2>1 DEF IsTOC
  <2>3. Sio!Min(at) = k
    BY <2>2, MinOfOne
  <2>. DEFINE e(i) == IF i = k THEN [map[i] EXCEPT !.positions = Append(@, p)] ELSE map[i]
  <2>4. new = [i \in 1 .. n |-> e(i)]
    BY <1>1, <1>3, <1>6, <2>3
  <2>5. \A i \in 1 .. n : e(i) \in S /\ e(i).name = map[i].name
        /\ e(i).positions = IF i = k THEN Append(map[i].positions, p) ELSE map[i].positions
    <3>1. ASSUME NEW m \in TOCEntries
          PROVE  LET o == [m EXCEPT !.positions = Append(@, p)]
                 IN  o \in TOCEntries /\ o.name = m.name /\ o.positions = Append(m.positions, p)
      <4>1. m = [name |-> m.name, positions |-> m.positions] /\ m.name \in Recorded /\ m.positions \in Seq(Places)
        BY DEF TOCEntries
      <4>2. Append(m.positions, p) \in Seq(Places)
        BY <4>1
      <4>3. ASSUME NEW a, NEW b, m = [name |-> a, positions |-> b]
            PROVE  [m EXCEPT !.positions = Append(@, p)] = [name |-> a, positions |-> Append(b, p)]
        BY <4>3
      <4>4. [m EXCEPT !.positions = Append(@, p)] = [name |-> m.name, positions |-> Append(m.positions, p)]
        BY <4>1, <4>3
      <4>. QED  BY <4>1, <4>2, <4>4 DEF TOCEntries
    <3>. QED  BY <1>1, <3>1
  <2>. HIDE DEF S, at, n, new, e
  <2>6. new \in Seq(S) /\ Len(new) = n /\ \A i \in 1 .. n : new[i] = e(i)
    BY <1>1, <2>4, <2>5
  <2>7. IsTOC(new)
    <3>1. \A i, j \in 1 .. Len(new) : new[i].name = new[j].name => i = j
      BY <2>5, <2>6 DEF IsTOC, n
    <3>. QED  BY <2>6, <3>1 DEF IsTOC, S
  <2>8. Sio!Positions(map, name) = map[k].positions
    BY <2>1, PositionsAre DEF n
  <2>9. Sio!Positions(new, name) = Append(map[k].positions, p)
    <3>1. new[k].name = name /\ new[k].positions = Append(map[k].positions, p) /\ k \in 1 .. Len(new)
      BY <2>1, <2>5, <2>6
    <3>. QED  BY <2>7, <3>1, PositionsAre
  <2>10. ASSUME NEW other, other # name PROVE Sio!Positions(new, other) = Sio!Positions(map, other)
    <3>1. CASE \E i \in 1 .. n : map[i].name = other
      <4>1. PICK i \in 1 .. n : map[i].name = other
        BY <3>1
      <4>2. i # k /\ i \in 1 .. Len(new) /\ new[i].name = other /\ new[i].positions = map[i].positions
        BY <2>1, <2>5, <2>6, <2>10, <4>1
      <4>. QED  BY <2>7, <4>1, <4>2, PositionsAre DEF n
    <3>2. CASE ~ \E i \in 1 .. n : map[i].name = other
      <4>1. \A i \in 1 .. Len(new) : new[i].name # other
        BY <2>5, <2>6, <3>2
      <4>. QED  BY <2>7, <3>2, <4>1, PositionsAre DEF n
    <3>. QED  BY <3>1, <3>2
  <2>. QED  BY <2>7, <2>8, <2>9, <2>10 DEF new
<1>. QED  BY <1>5, <1>6

\* A sequence, whatever its elements are.
IsSeq(s) == \E X : s \in Seq(X)

\* A sequence goes on with another one.
LEMMA Joined ==
  ASSUME NEW s, IsSeq(s), NEW t, IsSeq(t)
  PROVE  /\ IsSeq(s \o t)
         /\ Len(s \o t) = Len(s) + Len(t)
         /\ \A i \in 1 .. Len(s) : (s \o t)[i] = s[i]
         /\ \A i \in 1 .. Len(t) : (s \o t)[Len(s) + i] = t[i]
<1>1. PICK X : s \in Seq(X)
  BY DEF IsSeq
<1>2. PICK Y : t \in Seq(Y)
  BY DEF IsSeq
<1>. DEFINE Z == X \cup Y
<1>3. s \in Seq(Z) /\ t \in Seq(Z)
  <2>1. ASSUME NEW u, NEW A, NEW B, A \subseteq B, u \in Seq(A) PROVE u \in Seq(B)
    <3>1. Len(u) \in Nat /\ (\A i \in 1 .. Len(u) : u[i] \in B) /\ u = [i \in 1 .. Len(u) |-> u[i]]
      BY <2>1
    <3>. QED  BY <3>1
  <2>. QED  BY <1>1, <1>2, <2>1
<1>. HIDE DEF Z
<1>4. s \o t \in Seq(Z) /\ Len(s \o t) = Len(s) + Len(t)
      /\ (\A i \in 1 .. Len(s) : (s \o t)[i] = s[i]) /\ \A i \in 1 .. Len(t) : (s \o t)[Len(s) + i] = t[i]
  BY <1>3
<1>. QED  BY <1>4 DEF IsSeq

\* A sequence with one more element.
LEMMA Appended ==
  ASSUME NEW s, IsSeq(s), NEW e
  PROVE  /\ IsSeq(Append(s, e))
         /\ Len(s) \in Nat
         /\ Len(Append(s, e)) = Len(s) + 1
         /\ DOMAIN s = 1 .. Len(s)
         /\ DOMAIN Append(s, e) = 1 .. Len(s) + 1
         /\ \A i \in 1 .. Len(s) : Append(s, e)[i] = s[i]
         /\ Append(s, e)[Len(s) + 1] = e
<1>1. PICK X : s \in Seq(X)
  BY DEF IsSeq
<1>. DEFINE Y == X \cup {e}
<1>2. s \in Seq(Y)
  <2>1. Len(s) \in Nat /\ (\A i \in 1 .. Len(s) : s[i] \in Y) /\ s = [i \in 1 .. Len(s) |-> s[i]]
    BY <1>1
  <2>. QED  BY <2>1
<1>. HIDE DEF Y
<1>3. e \in Y
  BY DEF Y
<1>4. Append(s, e) \in Seq(Y) /\ Len(Append(s, e)) = Len(s) + 1 /\ Len(s) \in Nat /\ DOMAIN s = 1 .. Len(s)
      /\ DOMAIN Append(s, e) = 1 .. Len(s) + 1
      /\ (\A i \in 1 .. Len(s) : Append(s, e)[i] = s[i]) /\ Append(s, e)[Len(s) + 1] = e
  BY <1>2, <1>3
<1>. QED  BY <1>4 DEF IsSeq

\* Tuples are sequences.
LEMMA ShortSeqs ==
  /\ \A a : IsSeq(<<a>>)
  /\ \A a, b : IsSeq(<<a, b>>)
  /\ \A a, b, c : IsSeq(<<a, b, c>>)
<1>1. ASSUME NEW a, NEW b, NEW c
      PROVE  <<a>> \in Seq({a, b, c}) /\ <<a, b>> \in Seq({a, b, c}) /\ <<a, b, c>> \in Seq({a, b, c})
  OBVIOUS
<1>2. ASSUME NEW a PROVE IsSeq(<<a>>)
  BY <1>1 DEF IsSeq
<1>3. ASSUME NEW a, NEW b PROVE IsSeq(<<a, b>>)
  BY <1>1 DEF IsSeq
<1>4. ASSUME NEW a, NEW b, NEW c PROVE IsSeq(<<a, b, c>>)
  BY <1>1 DEF IsSeq
<1>. QED  BY <1>2, <1>3, <1>4

\* The cardinality that the instance of SioFile takes is the one of FiniteSets.
LEMMA SameCardinality ==
  ASSUME NEW S
  PROVE  Sio!Cardinality(S) = Cardinality(S)
  BY Zenon DEF Sio!Cardinality, Cardinality

\* The frames of a category.
Of(w, c) == {i \in DOMAIN w : w[i].cat = c}

\* The datamodels of the frames that were written.
ModelsOf(w) == (UNION {{Models[n] : n \in Sio!Range(w[i].names)} : i \in DOMAIN w}) \ {NoModel}

\* What one more frame adds to the frames of a category and to the datamodels.
LEMMA OneMoreWritten ==
  ASSUME NEW w, IsSeq(w), NEW e, NEW c
  PROVE  /\ IsFiniteSet(Of(w, c))
         /\ Cardinality(Of(Append(w, e), c)) = Cardinality(Of(w, c)) + (IF e.cat = c THEN 1 ELSE 0)
         /\ Cardinality(Of(w, c)) \in Nat
         /\ ModelsOf(Append(w, e)) = ModelsOf(w) \cup ({Models[n] : n \in Sio!Range(e.names)} \ {NoModel})
<1>. DEFINE u == Append(w, e)
            n == Len(w)
<1>1. n \in Nat /\ DOMAIN w = 1 .. n /\ DOMAIN u = 1 .. n + 1 /\ (\A i \in 1 .. n : u[i] = w[i]) /\ u[n + 1] = e
  BY Appended
<1>. HIDE DEF u, n
<1>2. IsFiniteSet(Of(w, c))
  <2>1. IsFiniteSet(1 .. n)
    BY <1>1, FS_Interval
  <2>. QED  BY <1>1, <2>1, FS_Subset DEF Of
<1>. DEFINE Count == Cardinality(Of(u, c)) = Cardinality(Of(w, c)) + (IF e.cat = c THEN 1 ELSE 0)
<1>6. Cardinality(Of(w, c)) \in Nat
  BY <1>2, FS_CardinalityType
<1>3. ASSUME e.cat = c PROVE Count
  <2>1. Of(u, c) = Of(w, c) \cup {n + 1} /\ n + 1 \notin Of(w, c)
    BY <1>1, <1>3 DEF Of
  <2>2. Cardinality(Of(w, c) \cup {n + 1}) = Cardinality(Of(w, c)) + 1
    BY <1>2, <2>1, FS_AddElement
  <2>. QED  BY <1>3, <2>1, <2>2
<1>4. ASSUME e.cat # c PROVE Count
  <2>1. Of(u, c) = Of(w, c)
    BY <1>1, <1>4 DEF Of
  <2>. QED  BY <1>4, <1>6, <2>1
<1>5. ModelsOf(u) = ModelsOf(w) \cup ({Models[m] : m \in Sio!Range(e.names)} \ {NoModel})
  <2>. DEFINE M(i) == {Models[m] : m \in Sio!Range(u[i].names)}
              N(i) == {Models[m] : m \in Sio!Range(w[i].names)}
              E == {Models[m] : m \in Sio!Range(e.names)}
  <2>1. (\A i \in 1 .. n : M(i) = N(i)) /\ M(n + 1) = E
    BY <1>1
  <2>2. ModelsOf(u) = (UNION {M(i) : i \in 1 .. n + 1}) \ {NoModel}
    BY <1>1 DEF ModelsOf
  <2>3. ModelsOf(w) = (UNION {N(i) : i \in 1 .. n}) \ {NoModel}
    BY <1>1 DEF ModelsOf
  <2>. HIDE DEF M, N, E
  <2>4. (UNION {M(i) : i \in 1 .. n + 1}) = (UNION {N(i) : i \in 1 .. n}) \cup E
    <3>1. 1 .. n + 1 = (1 .. n) \cup {n + 1}
      BY <1>1
    <3>. QED  BY <2>1, <3>1
  <2>5. ModelsOf(u) = ModelsOf(w) \cup (E \ {NoModel})
    BY <2>2, <2>3, <2>4
  <2>. QED  BY <2>5 DEF E
<1>. QED  BY <1>2, <1>3, <1>4, <1>5, <1>6 DEF u

-----------------------------------------------------------------------------
(* The writer and the reader of SIO files.                                 *)

\* What the writer keeps is of the frames that it wrote.
WriterInv ==
  /\ IsSeq(written) /\ Len(written) \in 0 .. MaxWritten
  /\ IsTOC(toc)
  /\ \A c \in Categories : Len(Sio!Positions(toc, c)) = Cardinality(Of(written, c))
  /\ collected = ModelsOf(written)
  /\ writer \in {"none", "open"} => Sio!Positions(toc, Sio!EDMDefinitions) = <<>>

\* Only a file that was finished has a marker, and it leads to the last records.
NoMarker(f) == IsSeq(f) /\ \A i \in 1 .. Len(f) : f[i].kind # "marker"
Finished(n, f, map, models) ==
  /\ n > 0 /\ n + 1 < PositionRange
  /\ IsSeq(f) /\ Len(f) = n + 3
  /\ f[n + 1].content = models
  /\ f[n + 2].content = map
  /\ f[n + 3].kind = "marker" /\ f[n + 3].content = n + 1
  /\ Sio!Positions(map, Sio!EDMDefinitions) = <<n>>
FileInv ==
  /\ writer = "none" => written = <<>>
  /\ writer = "open" => Len(file) = 2 * Len(written) + 1
  /\ IF writer = "closed" THEN \E n \in Nat : Finished(n, file, toc, collected) ELSE NoMarker(file)

\* A reader has what the writer had written down.
ReaderInv ==
  /\ reader # "new" <=> kind = "sio"
  /\ reader # "new" =>
       IF writer = "closed" THEN tocRecord = toc /\ holder = collected ELSE tocRecord = <<>> /\ holder = {}

\* The inductive invariant of SIO files.
SioInv == WriterInv /\ FileInv /\ ReaderInv

\* The record of the definitions is none of a category.
LEMMA NamesOfRecords ==
  /\ Categories \subseteq Recorded /\ Sio!EDMDefinitions \in Recorded
  /\ \A c \in Categories : c # Sio!EDMDefinitions
  BY SioAssumption DEF Recorded, Sio!EDMDefinitions

\* A request is a sequence, and so are the members of a finite set in some order.
LEMMA NamesAreSeq ==
  /\ \A names \in SioRequests : IsSeq(names)
  /\ \A f \in DOMAIN SioFrames : IsSeq(SetToSeq(SioFrames[f]))
<1>1. ASSUME NEW names \in SioRequests PROVE IsSeq(names)
  BY SioAssumption DEF IsSeq
<1>2. ASSUME NEW S, IsFiniteSet(S) PROVE IsSeq(SetToSeq(S))
  <2>1. Cardinality(S) \in Nat /\ \E f : f \in Bijection(1 .. Cardinality(S), S)
    BY <1>2, FS_CardinalityType DEF ExistsBijection
  <2>2. PICK f : f \in Bijection(1 .. Cardinality(S), S)
    BY <2>1
  <2>3. f \in [1 .. Cardinality(S) -> S] /\ IsInjective(f)
    BY <2>2 DEF Bijection, Injection, IsInjective
  <2>4. SetToSeq(S) \in [1 .. Cardinality(S) -> S]
    BY <2>3, Zenon DEF SetToSeq
  <2>5. SetToSeq(S) \in Seq(S)
    BY <2>1, <2>4
  <2>. HIDE DEF SetToSeq
  <2>. QED  BY <2>5 DEF IsSeq
<1>. QED  BY <1>1, <1>2, SioAssumption

\* What a reader is asked for: for an entry of the application or the next one, or
\* for one that the tool has to print.
SioAsks(c, n, names) ==
  /\ names \in SioRequests
  /\ \/ c \in Categories /\ (n \in 0 .. EntryRange - 1 \/ n = nameCtr[c])
     \/ tool = "reading" /\ toRead # <<>> /\ c = args.category /\ n = Narrowed(Head(toRead))

\* The steps that there are.
SioUntouched == UNCHANGED sioVars /\ (kind = "sio" <=> kind' = "sio")
SioWriting ==
  /\ kind = "none" /\ kind' = "none"
  /\ \/ \E path : Sio!Create(path)
     \/ Sio!CreateOther
     \/ \E c \in Categories, f \in DOMAIN SioFrames : \E names : IsSeq(names) /\ Sio!WriteFrame(c, f, names)
     \/ Sio!Finish
     \/ Sio!Crash
SioOpening == kind = "none" /\ kind' = "sio" /\ \E path : Sio!OpenFile(path)
SioReading(c, n, names) ==
  kind = "sio" /\ kind' = "sio" /\ SioAsks(c, n, names) /\ Sio!Read(c, n, names)

\* A step of the tool writes the file, opens it, reads it or leaves it alone.
LEMMA SioStep ==
  ASSUME [DumpNext]_<<readersVars, toolVars>>
  PROVE  SioUntouched \/ SioWriting \/ SioOpening \/ \E c, n, names : SioReading(c, n, names)
<1>. DEFINE Same == SioUntouched
            IsRead == \E c, n, names : SioReading(c, n, names)
<1>. USE DEF SioUntouched
<1>1. CASE UNCHANGED <<readersVars, toolVars>>
  BY <1>1 DEF readersVars, facadeVars
<1>2. ASSUME NEW l \in Lists, MakeReader(l) PROVE Same \/ SioOpening
  BY <1>2 DEF MakeReader, SioOpening
<1>3. ASSUME NEW c, NEW index, NEW n, NEW request, ReadRoot(c, index, n, request) PROVE Same
  BY <1>3 DEF ReadRoot
<1>4. ASSUME NEW c, NEW index, NEW n, NEW names, ReadSio(c, index, n, names), SioAsks(c, n, names) PROVE IsRead
  <2>1. SioReading(c, n, names)
    BY <1>4 DEF ReadSio, SioReading
  <2>. QED  BY <2>1
<1>5. ASSUME WriteSio PROVE SioWriting
  <2>. USE DEF SioWriting
  <2>1. kind = "none" /\ kind' = "none"
    BY <1>5 DEF WriteSio, facadeVars
  <2>2. CASE \E type \in {"default", "root", "rntuple", "sio"} : MakeWriter(type)
    BY <2>1, <2>2 DEF MakeWriter
  <2>3. ASSUME NEW f \in DOMAIN SioFrames, NEW c \in Categories, WriteFrame(c, f) PROVE SioWriting
    <3>1. \E names : IsSeq(names) /\ Sio!WriteFrame(c, f, names)
      BY <2>3, NamesAreSeq DEF WriteFrame
    <3>. QED  BY <2>1, <3>1
  <2>4. CASE \E f \in DOMAIN SioFrames : WriteEvent(f) \/ \E c \in Categories : WriteFrame(c, f)
    <3>. HIDE DEF SioWriting
    <3>. QED  BY <2>3, <2>4, SourceAssumption DEF WriteEvent
  <2>5. CASE Sio!Finish \/ Sio!Crash
    BY <2>1, <2>5
  <2>. HIDE DEF SioWriting
  <2>. QED  BY <1>5, <2>2, <2>4, <2>5 DEF WriteSio
<1>6. ASSUME ReadersNext PROVE Same \/ SioWriting \/ SioOpening \/ IsRead
  <2>. HIDE DEF IsRead
  <2>1. CASE LoadLibraries
    BY <2>1 DEF LoadLibraries, facadeVars
  <2>2. CASE WriteSio
    BY <1>5, <2>2
  <2>3. CASE \E l \in Lists : MakeReader(l)
    BY <1>2, <2>3
  <2>4. CASE \E c \in Categories : ReadFrame(c) \/ ReadNextFrame(c)
    <3>. DEFINE Following(c) == IF kind = "root" THEN cursor[c] ELSE nameCtr[c]
    <3>1. PICK c \in Categories : \E index, n : Read(c, index, n) /\ (n \in 0 .. EntryRange - 1 \/ n = Following(c))
      <4>1. \A index \in Numbers : Narrowed(index) \in 0 .. EntryRange - 1
        BY NumbersAssumption, NarrowedFits
      <4>. HIDE DEF SioUntouched, Same
      <4>. QED  BY <2>4, <4>1 DEF ReadFrame, ReadNextFrame
    <3>2. PICK index, n : Read(c, index, n) /\ (n \in 0 .. EntryRange - 1 \/ n = Following(c))
      BY <3>1
    <3>3. ASSUME NEW names \in SioRequests, ReadSio(c, index, n, names) PROVE SioAsks(c, n, names)
      BY <3>2, <3>3 DEF SioAsks, ReadSio
    <3>. HIDE DEF SioUntouched, Same, Following
    <3>. QED  BY <1>3, <1>4, <3>2, <3>3 DEF Read
  <2>5. CASE ReadLegacy
    BY <2>5 DEF ReadLegacy
  <2>6. CASE RunSource
    BY <2>6 DEF RunSource
  <2>. HIDE DEF Same
  <2>. QED  BY <1>6, <2>1, <2>2, <2>3, <2>4, <2>5, <2>6 DEF ReadersNext
<1>7. CASE tool = "none" /\ ReadersNext /\ UNCHANGED toolVars
  BY <1>6, <1>7
<1>8. CASE \E arguments \in Arguments : ParseArgs(arguments)
  BY <1>8 DEF ParseArgs, readersVars, facadeVars
<1>9. CASE OpenReader
  <2>1. PICK l \in Lists : MakeReader(l)
    BY <1>9 DEF OpenReader
  <2>. QED  BY <1>2, <2>1
<1>10. CASE DumpEDMDefinition
  BY <1>10 DEF DumpEDMDefinition, readersVars, facadeVars
<1>11. CASE ListEntries
  BY <1>11 DEF ListEntries, facadeVars
<1>12. CASE PrintFrame
  <2>1. SioAsks(args.category, Narrowed(Head(toRead)), <<>>)
    BY <1>12, SioAssumption DEF PrintFrame, SioAsks
  <2>. HIDE DEF SioUntouched, Same, IsRead
  <2>2. Same \/ IsRead
    BY <1>3, <1>4, <1>12, <2>1 DEF PrintFrame, ReadAll
  <2>. QED  BY <2>2 DEF Same, IsRead
<1>13. CASE EndLoop \/ CrashInStats
  BY <1>13 DEF EndLoop, CrashInStats, readersVars, facadeVars
<1>. QED  BY <1>1, <1>7, <1>8, <1>9, <1>10, <1>11, <1>12, <1>13 DEF DumpNext

\* How the writer goes on.
LEMMA SioInit == ToolInit => SioInv
<1>. SUFFICES ASSUME ToolInit PROVE SioInv
  OBVIOUS
<1>1. Sio!Init
  BY DEF ToolInit, MCInit
<1>2. file = <<>> /\ toc = <<>> /\ written = <<>> /\ collected = {} /\ writer = "none" /\ reader = "new" /\ kind = "none"
  BY <1>1 DEF Sio!Init, ToolInit, MCInit
<1>3. IsTOC(<<>>)
  BY DEF IsTOC
<1>4. \A name : Sio!Positions(<<>>, name) = <<>>
  BY <1>3, PositionsAre
<1>5. \A c : Cardinality(Of(<<>>, c)) = 0
  BY FS_EmptySet DEF Of
<1>6. ModelsOf(<<>>) = {}
  BY DEF ModelsOf
<1>7. WriterInv
  BY <1>2, <1>3, <1>4, <1>5, <1>6, SioAssumption DEF WriterInv, IsSeq
<1>8. FileInv
  BY <1>2 DEF FileInv, NoMarker, IsSeq
<1>9. ReaderInv
  BY <1>2 DEF ReaderInv
<1>. QED  BY <1>7, <1>8, <1>9 DEF SioInv

\* The writer opens a file.
LEMMA SioCreates ==
  ASSUME SioInv, kind = "none", kind' = "none", \/ \E path : Sio!Create(path)
                                                \/ Sio!CreateOther
  PROVE  SioInv'
<1>1. writer = "none" /\ written = <<>>
  BY DEF SioInv, FileInv, Sio!Create, Sio!CreateOther
<1>2. UNCHANGED <<toc, collected, written, reader, tocRecord, holder>> /\ reader = "new"
  BY DEF Sio!Create, Sio!CreateOther, Sio!readerVars, SioInv, ReaderInv
<1>3. writer' # "closed" /\ writer' # "none" /\ (writer' = "open" => Len(file') = 1) /\ NoMarker(file')
  <2>1. CASE file' = file /\ writer' = "gone"
    BY <1>1, <2>1 DEF SioInv, FileInv
  <2>2. CASE file' = <<Sio!Header>> /\ writer' = "open"
    <3>1. Sio!Header.kind # "marker"
      BY DEF Sio!Header, Sio!Record
    <3>2. Len(file') = 1 /\ file'[1] = Sio!Header /\ IsSeq(file')
      BY <2>2, ShortSeqs
    <3>. QED  BY <2>2, <3>1, <3>2 DEF NoMarker
  <2>3. CASE file' = <<Sio!Record("root", NoModel)>> /\ writer' = "root"
    <3>1. Sio!Record("root", NoModel).kind # "marker"
      BY DEF Sio!Record
    <3>2. Len(file') = 1 /\ file'[1] = Sio!Record("root", NoModel) /\ IsSeq(file')
      BY <2>3, ShortSeqs
    <3>. QED  BY <2>3, <3>1, <3>2 DEF NoMarker
  <2>. QED  BY <2>1, <2>2, <2>3 DEF Sio!Create, Sio!CreateOther
<1>4. WriterInv'
  BY <1>1, <1>2, <1>3 DEF SioInv, WriterInv
<1>5. FileInv'
  BY <1>1, <1>2, <1>3 DEF FileInv
<1>6. ReaderInv'
  BY <1>2 DEF ReaderInv
<1>. QED  BY <1>4, <1>5, <1>6 DEF SioInv

\* The writer adds a frame.
LEMMA SioWrites ==
  ASSUME SioInv, FileFits, kind = "none", kind' = "none",
         NEW c \in Categories, NEW f, NEW names, Sio!WriteFrame(c, f, names)
  PROVE  SioInv'
<1>. DEFINE n == Len(written)
            w == [cat |-> c, id |-> n + 1, names |-> names]
            table == Sio!TableRecord(c, n + 1, names)
            rec == Sio!DataRecord(c, n + 1, names)
<1>1. /\ writer = "open" /\ n < MaxWritten
      /\ file' = file \o <<table, rec>>
      /\ written' = Append(written, w)
      /\ toc' = Sio!AddRecord(toc, c, Len(file))
      /\ collected' = collected \cup Sio!RegisterDatamodelDefinitions(names)
      /\ UNCHANGED <<writer, reader, tocRecord, holder>>
  BY DEF Sio!WriteFrame, Sio!readerVars
<1>2. reader = "new"
  BY DEF SioInv, ReaderInv
<1>3. n \in Nat /\ MaxWritten \in Nat /\ Len(file) = 2 * n + 1 /\ NoMarker(file) /\ IsSeq(written)
  BY <1>1, SioAssumption DEF SioInv, WriterInv, FileInv
<1>4. Len(file) \in Places
  BY <1>1, <1>3, SioAssumption DEF Places, FileFits
<1>5. w.cat = c /\ w.names = names
  OBVIOUS
<1>6. table.kind # "marker" /\ rec.kind # "marker"
  BY DEF Sio!TableRecord, Sio!DataRecord, Sio!Record
<1>. HIDE DEF w, table, rec
<1>7. IsSeq(written') /\ Len(written') = n + 1
  BY <1>1, <1>3, Appended
<1>8. /\ IsTOC(toc')
      /\ Sio!Positions(toc', c) = Append(Sio!Positions(toc, c), Len(file))
      /\ \A other : other # c => Sio!Positions(toc', other) = Sio!Positions(toc, other)
  BY <1>1, <1>4, RecordAdded, NamesOfRecords, SMTT(30) DEF SioInv, WriterInv
<1>9. Len(Sio!Positions(toc', c)) = Len(Sio!Positions(toc, c)) + 1
  <2>1. Sio!Positions(toc, c) \in Seq(Places)
    BY PositionsAre DEF SioInv, WriterInv
  <2>. QED  BY <1>4, <1>8, <2>1
<1>10. /\ \A o \in Categories : Cardinality(Of(written', o)) = Cardinality(Of(written, o)) + (IF c = o THEN 1 ELSE 0)
       /\ \A o \in Categories : Cardinality(Of(written, o)) \in Nat
       /\ ModelsOf(written') = ModelsOf(written) \cup ({Models[m] : m \in Sio!Range(names)} \ {NoModel})
  BY <1>1, <1>3, <1>5, OneMoreWritten
<1>11. WriterInv'
  <2>1. \A o \in Categories : Len(Sio!Positions(toc', o)) = Cardinality(Of(written', o))
    BY <1>8, <1>9, <1>10 DEF SioInv, WriterInv
  <2>2. collected' = ModelsOf(written')
    BY <1>1, <1>10 DEF SioInv, WriterInv, Sio!RegisterDatamodelDefinitions
  <2>3. Sio!Positions(toc', Sio!EDMDefinitions) = <<>>
    BY <1>1, <1>8, NamesOfRecords DEF SioInv, WriterInv
  <2>. QED  BY <1>1, <1>3, <1>7, <1>8, <2>1, <2>2, <2>3 DEF WriterInv
<1>12. Len(file') = 2 * (n + 1) + 1 /\ NoMarker(file')
  <2>1. IsSeq(<<table, rec>>) /\ Len(<<table, rec>>) = 2 /\ <<table, rec>>[1] = table /\ <<table, rec>>[2] = rec
    BY ShortSeqs
  <2>. DEFINE t == <<table, rec>>
  <2>. HIDE DEF t
  <2>2. IsSeq(t) /\ Len(t) = 2 /\ \A j \in 1 .. 2 : t[j].kind # "marker"
    BY <1>6, <2>1 DEF t
  <2>3. file' = file \o t
    BY <1>1 DEF t
  <2>4. /\ IsSeq(file') /\ Len(file') = Len(file) + 2
        /\ \A i \in 1 .. Len(file) : file'[i] = file[i]
        /\ \A j \in 1 .. 2 : file'[Len(file) + j] = t[j]
    <3>1. IsSeq(file) /\ IsSeq(t)
      BY <1>3, <2>2 DEF NoMarker
    <3>2. /\ IsSeq(file \o t) /\ Len(file \o t) = Len(file) + Len(t)
          /\ \A i \in 1 .. Len(file) : (file \o t)[i] = file[i]
          /\ \A j \in 1 .. Len(t) : (file \o t)[Len(file) + j] = t[j]
      BY <3>1, Joined
    <3>. QED  BY <2>2, <2>3, <3>2
  <2>5. ASSUME NEW i \in 1 .. Len(file) + 2 PROVE file'[i].kind # "marker"
    <3>1. CASE i <= Len(file)
      <4>1. i \in 1 .. Len(file)
        BY <1>3, <3>1
      <4>. QED  BY <1>3, <2>4, <4>1 DEF NoMarker
    <3>2. CASE i > Len(file)
      <4>1. i - Len(file) \in 1 .. 2 /\ Len(file) + (i - Len(file)) = i
        BY <1>3, <3>2
      <4>. QED  BY <2>2, <2>4, <4>1
    <3>. QED  BY <1>3, <3>1, <3>2
  <2>. QED  BY <1>3, <2>4, <2>5 DEF NoMarker
<1>13. FileInv'
  BY <1>1, <1>7, <1>12 DEF FileInv
<1>14. ReaderInv'
  BY <1>1, <1>2 DEF ReaderInv
<1>. QED  BY <1>11, <1>13, <1>14 DEF SioInv

\* The writer finishes.
LEMMA SioFinishes ==
  ASSUME SioInv, FileFits, kind = "none", kind' = "none", Sio!Finish
  PROVE  SioInv'
<1>. DEFINE n == Len(file)
            map == Sio!AddRecord(toc, Sio!EDMDefinitions, n)
            d == Sio!DefinitionsRecord
            t == Sio!TOCRecord(map)
            m == Sio!Record("marker", (n + 1) % PositionRange)
<1>1. /\ writer = "open" /\ writer' = "closed"
      /\ file' = file \o <<d, t, m>>
      /\ toc' = map
      /\ UNCHANGED <<collected, written, reader, tocRecord, holder>>
  BY DEF Sio!Finish, Sio!LastRecords, Sio!readerVars
<1>2. reader = "new"
  BY DEF SioInv, ReaderInv
<1>3. n \in Nat /\ n > 0 /\ n + 1 < PositionRange /\ IsSeq(file)
  BY <1>1, SioAssumption DEF SioInv, WriterInv, FileInv, FileFits, NoMarker
<1>4. n \in Places
  BY <1>3, SioAssumption DEF Places
<1>5. d.content = collected /\ t.content = map /\ m.kind = "marker" /\ m.content = n + 1
  <2>1. (n + 1) % PositionRange = n + 1
    BY <1>3, SioAssumption
  <2>. QED  BY <2>1 DEF Sio!DefinitionsRecord, Sio!TOCRecord, Sio!Record
<1>. HIDE DEF d, t, m
<1>6. /\ IsTOC(map)
      /\ Sio!Positions(map, Sio!EDMDefinitions) = Append(Sio!Positions(toc, Sio!EDMDefinitions), n)
      /\ \A other : other # Sio!EDMDefinitions => Sio!Positions(map, other) = Sio!Positions(toc, other)
  BY <1>4, RecordAdded, NamesOfRecords DEF SioInv, WriterInv
<1>7. Sio!Positions(map, Sio!EDMDefinitions) = <<n>>
  <2>1. Sio!Positions(toc, Sio!EDMDefinitions) = <<>>
    BY <1>1 DEF SioInv, WriterInv
  <2>. QED  BY <1>6, <2>1
<1>8. WriterInv'
  BY <1>1, <1>6, NamesOfRecords DEF SioInv, WriterInv
<1>9. Finished(n, file', map, collected)
  <2>1. IsSeq(<<d, t, m>>) /\ Len(<<d, t, m>>) = 3
        /\ <<d, t, m>>[1] = d /\ <<d, t, m>>[2] = t /\ <<d, t, m>>[3] = m
    BY ShortSeqs
  <2>. DEFINE r == <<d, t, m>>
  <2>. HIDE DEF r, map, n
  <2>2. IsSeq(r) /\ Len(r) = 3 /\ r[1] = d /\ r[2] = t /\ r[3] = m
    BY <2>1 DEF r
  <2>3. file' = file \o r
    BY <1>1 DEF r
  <2>4. IsSeq(file') /\ Len(file') = n + 3 /\ \A j \in 1 .. 3 : file'[n + j] = r[j]
    <3>1. /\ IsSeq(file \o r) /\ Len(file \o r) = Len(file) + Len(r)
          /\ \A j \in 1 .. Len(r) : (file \o r)[Len(file) + j] = r[j]
      <4>1. IsSeq(file) /\ IsSeq(r)
        BY <1>3, <2>2
      <4>. QED  BY ONLY <4>1, Joined
    <3>. QED  BY <2>2, <2>3, <3>1 DEF n
  <2>5. file'[n + 1] = d /\ file'[n + 2] = t /\ file'[n + 3] = m
    BY <2>2, <2>4
  <2>. QED  BY <1>3, <1>5, <1>7, <2>4, <2>5 DEF Finished
<1>10. FileInv'
  <2>. HIDE DEF map, n
  <2>1. n \in Nat /\ Finished(n, file', toc', collected')
    BY <1>1, <1>3, <1>9
  <2>. QED  BY <1>1, <2>1 DEF FileInv
<1>11. ReaderInv'
  BY <1>1, <1>2 DEF ReaderInv
<1>. QED  BY <1>8, <1>10, <1>11 DEF SioInv

\* The writer ends early: what it leaves has no marker.
LEMMA SioCrashes ==
  ASSUME SioInv, kind = "none", kind' = "none", Sio!Crash
  PROVE  SioInv'
<1>1. /\ writer = "open" /\ writer' = "gone"
      /\ UNCHANGED <<toc, collected, written, reader, tocRecord, holder>>
  BY DEF Sio!Crash, Sio!readerVars
<1>2. reader = "new"
  BY DEF SioInv, ReaderInv
<1>3. IsSeq(file) /\ NoMarker(file) /\ Len(file) \in Nat
  BY <1>1, SioAssumption DEF SioInv, WriterInv, FileInv, NoMarker
<1>4. PICK records \in {Sio!LastRecords} \cup
         {<<Sio!TableRecord(c, Len(written) + 1, names)>> : c \in Categories, names \in SioRequests} :
         \E k \in 0 .. Len(file \o records) - 1 : file' = SubSeq(file \o records, 1, k)
  BY DEF Sio!Crash
<1>5. IsSeq(records) /\ Len(records) \in Nat /\ \A j \in 1 .. Len(records) - 1 : records[j].kind # "marker"
  <2>1. CASE records = Sio!LastRecords
    <3>. DEFINE d == Sio!DefinitionsRecord
                t == Sio!TOCRecord(Sio!AddRecord(toc, Sio!EDMDefinitions, Len(file)))
                m == Sio!Record("marker", (Len(file) + 1) % PositionRange)
    <3>1. records = <<d, t, m>>
      BY <2>1 DEF Sio!LastRecords
    <3>2. d.kind # "marker" /\ t.kind # "marker"
      BY DEF Sio!DefinitionsRecord, Sio!TOCRecord, Sio!Record
    <3>. HIDE DEF d, t, m
    <3>4. IsSeq(<<d, t, m>>)
      BY ShortSeqs
    <3>5. Len(<<d, t, m>>) = 3 /\ <<d, t, m>>[1] = d /\ <<d, t, m>>[2] = t
      OBVIOUS
    <3>3. IsSeq(records) /\ Len(records) = 3 /\ records[1] = d /\ records[2] = t
      BY <3>1, <3>4, <3>5
    <3>. QED  BY <3>2, <3>3
  <2>2. CASE records # Sio!LastRecords
    <3>1. PICK e : records = <<e>>
      BY <1>4, <2>2
    <3>2. IsSeq(<<e>>)
      BY ShortSeqs
    <3>3. Len(<<e>>) = 1
      OBVIOUS
    <3>. QED  BY <3>1, <3>2, <3>3
  <2>. QED  BY <2>1, <2>2
<1>6. PICK k \in 0 .. Len(file \o records) - 1 : file' = SubSeq(file \o records, 1, k)
  BY <1>4
<1>7. /\ IsSeq(file \o records)
      /\ Len(file \o records) = Len(file) + Len(records)
      /\ \A i \in 1 .. Len(file) : (file \o records)[i] = file[i]
      /\ \A i \in 1 .. Len(records) : (file \o records)[Len(file) + i] = records[i]
  BY <1>3, <1>5, Joined
<1>. DEFINE g == file \o records
<1>. HIDE DEF g
<1>8. IsSeq(file') /\ Len(file') = k /\ \A i \in 1 .. k : file'[i] = g[i]
  <2>1. PICK X : g \in Seq(X)
    BY <1>7 DEF IsSeq, g
  <2>2. k \in Nat /\ k <= Len(g) /\ file' = SubSeq(g, 1, k)
    BY <1>3, <1>5, <1>6, <1>7 DEF g
  <2>3. file' \in Seq(X) /\ Len(file') = k /\ \A i \in 1 .. k : file'[i] = g[i]
    BY <2>1, <2>2
  <2>. QED  BY <2>3 DEF IsSeq
<1>9. NoMarker(file')
  <2>1. ASSUME NEW i \in 1 .. k PROVE g[i].kind # "marker"
    <3>1. CASE i <= Len(file)
      <4>1. i \in 1 .. Len(file)
        BY <1>3, <1>6, <3>1
      <4>. QED  BY <1>3, <1>7, <4>1 DEF NoMarker, g
    <3>2. CASE i > Len(file)
      <4>1. i - Len(file) \in 1 .. Len(records) - 1 /\ i - Len(file) \in 1 .. Len(records)
            /\ Len(file) + (i - Len(file)) = i
        BY <1>3, <1>5, <1>6, <1>7, <3>2
      <4>2. g[i] = records[i - Len(file)]
        BY <1>7, <4>1 DEF g
      <4>. QED  BY <1>5, <4>1, <4>2
    <3>. QED  BY <1>3, <1>6, <3>1, <3>2
  <2>. QED  BY <1>8, <2>1 DEF NoMarker
<1>10. WriterInv'
  BY <1>1 DEF SioInv, WriterInv
<1>11. FileInv'
  BY <1>1, <1>9 DEF FileInv
<1>12. ReaderInv'
  BY <1>1, <1>2 DEF ReaderInv
<1>. QED  BY <1>10, <1>11, <1>12 DEF SioInv

\* A reader that finds the marker finds the table and the definitions.
LEMMA SioOpens ==
  ASSUME SioInv, kind = "none", kind' = "sio", NEW path, Sio!OpenFile(path)
  PROVE  SioInv'
<1>1. /\ writer # "open" /\ reader' = "open"
      /\ ~ Sio!Refused(path)
      /\ tocRecord' = Sio!ReadFileTOCRecord
      /\ holder' = Sio!ReadEDMDefinitions(tocRecord')
      /\ UNCHANGED <<writer, file, toc, collected, written>>
  BY DEF Sio!OpenFile
<1>2. CASE writer = "closed"
  <2>1. PICK n \in Nat : Finished(n, file, toc, collected)
    BY <1>2 DEF SioInv, FileInv
  <2>2. Sio!Last(file) = file[n + 3]
    BY <2>1 DEF Sio!Last, Finished
  <2>3. tocRecord' = toc
    BY <1>1, <2>1, <2>2 DEF Sio!ReadFileTOCRecord, Sio!ReadRecord, Finished
  <2>4. Sio!GetPosition(toc, Sio!EDMDefinitions, 0) = n
    <3>1. Sio!Positions(toc, Sio!EDMDefinitions) = <<n>>
      BY <2>1 DEF Finished
    <3>2. Len(<<n>>) = 1 /\ <<n>>[0 + 1] = n
      OBVIOUS
    <3>. QED  BY <3>1, <3>2 DEF Sio!GetPosition, Sio!GetNRecords
  <2>5. holder' = collected
    BY <1>1, <2>1, <2>3, <2>4 DEF Sio!ReadEDMDefinitions, Sio!ReadRecord, Finished
  <2>. QED  BY <1>1, <1>2, <2>3, <2>5 DEF SioInv, WriterInv, FileInv, ReaderInv
<1>3. CASE writer # "closed"
  <2>1. NoMarker(file)
    BY <1>3 DEF SioInv, FileInv
  <2>2. Len(file) \in Nat /\ 1 <= Len(file)
    <3>1. Sio!IsPrefix(<<Sio!Header>>, file)
      BY <1>1 DEF Sio!Refused
    <3>2. Len(<<Sio!Header>>) = 1
      OBVIOUS
    <3>3. Len(<<Sio!Header>>) <= Len(file)
      BY <3>1 DEF Sio!IsPrefix
    <3>4. PICK X : file \in Seq(X)
      BY <2>1 DEF NoMarker, IsSeq
    <3>. QED  BY <3>2, <3>3, <3>4
  <2>3. Sio!Last(file).kind # "marker"
    BY <2>1, <2>2 DEF Sio!Last, NoMarker
  <2>4. tocRecord' = <<>>
    BY <1>1, <2>3 DEF Sio!ReadFileTOCRecord
  <2>5. Sio!Positions(<<>>, Sio!EDMDefinitions) = <<>>
    <3>1. IsTOC(<<>>)
      BY DEF IsTOC
    <3>2. \A i \in 1 .. Len(<<>>) : <<>>[i].name # Sio!EDMDefinitions
      OBVIOUS
    <3>. QED  BY <3>1, <3>2, PositionsAre
  <2>6. holder' = {}
    BY <1>1, <2>4, <2>5 DEF Sio!ReadEDMDefinitions, Sio!GetPosition, Sio!GetNRecords
  <2>. QED  BY <1>1, <1>3, <2>4, <2>6 DEF SioInv, WriterInv, FileInv, ReaderInv
<1>. QED  BY <1>2, <1>3

\* To read a frame changes neither the file nor what the reader keeps of it.
LEMMA SioReads ==
  ASSUME SioInv, kind = "sio", kind' = "sio", NEW c, NEW n, NEW names, Sio!Read(c, n, names)
  PROVE  SioInv'
<1>1. UNCHANGED <<writer, file, toc, collected, written, tocRecord, holder>> /\ reader = "open" /\ reader' \in {"open", "gone"}
  BY DEF Sio!Read, Sio!writerVars
<1>. QED  BY <1>1 DEF SioInv, WriterInv, FileInv, ReaderInv

\* A step keeps what is said of the file.
LEMMA SioPreserved ==
  ASSUME FileFits, SioInv, [DumpNext]_<<readersVars, toolVars>>
  PROVE  SioInv'
<1>1. CASE SioUntouched
  <2>1. UNCHANGED <<writer, file, toc, collected, written, reader, tocRecord, holder>>
    BY <1>1 DEF sioVars, SioUntouched
  <2>. QED  BY <1>1, <2>1 DEF SioUntouched, SioInv, WriterInv, FileInv, ReaderInv
<1>2. CASE SioWriting
  BY <1>2, SioCreates, SioWrites, SioFinishes, SioCrashes DEF SioWriting
<1>3. CASE SioOpening
  BY <1>3, SioOpens DEF SioOpening
<1>4. CASE \E c, n, names : SioReading(c, n, names)
  BY <1>4, SioReads DEF SioReading
<1>. QED  BY <1>1, <1>2, <1>3, <1>4, SioStep

\* A finished sio file is described by its table of contents and its definitions,
\* for all frames and writers, as long as its records have positions of 32 bits
\* (SIOWriter.cc:41, SIOReader.cc:39).
THEOREM FilesDescribed == FileFits /\ DumpSpec => []SioFileDescribed
<1>1. ToolInit => SioInv
  BY SioInit
<1>2. FileFits /\ SioInv /\ [DumpNext]_<<readersVars, toolVars>> => SioInv'
  BY SioPreserved
<1>3. SioInv => SioFileDescribed
  <2>. SUFFICES ASSUME SioInv, reader = "open", writer = "closed"
                PROVE  /\ \A c \in Categories : Sio!GetNRecords(tocRecord, c)
                            = Sio!Cardinality({i \in DOMAIN written : written[i].cat = c})
                       /\ holder = (UNION {{Models[n] : n \in Sio!Range(written[i].names)} : i \in DOMAIN written}) \ {NoModel}
    BY DEF SioFileDescribed, Sio!SioFileDescribed
  <2>1. tocRecord = toc /\ holder = collected
    BY DEF SioInv, ReaderInv
  <2>2. ASSUME NEW c \in Categories
        PROVE  Sio!GetNRecords(tocRecord, c) = Sio!Cardinality({i \in DOMAIN written : written[i].cat = c})
    <3>1. Sio!GetNRecords(tocRecord, c) = Cardinality(Of(written, c))
      BY <2>1 DEF SioInv, WriterInv, Sio!GetNRecords
    <3>. QED  BY <3>1, SameCardinality DEF Of
  <2>3. holder = ModelsOf(written)
    BY <2>1 DEF SioInv, WriterInv
  <2>. QED  BY <2>2, <2>3 DEF ModelsOf
<1>4. FileFits => []FileFits
  <2>1. FileFits => FileFits'
    BY DEF FileFits
  <2>. QED  BY <2>1, PTL
<1>. QED  BY <1>1, <1>2, <1>3, <1>4, PTL DEF DumpSpec

-----------------------------------------------------------------------------
(* The entries that are asked for on the command line.                     *)

\* What a number on the command line can be, so that its range ends before the
\* largest size_t, which stands for all entries.
NumbersFit ==
  \A a \in Arguments : \A i \in DOMAIN a.entries.numbers : a.entries.numbers[i] + MaxSize < SizeRange

\* A remainder, one round further.
LEMMA RoundOnce ==
  ASSUME NEW m \in Nat \ {0}, NEW k \in Nat, k < m
  PROVE  k % m = k /\ (k + m) % m = k
<1>1. k % m = k
  OBVIOUS
<1>2. (k + m) % m = k
  <2>1. (k + m) \in Int /\ m \in Nat \ {0}
    OBVIOUS
  <2>2. \A a \in Int : a = m * (a \div m) + (a % m) /\ a % m \in 0 .. m - 1 /\ a \div m \in Int
    OBVIOUS
  <2>3. PICK q \in Int : k + m = m * q + ((k + m) % m)
    BY <2>1, <2>2
  <2>. DEFINE r == (k + m) % m
  <2>4. r \in 0 .. m - 1
    BY <2>1, <2>2
  <2>. HIDE DEF r
  <2>5. m * (q - 1) = k - r
    BY <2>3, <2>4 DEF r
  <2>6. q - 1 = 0
    <3>1. k - r < m /\ k - r > 0 - m
      BY <2>4
    <3>2. CASE q - 1 >= 1
      <4>1. m * (q - 1) >= m
        BY <3>2
      <4>. QED  BY <2>5, <3>1, <4>1, <2>4
    <3>3. CASE q - 1 <= 0 - 1
      <4>1. m * (q - 1) <= 0 - m
        BY <3>3
      <4>. QED  BY <2>5, <3>1, <4>1, <2>4
    <3>. QED  BY <3>2, <3>3
  <2>7. k - r = 0
    BY <2>5, <2>6
  <2>. QED  BY <2>4, <2>7 DEF r
<1>. QED  BY <1>1, <1>2

\* How long a range is in a size_t.
LEMMA RangeIs ==
  ASSUME MaxSize \in Nat \ {0}, SizeRange \in Nat \ {0},
         NEW first \in Nat, NEW last \in Nat, first + MaxSize < SizeRange, last + MaxSize < SizeRange
  PROVE  /\ RangeLength(first, last) \in Nat
         /\ RangeLength(first, last) <= MaxSize =>
              last - first + 1 \in 0 .. MaxSize /\ RangeLength(first, last) = last - first + 1
         /\ ~(RangeLength(first, last) <= MaxSize) => last - first + 1 \notin 0 .. MaxSize
<1>. DEFINE d == last - first + 1
            L == RangeLength(first, last)
<1>1. L = (d + SizeRange) % SizeRange
  BY DEF RangeLength
<1>2. CASE d >= 0
  <2>1. d \in Nat /\ d < SizeRange
    BY <1>2
  <2>2. L = d
    <3>. HIDE DEF L, d
    <3>. QED  BY <1>1, <2>1, RoundOnce
  <2>. QED  BY <2>1, <2>2
<1>3. CASE d < 0
  <2>1. d + SizeRange \in Nat /\ d + SizeRange < SizeRange /\ d + SizeRange > MaxSize
    BY <1>3
  <2>2. L = d + SizeRange
    <3>1. PICK k \in Nat : k = d + SizeRange
      BY <2>1
    <3>. HIDE DEF L, d
    <3>. QED  BY <1>1, <2>1, <3>1, RoundOnce
  <2>. HIDE DEF L
  <2>. QED  BY <1>3, <2>1, <2>2 DEF L
<1>. QED  BY <1>2, <1>3

\* The arguments are natural numbers that fit.
LEMMA ArgumentsType ==
  ASSUME NumbersFit, NEW a \in Arguments
  PROVE  /\ a.category \in Categories
         /\ a.entries.form \in {"all", "list", "range", "other"}
         /\ a.entries.numbers \in Seq(Nat)
         /\ \A i \in 1 .. Len(a.entries.numbers) : a.entries.numbers[i] \in Nat /\ a.entries.numbers[i] + MaxSize < SizeRange
         /\ a.entries.form = "range" => Len(a.entries.numbers) = 2
<1>1. a.entries.numbers \in Seq(0 .. SizeRange - 1)
  BY ArgumentsAssumption
<1>2. a.entries.numbers \in Seq(Nat) /\ \A i \in 1 .. Len(a.entries.numbers) : a.entries.numbers[i] \in Nat
  <2>1. PICK s : s = a.entries.numbers
    OBVIOUS
  <2>. QED  BY <1>1, <2>1, ArgumentNumbers
<1>3. DOMAIN a.entries.numbers = 1 .. Len(a.entries.numbers)
  BY <1>2
<1>. QED  BY <1>2, <1>3, ArgumentsAssumption DEF NumbersFit

\* What the tool goes through is what it was asked for.
LEMMA ListIsAsked ==
  ASSUME NumbersFit, args \in Arguments, args.entries.form # "other", CanHold(args.entries),
         Entries(args.category) \in Nat
  PROVE  /\ FullEntryList(ParseEventRange(args.entries), args.category) = Asked
         /\ Asked \in Seq(Nat)
<1>. DEFINE numbers == args.entries.numbers
            k == Entries(args.category)
            events == ParseEventRange(args.entries)
<1>1. /\ numbers \in Seq(Nat) /\ MaxSize \in Nat \ {0} /\ SizeRange \in Nat \ {0}
      /\ \A i \in 1 .. Len(numbers) : numbers[i] \in Nat /\ numbers[i] + MaxSize < SizeRange
      /\ args.entries.form = "range" => Len(numbers) = 2
      /\ args.entries.form \in {"all", "list", "range"}
  BY ArgumentsType, ArgumentsAssumption
<1>2. FullEntryList(events, args.category) = IF events = <<Tombstone>> THEN [i \in 1 .. k |-> i - 1] ELSE events
  BY DEF FullEntryList
<1>. HIDE DEF k, numbers, events
<1>3. k \in Nat
  BY DEF k
<1>4. CASE args.entries.form = "all"
  <2>1. events = <<Tombstone>>
    BY <1>4 DEF ParseEventRange, events
  <2>2. Asked = [i \in 1 .. k |-> i - 1]
    BY <1>4 DEF Asked, k
  <2>3. [i \in 1 .. k |-> i - 1] \in Seq(Nat)
    <3>1. \A i \in 1 .. k : i - 1 \in Nat
      BY <1>3
    <3>. QED  BY <1>3, <3>1
  <2>. QED  BY <1>2, <2>1, <2>2, <2>3 DEF events
<1>5. CASE args.entries.form = "list"
  <2>1. events = numbers /\ Asked = numbers
    BY <1>5 DEF ParseEventRange, Asked, events, numbers
  <2>2. numbers # <<Tombstone>>
    <3>. SUFFICES ASSUME numbers = <<Tombstone>> PROVE FALSE
      OBVIOUS
    <3>1. Len(numbers) = 1 /\ numbers[1] = Tombstone
      OBVIOUS
    <3>2. Tombstone + MaxSize < SizeRange
      BY <1>1, <3>1
    <3>. QED  BY <1>1, <3>2 DEF Tombstone
  <2>. QED  BY <1>1, <1>2, <2>1, <2>2 DEF events
<1>6. CASE args.entries.form = "range"
  <2>. DEFINE first == numbers[1]
              last == numbers[2]
              L == RangeLength(first, last)
  <2>1. first \in Nat /\ last \in Nat /\ first + MaxSize < SizeRange /\ last + MaxSize < SizeRange
    <3>0. Len(numbers) = 2
      BY <1>1, <1>6
    <3>1. 1 \in 1 .. Len(numbers) /\ 2 \in 1 .. Len(numbers)
      BY <3>0
    <3>. QED  BY <1>1, <3>1
  <2>2. L <= MaxSize
    BY <1>6 DEF CanHold, numbers
  <2>3. events = [i \in 1 .. L |-> first + i - 1]
    BY <1>6 DEF ParseEventRange, events, numbers
  <2>4. Asked = [i \in 1 .. last - first + 1 |-> first + i - 1]
    BY <1>6 DEF Asked, numbers
  <2>. HIDE DEF first, last
  <2>5. L \in Nat /\ L = last - first + 1
    BY <1>1, <2>1, <2>2, RangeIs
  <2>. HIDE DEF L
  <2>6. events = Asked
    BY <2>3, <2>4, <2>5
  <2>7. events \in Seq(Nat) /\ Len(events) = L /\ \A i \in 1 .. L : events[i] = first + i - 1
    <3>1. \A i \in 1 .. L : first + i - 1 \in Nat
      BY <2>1, <2>5
    <3>. QED  BY <2>3, <2>5, <3>1
  <2>8. events # <<Tombstone>>
    <3>. SUFFICES ASSUME events = <<Tombstone>> PROVE FALSE
      OBVIOUS
    <3>1. Len(events) = 1 /\ events[1] = Tombstone
      OBVIOUS
    <3>2. first + 1 - 1 = Tombstone
      BY <2>7, <3>1
    <3>. QED  BY <1>1, <2>1, <3>2 DEF Tombstone
  <2>. QED  BY <1>2, <2>6, <2>7, <2>8 DEF events
<1>. QED  BY <1>1, <1>4, <1>5, <1>6

-----------------------------------------------------------------------------
(* What the tool keeps while it prints, and how frames are read for it.    *)

\* The table of contents of a reader has places.
LEMMA TocIsRead == SioInv /\ kind = "sio" => IsTOC(tocRecord)
<1>. SUFFICES ASSUME SioInv, kind = "sio" PROVE IsTOC(tocRecord)
  OBVIOUS
<1>1. tocRecord = toc \/ tocRecord = <<>>
  BY DEF SioInv, ReaderInv
<1>2. IsTOC(<<>>)
  BY DEF IsTOC
<1>. QED  BY <1>1, <1>2 DEF SioInv, WriterInv

\* The readers count their entries.
LEMMA EntriesType ==
  ASSUME ReadInv, SioInv, NEW c \in Categories
  PROVE  Entries(c) \in Nat
<1>1. CASE kind \in {"root", "source"}
  BY <1>1, CountedAreStored DEF Entries, ReadInv
<1>2. CASE kind = "sio"
  <2>1. Sio!Positions(tocRecord, c) \in Seq(Places)
    BY <1>2, TocIsRead, PositionsAre
  <2>2. Len(Sio!Positions(tocRecord, c)) \in Nat
    BY <2>1
  <2>. QED  BY <1>2, <2>2 DEF Entries, Sio!GetNRecords
<1>. QED  BY <1>1, <1>2 DEF Entries

\* No reader has more of them than an unsigned can count.
LEMMA EntriesFit ==
  ASSUME ReadInv, SioInv, NEW c \in Categories
  PROVE  Entries(c) < EntryRange
<1>1. EntryRange \in Nat \ {0}
  BY EntryRangeAssumption
<1>2. CASE kind \in {"root", "source"}
  BY <1>2, CountFits DEF Entries, ReadInv
<1>3. CASE kind = "sio"
  <2>1. Len(Sio!Positions(toc, c)) = Cardinality(Of(written, c)) /\ IsSeq(written) /\ Len(written) \in 0 .. MaxWritten
    BY DEF SioInv, WriterInv
  <2>2. Cardinality(Of(written, c)) <= Len(written)
    <3>1. IsFiniteSet(1 .. Len(written)) /\ Cardinality(1 .. Len(written)) = Len(written)
      <4>1. PICK k : k = Len(written) /\ k \in Nat
        BY <2>1, SioAssumption
      <4>2. IsFiniteSet(1 .. k) /\ Cardinality(1 .. k) = IF 1 > k THEN 0 ELSE k - 1 + 1
        <5>1. 1 \in Int /\ k \in Int
          BY <4>1
        <5>. QED  BY <5>1, FS_Interval
      <4>. QED  BY <4>1, <4>2
    <3>2. Of(written, c) \subseteq 1 .. Len(written)
      BY <2>1 DEF Of, IsSeq
    <3>. QED  BY <3>1, <3>2, FS_Subset
  <2>3. Cardinality(Of(written, c)) < EntryRange
    <3>1. Len(written) < EntryRange /\ Len(written) \in Nat
      BY <1>1, <2>1, SioAssumption
    <3>2. Cardinality(Of(written, c)) \in Nat
      BY <2>1, OneMoreWritten
    <3>. QED  BY <1>1, <2>2, <3>1, <3>2
  <2>4. tocRecord = toc \/ tocRecord = <<>>
    BY <1>3 DEF SioInv, ReaderInv
  <2>5. Sio!Positions(<<>>, c) = <<>>
    <3>1. IsTOC(<<>>)
      BY DEF IsTOC
    <3>2. \A i \in 1 .. Len(<<>>) : <<>>[i].name # c
      OBVIOUS
    <3>. QED  BY <3>1, <3>2, PositionsAre
  <2>6. Len(<<>>) = 0
    OBVIOUS
  <2>. QED  BY <1>1, <1>3, <2>1, <2>3, <2>4, <2>5, <2>6 DEF Entries, Sio!GetNRecords
<1>. QED  BY <1>1, <1>2, <1>3 DEF Entries

\* The number that a reader is given for an index.
Numbered(index, n) == index \in Nat /\ n \in Nat /\ (n = index \/ n = Narrowed(index))

\* An index that is narrowed is a number.
LEMMA NarrowedType ==
  ASSUME NEW index \in Nat
  PROVE  Narrowed(index) \in Nat
<1>1. \A x \in 0 .. EntryRange - 1 : x \in Nat
  BY EntryRangeAssumption
<1>. QED  BY <1>1, NarrowedFits

\* It is below some number of entries when the index is, or is that of another index
\* when this does not fit.
LEMMA NumberedFits ==
  ASSUME NEW index, NEW n, Numbered(index, n), NEW k \in Nat, k < EntryRange
  PROVE  /\ n < k => index < k \/ index >= EntryRange
         /\ ~(n < k) => ~(index < k)
<1>1. index \in Nat /\ n \in Nat /\ (n = index \/ n = index % EntryRange) /\ EntryRange \in Nat \ {0}
  BY EntryRangeAssumption DEF Numbered, Narrowed
<1>2. CASE index < EntryRange
  <2>1. index % EntryRange = index
    BY <1>1, <1>2, RoundOnce
  <2>. QED  BY <1>1, <2>1
<1>3. CASE ~(index < EntryRange)
  BY <1>1, <1>3
<1>. QED  BY <1>2, <1>3

\* They are those of the files that are open.
LEMMA EntriesKept ==
  ASSUME UNCHANGED <<kind, session, totalEntries, tocRecord>>, NEW c
  PROVE  Entries(c)' = Entries(c)
<1>1. TreeEntries(c)' = TreeEntries(c)
  BY DEF TreeEntries, FileOf
<1>2. GetEntries(c)' = GetEntries(c)
  BY <1>1, SameFiles DEF GetEntries
<1>. QED  BY <1>2 DEF Entries

\* A reader gives a frame below its entries and nothing beyond them, unless a collection
\* is missing that was asked for.
GivesBelow(c, n, limited, status) ==
  /\ status = "frame" => n < Entries(c)
  /\ status = "null" => ~(n < Entries(c))
  /\ status \notin {"frame", "null"} => limited /\ n < Entries(c)

\* A reader of ROOT files gives no frame beyond its entries, and one for each entry
\* unless collections were asked for that are not there.
LEMMA RootGives ==
  ASSUME ReadInv, kind = "root", NEW c \in Categories, NEW n \in Nat, NEW request, Reads(c, n, request)
  PROVE  GivesBelow(c, n, request # {}, result'.status)
<1>1. session # Closed /\ Entries(c) = GetEntries(c) /\ GetEntries(c) \in Nat
  BY CountedAreStored DEF Entries, ReadInv
<1>2. \A classes : Missing(request, classes) => request # {}
  BY DEF Missing
<1>3. Null.status = "null" /\ Thrown.status = "throw"
  BY DEF Null, Thrown, NoResult
<1>4. CASE c \notin AvailableCategories
  <2>1. GetEntries(c) = 0
    BY <1>4 DEF GetEntries
  <2>2. result' = Null
    BY <1>4 DEF Reads, ReadTree, ReadTuple
  <2>. QED  BY <1>1, <1>3, <2>1, <2>2 DEF GivesBelow
<1>5. CASE c \in AvailableCategories /\ ReadTree(c, n, request)
  <2>1. CASE n >= GetEntries(c) /\ result' = Null
    BY <1>1, <1>3, <2>1 DEF GivesBelow
  <2>2. CASE n < GetEntries(c) /\ Missing(request, InitCategory(c).stored) /\ result' = Thrown
    BY <1>1, <1>2, <1>3, <2>2 DEF GivesBelow
  <2>3. CASE n < GetEntries(c) /\ result' = TreeFrame(c, LoadBranches(c, InitCategory(c), n, request), n, request)
    <3>1. result'.status = "frame"
      BY <2>3 DEF TreeFrame
    <3>. QED  BY <1>1, <2>3, <3>1 DEF GivesBelow
  <2>. QED  BY <1>5, <2>1, <2>2, <2>3 DEF ReadTree
<1>6. CASE c \in AvailableCategories /\ ReadTuple(c, n, request)
  <2>1. totalEntries[c] = GetEntries(c)
    BY <1>1, <1>6 DEF GetEntries, ReadTuple
  <2>2. CASE n >= totalEntries[c] /\ result' = Null
    BY <1>1, <1>3, <2>1, <2>2 DEF GivesBelow
  <2>3. CASE n < totalEntries[c] /\ Missing(request, stored'[c]) /\ result' = Thrown
    BY <1>1, <1>2, <1>3, <2>1, <2>3 DEF GivesBelow
  <2>4. CASE n < totalEntries[c] /\ result' = TupleFrame(c, stored'[c], n, request)
    <3>1. result'.status = "frame"
      BY <2>4 DEF TupleFrame
    <3>. QED  BY <1>1, <2>1, <2>4, <3>1 DEF GivesBelow
  <2>. QED  BY <1>6, <2>2, <2>3, <2>4 DEF ReadTuple
<1>. QED  BY <1>4, <1>5, <1>6 DEF Reads

\* The same of the reader of SIO files.
LEMMA SioGives ==
  ASSUME SioInv, kind = "sio", NEW c, NEW n \in Nat, NEW names, Sio!Read(c, n, names), reader' # "gone"
  PROVE  GivesBelow(c, n, Range(names) # {}, frameData'.status)
<1>. DEFINE s == Sio!Positions(tocRecord, c)
            p == Sio!GetPosition(tocRecord, c, n)
            fd == Sio!FrameData(Sio!ReadRecord(p), Sio!ReadRecord(p + 1), names)
<1>1. s \in Seq(Places) /\ Len(s) \in Nat /\ \A i \in 1 .. Len(s) : s[i] # 0
  <2>1. s \in Seq(Places)
    BY TocIsRead, PositionsAre
  <2>. HIDE DEF s
  <2>2. Len(s) \in Nat /\ \A i \in 1 .. Len(s) : s[i] \in Places
    BY <2>1
  <2>3. 0 \notin Places
    BY DEF Places
  <2>. QED  BY <2>1, <2>2, <2>3
<1>2. Entries(c) = Len(s)
  BY DEF Entries, Sio!GetNRecords
<1>3. p = IF n < Len(s) THEN s[n + 1] ELSE 0
  BY DEF Sio!GetPosition, Sio!GetNRecords
<1>. HIDE DEF s
<1>4. p # 0 <=> n < Len(s)
  <2>. HIDE DEF p
  <2>1. n < Len(s) => n + 1 \in 1 .. Len(s)
    BY <1>1
  <2>. QED  BY <1>1, <1>3, <2>1
<1>5. \/ p = 0 /\ frameData' = Sio!Null
      \/ p # 0 /\ frameData' = fd
  BY DEF Sio!Read
<1>6. Sio!Null.status = "null"
  BY DEF Sio!Null
<1>7. fd.status = "frame" \/ (fd.status = "throw" /\ Range(names) # {})
  <2>1. Sio!Range(names) = Range(names)
    BY DEF Sio!Range, Range
  <2>2. CASE Sio!Range(names) \subseteq Sio!Range(Sio!ReadRecord(p).names)
    BY <2>2 DEF Sio!FrameData
  <2>3. CASE ~(Sio!Range(names) \subseteq Sio!Range(Sio!ReadRecord(p).names))
    <3>1. fd = Sio!Thrown
      BY <2>3 DEF Sio!FrameData
    <3>2. Range(names) # {}
      BY <2>1, <2>3
    <3>. QED  BY <3>1, <3>2 DEF Sio!Thrown
  <2>. QED  BY <2>2, <2>3
<1>. HIDE DEF p, fd
<1>. QED  BY <1>2, <1>4, <1>5, <1>6, <1>7 DEF GivesBelow

\* The names that are stored for a category.
NamesOf(c) == {x.name : x \in Range(StoredClasses(c))}

\* A frame of TTrees has none but those.
LEMMA TreeNames ==
  ASSUME ReadInv, NEW c \in Categories, NEW n \in Nat, NEW request, ReadTree(c, n, request), result'.status = "frame"
  PROVE  result'.colls \subseteq NamesOf(c)
<1>1. Null.status # "frame" /\ Thrown.status # "frame"
  BY DEF Null, Thrown, NoResult
<1>2. session.format = "ttree" /\ c \in AvailableCategories /\ n < GetEntries(c)
      /\ result' = TreeFrame(c, LoadBranches(c, InitCategory(c), n, request), n, request)
  BY <1>1 DEF ReadTree
<1>3. session # Closed
  BY <1>2 DEF Closed
<1>4. session \in Sessions /\ FilesOpen
  BY <1>3, OpenSession DEF ReadInv
<1>5. PICK j : j = InitCategory(c) /\ LookedUp(c, j)
  BY <1>2, InitLooksUp
<1>6. PICK info : info = LoadBranches(c, j, n, request)
  OBVIOUS
<1>7. LookedUp(c, info)
  <2>1. PICK t : t = TreeOf(c, n)
    OBVIOUS
  <2>2. t \in DOMAIN session.files
    BY <1>2, <2>1, TreeThere
  <2>. QED  BY <1>2, <1>4, <1>5, <1>6, <2>1, <2>2, LoadsTree
<1>8. info.stored = StoredClasses(c)
  BY <1>7 DEF LookedUp
<1>9. result'.colls = {info.stored[i].name :
         i \in {i \in DOMAIN info.stored : /\ Wanted(request, info.stored[i]) /\ Creatable(info.stored[i])
                                           /\ 0 \notin Range(info.branches[i])}}
  BY <1>2, <1>5, <1>6 DEF TreeFrame
<1>. QED  BY <1>8, <1>9 DEF NamesOf, Range

\* What is stored for a category is known once it was looked at, and found then.
LEMMA InitStored ==
  ASSUME ReadInv, NEW c \in Categories, c \in AvailableCategories, session.format = "ttree"
  PROVE  InitCategory(c).stored = StoredClasses(c)
<1>1. PICK j : j = InitCategory(c) /\ LookedUp(c, j)
  BY InitLooksUp
<1>2. j.stored = StoredClasses(c)
  BY <1>1 DEF LookedUp
<1>. QED  BY <1>1, <1>2

\* The process ends in a call only for types that nobody describes.
LEMMA CrashDescribed ==
  ASSUME ReadInv, session.format = "ttree", NEW c \in Categories, NEW n, TreeCrashes(c, n, {})
  PROVE  ~Described(c)
<1>. DEFINE S == StoredClasses(c)
<1>1. c \in AvailableCategories
  BY DEF TreeCrashes
<1>2. InitCategory(c).stored = S
  BY <1>1, InitStored
<1>3. CASE InitCrashes(c)
  <2>1. Version <= 2 /\ ~({x.type : x \in Range(S)} \subseteq Classes)
    BY <1>3 DEF InitCrashes
  <2>2. PICK x \in Range(S) : x.type \notin Classes
    BY <2>1
  <2>. HIDE DEF Version
  <2>. QED  BY <2>1, <2>2 DEF Described
<1>4. CASE ReadCrashes(c, n, {})
  <2>1. PICK info : info = LoadBranches(c, InitCategory(c), n, {})
    OBVIOUS
  <2>2. info.stored = InitCategory(c).stored
    <3>1. PICK j : j = InitCategory(c) /\ LookedUp(c, j)
      BY <1>1, InitLooksUp
    <3>2. j = [stored |-> StoredClasses(c), tree |-> j.tree, branches |-> j.branches]
      BY <3>1 DEF LookedUp
    <3>3. \A a, b : [j EXCEPT !.tree = a, !.branches = b].stored = j.stored
      BY <3>2
    <3>. QED  BY <2>1, <3>1, <3>3 DEF LoadBranches
  <2>3. PICK i \in DOMAIN info.stored : Creatable(info.stored[i]) /\ PastBranches(info.stored[i])
    BY <1>4, <2>1 DEF ReadCrashes
  <2>4. PICK x : x = S[i] /\ x \in Range(S) /\ Creatable(x) /\ PastBranches(x)
    BY <1>2, <2>2, <2>3 DEF Range
  <2>. HIDE DEF S
  <2>. QED  BY <2>4 DEF Described, S
<1>. QED  BY <1>3, <1>4 DEF TreeCrashes

\* Of the category that is dumped: how many entries it has, the stored names, and
\* those among them that are cut for the statistics.
Count == Entries(args.category)
StoredNames == NamesOf(args.category)
CutStored == {x.name : x \in {y \in Range(StoredClasses(args.category)) : y.subset /\ Version <= 2}}

\* They are of the open files and the arguments only.
LEMMA CountKept ==
  ASSUME UNCHANGED <<args, kind, session, totalEntries, tocRecord>>
  PROVE  /\ Count' = Count
         /\ Asked' = Asked
         /\ StoredNames' = StoredNames
         /\ CutStored' = CutStored
         /\ StatsAsked' <=> StatsAsked
         /\ AvailableCategories' = AvailableCategories
<1>1. Count' = Count
  BY DEF Count, Entries, GetEntries, TreeEntries, AvailableCategories, FileOf, Sio!GetNRecords, Sio!Positions
<1>2. Asked = CASE args.entries.form = "all"   -> [i \in 1 .. Count |-> i - 1]
                [] args.entries.form = "range" ->
                     [i \in 1 .. args.entries.numbers[2] - args.entries.numbers[1] + 1 |-> args.entries.numbers[1] + i - 1]
                [] OTHER -> args.entries.numbers
  BY DEF Asked, Count
<1>3. (Asked = CASE args.entries.form = "all"   -> [i \in 1 .. Count |-> i - 1]
                 [] args.entries.form = "range" ->
                      [i \in 1 .. args.entries.numbers[2] - args.entries.numbers[1] + 1 |-> args.entries.numbers[1] + i - 1]
                 [] OTHER -> args.entries.numbers)'
  BY DEF Asked, Count
<1>4. Asked' = Asked
  BY <1>1, <1>2, <1>3
<1>5. AvailableCategories' = AvailableCategories /\ (StatsAsked' <=> StatsAsked)
  BY SameFiles DEF StatsAsked
<1>6. StoredNames' = StoredNames
  BY DEF StoredNames, NamesOf, StoredClasses, FileOf, Version, Range
<1>7. CutStored' = CutStored
  BY DEF CutStored, StoredClasses, FileOf, Version, Range
<1>. QED  BY <1>1, <1>4, <1>5, <1>6, <1>7

\* What the tool promises, with these: why it may end otherwise.
Unheld == args.entries.form = "range"
          /\ args.entries.numbers[2] - args.entries.numbers[1] + 1 \notin 0 .. MaxSize
Excused ==
  \/ kind = "refused" \/ reader = "gone"
  \/ session.format = "ttree" /\ ~Described(args.category)
  \/ StatsAsked /\ (StatsCrash(args.category) \/ CutStored # {})
DumpedSafe ==
  /\ \A n \in Range(printed) : n < Count \/ n >= EntryRange
  /\ tool = "ok" /\ args.model = None => printed = Asked
  /\ tool = "failed" /\ args.entries.form # "other" /\ args.model = None =>
       /\ IsPrefix(printed, Asked) /\ printed # Asked
       /\ ~(Asked[Len(printed) + 1] < Count)
  /\ tool = "aborted" => Unheld \/ Excused

\* The names that the statistics cut are those of what is stored.
LEMMA CutAre ==
  ASSUME ReadInv, StatsAsked, args.category \in Categories
  PROVE  CutNames(args.category) = CutStored /\ StatNames(args.category) = StoredNames \ CutStored
<1>1. InitCategory(args.category).stored = StoredClasses(args.category)
  BY InitStored DEF StatsAsked
<1>2. CutNames(args.category) = CutStored
  BY <1>1 DEF CutNames, CutStored
<1>3. StatNames(args.category) = StoredNames \ CutStored
  BY <1>1, <1>2 DEF StatNames, StoredNames, NamesOf
<1>. QED  BY <1>2, <1>3

\* It is what DumpedAsAsked says.
LEMMA DumpedIs ==
  ASSUME ReadInv, tool = "none" \/ args \in Arguments, DumpedSafe
  PROVE  DumpedAsAsked
<1>1. tool = "aborted" /\ StatsAsked => CutNames(args.category) = CutStored
  BY CutAre, ArgumentsAssumption
<1>. QED  BY <1>1 DEF DumpedSafe, DumpedAsAsked, Unheld, Excused, Count

\* What the types are depends on the files and on the registries.
LEMMA DescribedKept ==
  ASSUME UNCHANGED <<args, session, loaded, relations, creators>>
  PROVE  Described(args.category)' <=> Described(args.category)
<1>1. ASSUME NEW x PROVE (Creatable(x)' <=> Creatable(x)) /\ (PastBranches(x)' <=> PastBranches(x))
  BY SameFiles DEF Creatable, PastBranches, CollectionBranches, GetRelationNames, BufferRelations, CreateBuffers, FirstOf
<1>2. PICK c, S, v : c = args.category /\ S = StoredClasses(c) /\ v = Version
  OBVIOUS
<1>3. args'.category = c /\ StoredClasses(c)' = S /\ Version' = v /\ Classes' = Classes
  BY <1>2, SameFiles DEF Classes
<1>4. Described(args.category) <=> \A x \in Range(S) : /\ v <= 2 => x.type \in Classes
                                                       /\ Creatable(x) => ~PastBranches(x)
  BY <1>2 DEF Described
<1>5. Described(args.category)' <=> \A x \in Range(S) : /\ v <= 2 => x.type \in Classes
                                                        /\ Creatable(x)' => ~PastBranches(x)'
  BY <1>3 DEF Described
<1>. QED  BY <1>1, <1>4, <1>5

\* What excuses it does not go away.
LEMMA ExcusedKept ==
  ASSUME UNCHANGED <<args, readersVars>>, Excused
  PROVE  Excused'
<1>1. UNCHANGED <<kind, reader, session, totalEntries, tocRecord, stored, tree, branches,
               loaded, relations, creators, args>>
  BY DEF readersVars, rootVars, regVars, readVars, catVars, tupleVars, sioVars, facadeVars
<1>2. CutStored' = CutStored /\ (StatsAsked' <=> StatsAsked)
  BY <1>1, CountKept
<1>3. Described(args.category)' <=> Described(args.category)
  BY <1>1, DescribedKept
<1>4. StatsCrash(args.category)' <=> StatsCrash(args.category)
  <2>1. PICK c : c = args.category
    OBVIOUS
  <2>2. InitCategory(c)' = InitCategory(c)
    <3>1. \A x : CollectionBranches(x)' = CollectionBranches(x)
      BY <1>1, SameFiles DEF CollectionBranches, GetRelationNames
    <3>2. \A t, name : GetBranch(t, c, name)' = GetBranch(t, c, name)
      BY <1>1, SameFiles DEF GetBranch
    <3>3. CreateCollectionBranches(c, 1)' = CreateCollectionBranches(c, 1)
      BY <1>1, <3>1, <3>2, SameFiles DEF CreateCollectionBranches
    <3>. QED  BY <1>1, <3>3, SameFiles DEF InitCategory
  <2>3. InitCrashes(c)' <=> InitCrashes(c)
    <3>1. PICK S, v : S = StoredClasses(c) /\ v = Version
      OBVIOUS
    <3>2. StoredClasses(c)' = S /\ Version' = v /\ branches'[c] = branches[c] /\ Classes' = Classes
      BY <1>1, <3>1, SameFiles DEF Classes
    <3>3. InitCrashes(c) <=> branches[c] = <<>> /\ v <= 2 /\ ~({x.type : x \in Range(S)} \subseteq Classes)
      BY <3>1 DEF InitCrashes
    <3>4. InitCrashes(c)' <=> branches'[c] = <<>> /\ v <= 2 /\ ~({x.type : x \in Range(S)} \subseteq Classes)
      BY <3>2 DEF InitCrashes
    <3>. QED  BY <3>2, <3>3, <3>4
  <2>4. StatsCrash(c)' <=> StatsCrash(c)
    BY <2>2, <2>3 DEF StatsCrash
  <2>. QED  BY <1>1, <2>1, <2>4 DEF StatsCrash
<1>. QED  BY <1>1, <1>2, <1>3, <1>4 DEF Excused

\* The statistics are those of the category that is dumped.
StatsInv ==
  stats # AllNames => StatsAsked /\ StoredNames \ CutStored \subseteq stats

\* Only a reader of ROOT files ends the process in a call.
NoCrash == crashed => kind = "root"

\* A list of entries.
IsNumbers(s) == s \in Seq(Nat)

\* While it reads, the tool has printed and will read what it was asked for.
Dumping ==
  /\ args.model = None
  /\ IsNumbers(printed) /\ IsNumbers(toRead)
  /\ printed \o toRead = Asked

\* The counters of the reader are numbers, and it gave no frame beyond its entries.
ReadsBelow == nameCtr \in [Categories -> Nat] /\ FramesBelowEntries

\* The inductive invariant of the tool.
DumpInv ==
  /\ tool \in {"none", "parsed", "opened"} => printed = <<>> /\ stats = AllNames
  /\ tool \in {"parsed", "opened", "reading"} =>
       args \in Arguments /\ args.entries.form # "other" /\ CanHold(args.entries)
  /\ tool \in {"opened", "reading"} => kind \in {"root", "sio"}
  /\ tool = "reading" => StatsInv /\ Dumping
  /\ DumpedSafe

\* What the facade makes of a call.
LEMMA OutcomeBelow ==
  ASSUME ReadInv, SioInv, NEW c \in Categories, NEW index, NEW n, Numbered(index, n), NEW request, NEW status,
         GivesBelow(c, n, request # {}, status), outcome' = FrameOrThrow(c, index, request, status)
  PROVE  FramesBelowEntries'
<1>1. /\ n < Entries(c) => index < Entries(c) \/ index >= EntryRange
      /\ ~(n < Entries(c)) => ~(index < Entries(c))
  BY EntriesType, EntriesFit, NumberedFits
<1>2. /\ outcome'.below = (index < Entries(c)) /\ outcome'.wrapped = (index >= EntryRange)
      /\ outcome'.limited = (request # {})
      /\ status = "frame" => outcome'.status = "frame"
      /\ status = "null" => outcome'.status = "runtime_error"
      /\ status \notin {"frame", "null"} => outcome'.status = "invalid_argument"
  BY DEF FrameOrThrow
<1>. HIDE DEF Entries
<1>3. CASE status = "frame"
  BY <1>1, <1>2, <1>3 DEF FramesBelowEntries, GivesBelow
<1>4. CASE status = "null"
  BY <1>1, <1>2, <1>4 DEF FramesBelowEntries, GivesBelow
<1>5. CASE status \notin {"frame", "null"}
  BY <1>1, <1>2, <1>5 DEF FramesBelowEntries, GivesBelow
<1>. QED  BY <1>3, <1>4, <1>5

\* A call to a reader keeps what is said of the last one.
LEMMA RootKeeps ==
  ASSUME ReadInv, SioInv, ReadsBelow, NEW c \in Categories, NEW index, NEW n, Numbered(index, n), NEW request,
         ReadRoot(c, index, n, request)
  PROVE  ReadsBelow'
<1>1. /\ kind = "root" /\ ReadEntry(c, n, request) /\ UNCHANGED nameCtr
      /\ outcome' = IF crashed' THEN outcome ELSE FrameOrThrow(c, index, request, result'.status)
  BY DEF ReadRoot, sioVars
<1>2. CASE crashed'
  BY <1>1, <1>2 DEF ReadsBelow, FramesBelowEntries
<1>3. CASE ~crashed'
  <2>1. Reads(c, n, request)
    BY <1>1, <1>3 DEF ReadEntry, CrashTree, Reads
  <2>2. GivesBelow(c, n, request # {}, result'.status)
    BY <1>1, <2>1, RootGives DEF Numbered
  <2>3. FramesBelowEntries'
    BY <1>1, <1>3, <2>2, OutcomeBelow
  <2>. QED  BY <1>1, <2>3 DEF ReadsBelow
<1>. QED  BY <1>2, <1>3

\* The reader of SIO files keeps that too.
LEMMA SioKeeps ==
  ASSUME ReadInv, SioInv, ReadsBelow, NEW c \in Categories, NEW index, NEW n, Numbered(index, n), NEW names,
         ReadSio(c, index, n, names)
  PROVE  ReadsBelow'
<1>1. kind = "sio" /\ Sio!Read(c, n, names) /\ n \in Nat
      /\ outcome' = (IF reader' = "gone" THEN outcome ELSE FrameOrThrow(c, index, Range(names), frameData'.status))
  BY DEF ReadSio, Numbered
<1>2. nameCtr' \in [Categories -> Nat]
  <2>1. nameCtr' = nameCtr \/ \E k \in Nat : nameCtr' = [nameCtr EXCEPT ![c] = k]
    <3>1. n + 1 \in Nat
      BY <1>1
    <3>. QED  BY <1>1, <3>1 DEF Sio!Read
  <2>. QED  BY <2>1 DEF ReadsBelow
<1>3. CASE reader' = "gone"
  BY <1>1, <1>2, <1>3 DEF ReadsBelow, FramesBelowEntries
<1>4. CASE reader' # "gone"
  <2>1. GivesBelow(c, n, Range(names) # {}, frameData'.status)
    BY <1>1, <1>4, SioGives
  <2>2. FramesBelowEntries'
    BY <1>1, <1>4, <2>1, OutcomeBelow
  <2>. QED  BY <1>2, <2>2 DEF ReadsBelow
<1>. QED  BY <1>3, <1>4

\* So does every step.
LEMMA BelowKept ==
  ASSUME ReadInv, SioInv, ReadsBelow, DumpInv, [DumpNext]_<<readersVars, toolVars>>
  PROVE  ReadsBelow'
<1>. DEFINE Same == UNCHANGED <<nameCtr, outcome>>
<1>1. Same => ReadsBelow'
  BY DEF ReadsBelow, FramesBelowEntries
<1>2. CASE UNCHANGED <<readersVars, toolVars>>
  BY <1>1, <1>2 DEF readersVars, sioVars, facadeVars
<1>3. ASSUME NEW l \in Lists, MakeReader(l) PROVE Same
  BY <1>3 DEF MakeReader, Sio!OpenFile, sioVars
<1>4. ASSUME ReadersNext PROVE ReadsBelow'
  <2>1. CASE LoadLibraries
    BY <1>1, <2>1 DEF LoadLibraries, sioVars, facadeVars
  <2>2. CASE WriteSio
    <3>1. UNCHANGED outcome
      BY <2>2 DEF WriteSio, facadeVars
    <3>2. UNCHANGED nameCtr
      <4>1. kind = "none"
        BY <2>2 DEF WriteSio
      <4>2. \A path : Sio!Create(path) \/ Sio!OpenFile(path) => UNCHANGED nameCtr
        BY DEF Sio!Create, Sio!OpenFile, Sio!readerVars
      <4>3. Sio!CreateOther \/ Sio!Finish \/ Sio!Crash => UNCHANGED nameCtr
        BY DEF Sio!CreateOther, Sio!Finish, Sio!Crash, Sio!readerVars
      <4>4. \A c, f, names : Sio!WriteFrame(c, f, names) => UNCHANGED nameCtr
        BY DEF Sio!WriteFrame, Sio!readerVars
      <4>5. UNCHANGED sioVars => UNCHANGED nameCtr
        BY DEF sioVars
      <4>. QED  BY <4>1, <4>2, <4>3, <4>4, <4>5, SioStep DEF SioUntouched, SioWriting, SioOpening, SioReading
    <3>. QED  BY <1>1, <3>1, <3>2
  <2>3. CASE \E l \in Lists : MakeReader(l)
    BY <1>1, <1>3, <2>3
  <2>4. CASE \E c \in Categories : ReadFrame(c) \/ ReadNextFrame(c)
    <3>. DEFINE Following(c) == IF kind = "root" THEN cursor[c] ELSE nameCtr[c]
    <3>1. PICK c \in Categories : \E index, n : Read(c, index, n) /\ Numbered(index, n)
      <4>1. \A index \in Numbers : Numbered(index, Narrowed(index))
        BY NumbersAssumption, NarrowedType DEF Numbered
      <4>2. \A c \in Categories : Numbered(Following(c), Following(c))
        BY DEF Numbered, ReadsBelow, ReadInv
      <4>. HIDE DEF Same
      <4>. QED  BY <2>4, <4>1, <4>2 DEF ReadFrame, ReadNextFrame
    <3>2. PICK index, n : Read(c, index, n) /\ Numbered(index, n)
      BY <3>1
    <3>. HIDE DEF Following
    <3>. QED  BY <3>2, RootKeeps, SioKeeps DEF Read
  <2>5. CASE ReadLegacy
    BY <1>1, <2>5 DEF ReadLegacy, sioVars
  <2>6. CASE RunSource
    BY <1>1, <2>6 DEF RunSource, sioVars
  <2>. QED  BY <1>4, <2>1, <2>2, <2>3, <2>4, <2>5, <2>6 DEF ReadersNext
<1>5. CASE tool = "none" /\ ReadersNext /\ UNCHANGED toolVars
  BY <1>4, <1>5
<1>6. CASE \E arguments \in Arguments : ParseArgs(arguments)
  BY <1>1, <1>6 DEF ParseArgs, readersVars, sioVars, facadeVars
<1>7. CASE OpenReader
  BY <1>1, <1>3, <1>7 DEF OpenReader
<1>8. CASE DumpEDMDefinition
  BY <1>1, <1>8 DEF DumpEDMDefinition, readersVars, sioVars, facadeVars
<1>9. CASE ListEntries
  BY <1>1, <1>9 DEF ListEntries, sioVars, facadeVars
<1>10. CASE PrintFrame
  <2>1. PICK c, index : c = args.category /\ index = Head(toRead)
    OBVIOUS
  <2>2. tool = "reading" /\ toRead # <<>> /\ ReadAll(c, index, Narrowed(index))
    BY <1>10, <2>1 DEF PrintFrame
  <2>3. c \in Categories
    BY <2>1, <2>2, ArgumentsAssumption DEF DumpInv
  <2>4. Numbered(index, Narrowed(index))
    <3>1. toRead \in Seq(Nat)
      BY <2>2 DEF DumpInv, Dumping, IsNumbers
    <3>2. index \in Nat
      BY <2>1, <2>2, <3>1
    <3>. QED  BY <3>2, NarrowedType DEF Numbered
  <2>. QED  BY <2>2, <2>3, <2>4, RootKeeps, SioKeeps DEF ReadAll
<1>11. CASE EndLoop \/ CrashInStats
  BY <1>1, <1>11 DEF EndLoop, CrashInStats, readersVars, sioVars, facadeVars
<1>. QED  BY <1>2, <1>5, <1>6, <1>7, <1>8, <1>9, <1>10, <1>11 DEF DumpNext

\* At first nothing was asked for.
LEMMA DumpInit == ToolInit => ReadsBelow /\ DumpInv /\ NoCrash
<1>. SUFFICES ASSUME ToolInit PROVE ReadsBelow /\ DumpInv /\ NoCrash
  OBVIOUS
<1>1. Sio!Init /\ outcome = NoOutcome /\ tool = "none" /\ stats = AllNames /\ printed = <<>>
  BY DEF ToolInit, MCInit
<1>2. nameCtr = [c \in Categories |-> 0]
  BY <1>1 DEF Sio!Init
<1>3. outcome.status = "none"
  BY <1>1 DEF NoOutcome
<1>4. Range(printed) = {}
  BY <1>1 DEF Range
<1>5. NoCrash
  BY DEF ToolInit, MCInit, Init, ReadInit, NoCrash
<1>. QED  BY <1>1, <1>2, <1>3, <1>4, <1>5 DEF ReadsBelow, FramesBelowEntries, DumpInv, DumpedSafe

\* Only a reader of ROOT files ends the process in a call.
LEMMA CrashKept ==
  ASSUME ReadInv, ToolInv, NoCrash, [DumpNext]_<<readersVars, toolVars>>
  PROVE  NoCrash'
<1>1. RootStep
  BY ReadPreserved
<1>2. CASE NoStep
  BY <1>2 DEF NoStep, NoCrash
<1>3. ASSUME NEW s, OpenStep(s) PROVE NoCrash'
  BY <1>3 DEF OpenStep, NoCrash
<1>4. ASSUME NEW c, NEW n, NEW request, ReadStep(c, n, request) PROVE NoCrash'
  BY <1>4 DEF ReadStep, NoCrash
<1>5. CASE tool = "opened" /\ LookStep(args.category)
  BY <1>5 DEF LookStep, NoCrash
<1>. QED  BY <1>1, <1>2, <1>3, <1>4, <1>5 DEF RootStep

\* The arguments are parsed, and the file is opened.
LEMMA Parsed ==
  ASSUME NumbersFit, DumpInv, NEW arguments \in Arguments, ParseArgs(arguments)
  PROVE  DumpInv'
<1>1. /\ tool = "none" /\ args' = arguments /\ UNCHANGED <<stats, printed>>
      /\ tool' = IF ~CanParse(arguments.entries) THEN "failed"
                 ELSE IF ~CanHold(arguments.entries) THEN "aborted" ELSE "parsed"
  BY DEF ParseArgs
<1>2. printed' = <<>> /\ stats' = AllNames
  BY <1>1 DEF DumpInv
<1>3. Range(printed') = {}
  BY <1>2 DEF Range
<1>4. tool' = "failed" => args'.entries.form = "other"
  BY <1>1 DEF CanParse
<1>5. tool' = "aborted" => Unheld'
  <2>. SUFFICES ASSUME ~CanHold(arguments.entries) PROVE Unheld'
    BY <1>1
  <2>. DEFINE numbers == arguments.entries.numbers
  <2>1. arguments.entries.form = "range" /\ ~(RangeLength(numbers[1], numbers[2]) <= MaxSize)
    BY DEF CanHold
  <2>2. MaxSize \in Nat \ {0} /\ SizeRange \in Nat \ {0}
    BY ArgumentsAssumption
  <2>3. /\ numbers[1] \in Nat /\ numbers[2] \in Nat
        /\ numbers[1] + MaxSize < SizeRange /\ numbers[2] + MaxSize < SizeRange
    <3>1. Len(numbers) = 2 /\ \A i \in 1 .. Len(numbers) : numbers[i] \in Nat /\ numbers[i] + MaxSize < SizeRange
      BY <2>1, ArgumentsType
    <3>. HIDE DEF numbers
    <3>2. 1 \in 1 .. Len(numbers) /\ 2 \in 1 .. Len(numbers)
      BY <3>1
    <3>. QED  BY <3>1, <3>2
  <2>. HIDE DEF numbers
  <2>4. numbers[2] - numbers[1] + 1 \notin 0 .. MaxSize
    BY <2>1, <2>2, <2>3, RangeIs
  <2>. QED  BY <1>1, <2>1, <2>4 DEF Unheld, numbers
<1>6. tool' = "parsed" => args' \in Arguments /\ args'.entries.form # "other" /\ CanHold(arguments.entries)
  BY <1>1 DEF CanParse
<1>7. CanHold(args.entries)' <=> CanHold(arguments.entries)
  BY <1>1 DEF CanHold
<1>8. DumpedSafe'
  BY <1>1, <1>2, <1>3, <1>4, <1>5 DEF DumpedSafe
<1>. QED  BY <1>1, <1>2, <1>6, <1>7, <1>8 DEF DumpInv

\* It stays as it is while nothing is dumped.
LEMMA NotDumped ==
  ASSUME DumpInv, UNCHANGED <<args, stats, printed>>,
         \/ tool = "none" /\ tool' = "none"
         \/ tool = "parsed" /\ tool' = "opened" /\ kind' \in {"root", "sio"}
         \/ tool = "parsed" /\ tool' = "aborted" /\ kind' = "refused"
         \/ tool = "opened" /\ tool' \in {"ok", "failed"} /\ args.model # None
  PROVE  DumpInv'
<1>1. printed' = <<>> /\ stats' = AllNames
  BY DEF DumpInv
<1>2. Range(printed') = {}
  BY <1>1 DEF Range
<1>3. tool' = "opened" => args' \in Arguments /\ args'.entries.form # "other" /\ CanHold(args.entries)'
  BY DEF DumpInv, CanHold
<1>4. DumpedSafe'
  BY <1>1, <1>2 DEF DumpedSafe, Excused
<1>. QED  BY <1>1, <1>3, <1>4 DEF DumpInv

\* It stays as it is when nothing changes.
LEMMA SameDump ==
  ASSUME DumpInv, UNCHANGED <<readersVars, toolVars>>
  PROVE  DumpInv'
<1>1. UNCHANGED <<args, tool, stats, toRead, printed, kind, session, totalEntries, tocRecord, reader>>
  BY DEF readersVars, toolVars, rootVars, readVars, tupleVars, sioVars, facadeVars
<1>2. Count' = Count /\ Asked' = Asked /\ StoredNames' = StoredNames /\ CutStored' = CutStored /\ (StatsAsked' <=> StatsAsked)
  BY <1>1, CountKept
<1>3. Excused => Excused'
  BY <1>1, ExcusedKept
<1>4. DumpedSafe'
  BY <1>1, <1>2, <1>3 DEF DumpInv, DumpedSafe, Unheld
<1>5. tool' = "reading" => StatsInv' /\ Dumping'
  BY <1>1, <1>2 DEF DumpInv, StatsInv, Dumping, IsNumbers
<1>. QED  BY <1>1, <1>4, <1>5 DEF DumpInv, CanHold

\* The size statistics end the process.
LEMMA StatsCrashed ==
  ASSUME ReadInv, DumpInv, CrashInStats
  PROVE  DumpInv'
<1>1. /\ tool = "opened" /\ tool' = "aborted" /\ StatsAsked
      /\ StatsCrash(args.category) \/ CutNames(args.category) # {}
      /\ UNCHANGED <<args, printed, readersVars>>
  BY DEF CrashInStats
<1>2. args.category \in Categories
  BY <1>1, ArgumentsAssumption DEF DumpInv
<1>3. Excused
  BY <1>1, <1>2, CutAre DEF Excused
<1>4. Excused'
  BY <1>1, <1>3, ExcusedKept
<1>5. Range(printed') = {}
  BY <1>1 DEF DumpInv, Range
<1>. QED  BY <1>1, <1>4, <1>5 DEF DumpInv, DumpedSafe

\* The entries are listed.
LEMMA EntriesListed ==
  ASSUME NumbersFit, ReadInv, SioInv, DumpInv, ListEntries
  PROVE  DumpInv'
<1>1. /\ tool = "opened" /\ tool' = "reading" /\ args.model = None /\ GetSizeStats
      /\ toRead' = FullEntryList(ParseEventRange(args.entries), args.category)
      /\ UNCHANGED <<args, printed, session, tupleVars, sioVars, facadeVars>>
  BY DEF ListEntries
<1>2. UNCHANGED <<args, kind, session, totalEntries, tocRecord, reader>>
  BY <1>1 DEF tupleVars, sioVars, facadeVars
<1>3. Count' = Count /\ Asked' = Asked /\ StoredNames' = StoredNames /\ CutStored' = CutStored /\ (StatsAsked' <=> StatsAsked)
  BY <1>2, CountKept
<1>4. printed = <<>> /\ stats = AllNames /\ args \in Arguments /\ args.entries.form # "other" /\ CanHold(args.entries)
      /\ kind \in {"root", "sio"}
  BY <1>1 DEF DumpInv
<1>5. args.category \in Categories
  BY <1>4, ArgumentsAssumption
<1>6. Entries(args.category) \in Nat
  BY <1>5, EntriesType
<1>7. toRead' = Asked /\ Asked \in Seq(Nat)
  BY <1>1, <1>4, <1>6, ListIsAsked
<1>8. Dumping'
  <2>1. printed' = <<>> /\ args'.model = None
    BY <1>1, <1>4
  <2>2. printed' \o toRead' = Asked'
    BY <1>3, <1>7, <2>1
  <2>. QED  BY <1>7, <2>1, <2>2 DEF Dumping, IsNumbers
<1>9. StatsInv'
  <2>1. CASE stats' = stats
    BY <1>4, <2>1 DEF StatsInv
  <2>2. CASE stats' # stats
    <3>1. StatsAsked /\ StatNames(args.category) \subseteq stats'
      BY <1>1, <2>2 DEF GetSizeStats
    <3>2. StatNames(args.category) = StoredNames \ CutStored
      BY <1>5, <3>1, CutAre
    <3>. QED  BY <1>3, <3>1, <3>2 DEF StatsInv
  <2>. QED  BY <2>1, <2>2
<1>10. DumpedSafe'
  <2>1. Range(printed') = {}
    BY <1>1, <1>4 DEF Range
  <2>. QED  BY <1>1, <2>1 DEF DumpedSafe
<1>. QED  BY <1>1, <1>2, <1>4, <1>8, <1>9, <1>10 DEF DumpInv, CanHold

-----------------------------------------------------------------------------
(* The steps of the tool.                                                  *)

\* What is printed is the beginning of what there is to print.
LEMMA Halves ==
  ASSUME NEW p \in Seq(Nat), NEW r \in Seq(Nat), r # <<>>
  PROVE  /\ IsPrefix(p, p \o r) /\ p # p \o r
         /\ (p \o r)[Len(p) + 1] = Head(r)
         /\ Head(r) \in Nat /\ Tail(r) \in Seq(Nat) /\ Append(p, Head(r)) \in Seq(Nat)
         /\ Append(p, Head(r)) \o Tail(r) = p \o r
<1>. DEFINE q == p \o r
            a == Append(p, Head(r))
            t == Tail(r)
<1>9. ASSUME NEW x \in Seq(Nat), NEW y \in Seq(Nat)
      PROVE  /\ x \o y \in Seq(Nat) /\ Len(x \o y) = Len(x) + Len(y)
             /\ \A i \in 1 .. Len(x) : (x \o y)[i] = x[i]
             /\ \A i \in 1 .. Len(y) : (x \o y)[Len(x) + i] = y[i]
  OBVIOUS
<1>1. /\ Len(p) \in Nat /\ Len(r) \in Nat /\ Len(r) > 0 /\ Head(r) = r[1] /\ r[1] \in Nat
      /\ p = [i \in 1 .. Len(p) |-> p[i]]
  OBVIOUS
<1>2. /\ q \in Seq(Nat) /\ Len(q) = Len(p) + Len(r)
      /\ \A i \in 1 .. Len(p) : q[i] = p[i]
      /\ \A i \in 1 .. Len(r) : q[Len(p) + i] = r[i]
  OBVIOUS
<1>3. /\ a \in Seq(Nat) /\ Len(a) = Len(p) + 1 /\ a[Len(p) + 1] = r[1]
      /\ \A i \in 1 .. Len(p) : a[i] = p[i]
  BY <1>1
<1>4. t \in Seq(Nat) /\ Len(t) = Len(r) - 1 /\ \A i \in 1 .. Len(t) : t[i] = r[i + 1]
  OBVIOUS
<1>. HIDE DEF q, a, t
<1>5. q[Len(p) + 1] = Head(r)
  <2>1. 1 \in 1 .. Len(r)
    BY <1>1
  <2>. QED  BY <1>1, <1>2, <2>1
<1>6. p # q
  BY <1>1, <1>2
<1>7. IsPrefix(p, q)
  <2>1. SubSeq(p, 1, Len(p)) = [i \in 1 .. Len(p) |-> p[i]]
    OBVIOUS
  <2>2. SubSeq(q, 1, Len(p)) = [i \in 1 .. Len(p) |-> q[i]]
    BY <1>1, <1>2
  <2>3. [i \in 1 .. Len(p) |-> p[i]] = [i \in 1 .. Len(p) |-> q[i]]
    BY <1>2
  <2>4. Len(p) <= Len(q)
    BY <1>1, <1>2
  <2>. QED  BY <2>1, <2>2, <2>3, <2>4 DEF IsPrefix
<1>8. a \o t = q
  <2>0. a \in Seq(Nat) /\ t \in Seq(Nat)
    BY <1>3, <1>4
  <2>1. a \o t \in Seq(Nat) /\ Len(a \o t) = Len(a) + Len(t)
    BY <1>9, <2>0
  <2>2. /\ \A i \in 1 .. Len(a) : (a \o t)[i] = a[i]
        /\ \A i \in 1 .. Len(t) : (a \o t)[Len(a) + i] = t[i]
    BY <1>9, <2>0
  <2>5. Len(p) \in Nat /\ Len(r) \in Nat /\ Len(a) = Len(p) + 1 /\ Len(t) = Len(r) - 1 /\ Len(q) = Len(p) + Len(r)
    BY <1>1, <1>2, <1>3, <1>4
  <2>. DEFINE b == a \o t
  <2>. HIDE DEF b
  <2>3. b \in Seq(Nat) /\ Len(b) = Len(q)
    BY <1>1, <1>2, <1>3, <1>4, <2>1 DEF b
  <2>4. ASSUME NEW i \in 1 .. Len(q) PROVE b[i] = q[i]
    <3>1. CASE i <= Len(p)
      <4>1. i \in 1 .. Len(p) /\ i \in 1 .. Len(a)
        BY <1>1, <1>3, <3>1
      <4>. QED  BY <1>2, <1>3, <2>2, <4>1 DEF b
    <3>2. CASE i = Len(p) + 1
      <4>1. i \in 1 .. Len(a)
        BY <1>1, <1>3, <3>2
      <4>. QED  BY <1>1, <1>3, <1>5, <2>2, <3>2, <4>1 DEF b
    <3>3. CASE i > Len(p) + 1
      <4>1. /\ i - Len(a) \in 1 .. Len(t) /\ Len(a) + (i - Len(a)) = i
            /\ (i - Len(a)) + 1 \in 1 .. Len(r) /\ Len(p) + ((i - Len(a)) + 1) = i
        BY <2>5, <3>3
      <4>2. b[i] = t[i - Len(a)] /\ q[i] = r[(i - Len(a)) + 1]
        BY <1>2, <2>2, <4>1 DEF b
      <4>. QED  BY <1>4, <4>1, <4>2
    <3>. QED  BY <1>1, <1>2, <3>1, <3>2, <3>3
  <2>6. b = [i \in 1 .. Len(q) |-> b[i]] /\ q = [i \in 1 .. Len(q) |-> q[i]]
    BY <1>2, <2>3
  <2>7. b = q
    BY <2>4, <2>6
  <2>. QED  BY <2>7 DEF b
<1>. QED  BY <1>1, <1>3, <1>4, <1>5, <1>6, <1>7, <1>8 DEF q, a, t

\* A call reads nothing else of the files.
LEMMA ReadStays ==
  ASSUME NEW c, NEW index, NEW n, ReadAll(c, index, n)
  PROVE  UNCHANGED <<kind, session, totalEntries, tocRecord, loaded, relations, creators>>
<1>1. CASE ReadRoot(c, index, n, {})
  BY <1>1 DEF ReadRoot, ReadEntry, ReadTree, CrashTree, ReadTuple, tupleVars, sioVars, regVars
<1>2. CASE ReadSio(c, index, n, <<>>)
  BY <1>2 DEF ReadSio, Sio!Read, rootVars, readVars, tupleVars, regVars
<1>. QED  BY <1>1, <1>2 DEF ReadAll

\* What the tool makes of a call: a frame of an entry that there is, or nothing when
\* there is none.
LEMMA CallGives ==
  ASSUME ReadInv, SioInv, NEW c \in Categories, NEW index, NEW n \in Nat, ReadAll(c, index, n),
         ~crashed', reader' # "gone"
  PROVE  /\ outcome'.status = "runtime_error" <=> ~(n < Entries(c))
         /\ kind = "root" => Reads(c, n, {}) /\ (n < Entries(c) => result'.status = "frame")
<1>1. Range(<<>>) = {}
  BY DEF Range
<1>2. CASE ReadRoot(c, index, n, {})
  <2>1. kind = "root" /\ ReadEntry(c, n, {}) /\ outcome' = FrameOrThrow(c, index, {}, result'.status)
    BY <1>2 DEF ReadRoot
  <2>2. Reads(c, n, {})
    BY <2>1 DEF ReadEntry, CrashTree, Reads
  <2>3. GivesBelow(c, n, {} # {}, result'.status)
    BY <2>1, <2>2, RootGives
  <2>. QED  BY <2>1, <2>2, <2>3 DEF FrameOrThrow, GivesBelow
<1>3. CASE ReadSio(c, index, n, <<>>)
  <2>1. kind = "sio" /\ Sio!Read(c, n, <<>>) /\ outcome' = FrameOrThrow(c, index, Range(<<>>), frameData'.status)
    BY <1>3 DEF ReadSio
  <2>2. GivesBelow(c, n, Range(<<>>) # {}, frameData'.status)
    BY <2>1, SioGives
  <2>. QED  BY <1>1, <2>1, <2>2 DEF FrameOrThrow, GivesBelow
<1>. QED  BY <1>2, <1>3 DEF ReadAll

\* A process that ends in the call is excused by the types.
LEMMA CallCrashes ==
  ASSUME ReadInv, NoCrash, NEW c \in Categories, NEW index, NEW n, ReadAll(c, index, n), crashed'
  PROVE  session.format = "ttree" /\ ~Described(c)
<1>1. CASE ReadRoot(c, index, n, {})
  <2>1. CrashTree(c, n, {})
    BY <1>1 DEF ReadRoot, ReadEntry, ReadTree, ReadTuple
  <2>. QED  BY <2>1, CrashDescribed DEF CrashTree
<1>2. CASE ReadSio(c, index, n, <<>>)
  BY <1>2 DEF ReadSio, rootVars, readVars, NoCrash
<1>. QED  BY <1>1, <1>2 DEF ReadAll

\* A frame is printed, or the tool ends.
LEMMA FramePrinted ==
  ASSUME ReadInv, SioInv, NoCrash, DumpInv, PrintFrame
  PROVE  DumpInv'
<1>. DEFINE c == args.category
            index == Head(toRead)
            n == Narrowed(index)
<1>1. /\ tool = "reading" /\ toRead # <<>> /\ ReadAll(c, index, n) /\ UNCHANGED <<args, stats>>
      /\ tool' = IF reader' = "gone" \/ crashed' THEN "aborted"
                 ELSE IF outcome'.status = "runtime_error" THEN "failed"
                 ELSE IF stats # AllNames /\ ~(FrameNames \subseteq stats) THEN "aborted" ELSE "reading"
      /\ IF tool' = "reading" THEN toRead' = Tail(toRead) /\ printed' = Append(printed, index)
         ELSE UNCHANGED <<toRead, printed>>
  BY DEF PrintFrame
<1>2. args \in Arguments /\ args.entries.form # "other" /\ CanHold(args.entries) /\ kind \in {"root", "sio"}
      /\ StatsInv /\ args.model = None /\ printed \in Seq(Nat) /\ toRead \in Seq(Nat) /\ printed \o toRead = Asked
      /\ \A m \in Range(printed) : m < Count \/ m >= EntryRange
  BY <1>1 DEF DumpInv, Dumping, IsNumbers, DumpedSafe
<1>3. c \in Categories
  BY <1>2, ArgumentsAssumption
<1>4. /\ IsPrefix(printed, Asked) /\ printed # Asked /\ Asked[Len(printed) + 1] = index
      /\ index \in Nat /\ Tail(toRead) \in Seq(Nat) /\ Append(printed, index) \in Seq(Nat)
      /\ Append(printed, index) \o Tail(toRead) = Asked
  BY <1>1, <1>2, Halves
<1>5. UNCHANGED <<kind, session, totalEntries, tocRecord, loaded, relations, creators>>
  BY <1>1, ReadStays
<1>6. Count' = Count /\ Asked' = Asked /\ StoredNames' = StoredNames /\ CutStored' = CutStored /\ (StatsAsked' <=> StatsAsked)
  BY <1>1, <1>5, CountKept
<1>7. /\ n \in Nat
      /\ n < Count => index < Count \/ index >= EntryRange
      /\ ~(n < Count) => ~(index < Count)
  <2>1. n \in Nat /\ Numbered(index, n)
    BY <1>4, NarrowedType DEF Numbered
  <2>2. Count \in Nat /\ Count < EntryRange
    BY <1>3, EntriesType, EntriesFit DEF Count
  <2>. HIDE DEF index, n
  <2>. QED  BY <2>1, <2>2, NumberedFits
<1>. HIDE DEF n
<1>8. ASSUME ~crashed', reader' # "gone"
      PROVE  /\ (outcome'.status = "runtime_error") <=> ~(n < Count)
             /\ kind = "root" => Reads(c, n, {}) /\ (n < Count => result'.status = "frame")
  <2>1. PICK i : i = index
    OBVIOUS
  <2>2. ReadAll(c, i, n)
    BY <1>1, <2>1 DEF n
  <2>3. Count = Entries(c)
    BY DEF Count
  <2>. HIDE DEF c, index
  <2>. QED  BY <1>3, <1>7, <1>8, <2>2, <2>3, CallGives
<1>9. StatsInv'
  BY <1>1, <1>2, <1>6 DEF StatsInv
<1>10. CASE tool' = "reading"
  <2>1. index < Count \/ index >= EntryRange
    <3>1. reader' # "gone" /\ ~crashed' /\ outcome'.status # "runtime_error"
      BY <1>1, <1>10
    <3>2. n < Count
      BY <1>8, <3>1
    <3>. HIDE DEF index
    <3>. QED  BY <1>7, <3>2
  <2>2. printed' = Append(printed, index) /\ toRead' = Tail(toRead)
    BY <1>1, <1>10
  <2>3. \A m \in Range(printed') : m \in Range(printed) \/ m = index
    <3>. HIDE DEF index
    <3>. QED  BY <1>2, <1>4, <2>2 DEF Range
  <2>4. Dumping'
    <3>1. printed' \o toRead' = Asked'
      BY <1>4, <1>6, <2>2
    <3>2. IsNumbers(printed') /\ IsNumbers(toRead')
      BY <1>4, <2>2 DEF IsNumbers
    <3>. QED  BY <1>1, <1>2, <3>1, <3>2 DEF Dumping, IsNumbers
  <2>5. DumpedSafe'
    <3>1. \A m \in Range(printed') : m < Count' \/ m >= EntryRange
      BY <1>2, <1>6, <2>1, <2>3
    <3>. QED  BY <1>10, <3>1 DEF DumpedSafe
  <2>. QED  BY <1>1, <1>2, <1>5, <1>9, <1>10, <2>4, <2>5 DEF DumpInv, CanHold
<1>11. CASE tool' = "failed"
  <2>1. ~(index < Count)
    <3>1. reader' # "gone" /\ ~crashed' /\ outcome'.status = "runtime_error"
      BY <1>1, <1>11
    <3>2. ~(n < Count)
      BY <1>8, <3>1
    <3>. HIDE DEF index
    <3>. QED  BY <1>7, <3>2
  <2>2. printed' = printed
    BY <1>1, <1>11
  <2>3. DumpedSafe'
    BY <1>1, <1>2, <1>4, <1>6, <1>11, <2>1, <2>2 DEF DumpedSafe
  <2>. QED  BY <1>11, <2>3 DEF DumpInv
<1>12. CASE tool' = "aborted"
  <2>1. printed' = printed
    BY <1>1, <1>12
  <2>2. Excused'
    <3>1. CASE reader' = "gone"
      BY <3>1 DEF Excused
    <3>2. CASE crashed'
      <4>1. session.format = "ttree" /\ ~Described(c)
        BY <1>1, <1>3, <3>2, CallCrashes
      <4>2. Described(args.category)' <=> Described(args.category)
        BY <1>1, <1>5, DescribedKept
      <4>. QED  BY <1>5, <4>1, <4>2 DEF Excused
    <3>3. CASE reader' # "gone" /\ ~crashed'
      <4>1. stats # AllNames /\ ~(FrameNames \subseteq stats) /\ outcome'.status # "runtime_error"
        BY <1>1, <1>12, <3>3
      <4>2. StatsAsked /\ StoredNames \ CutStored \subseteq stats
        BY <1>2, <4>1 DEF StatsInv
      <4>3. kind = "root" /\ session.format = "ttree"
        BY <4>2 DEF StatsAsked
      <4>4. ReadTree(c, n, {}) /\ result'.status = "frame"
        BY <1>8, <3>3, <4>1, <4>3 DEF Reads, ReadTuple
      <4>5. result'.colls \subseteq StoredNames
        BY <1>3, <1>7, <4>4, TreeNames DEF StoredNames
      <4>6. FrameNames = result'.colls
        BY <4>3 DEF FrameNames
      <4>7. CutStored # {}
        BY <4>1, <4>2, <4>5, <4>6
      <4>. QED  BY <1>6, <4>2, <4>7 DEF Excused
    <3>. QED  BY <3>1, <3>2, <3>3
  <2>3. DumpedSafe'
    BY <1>1, <1>2, <1>6, <1>12, <2>1, <2>2 DEF DumpedSafe
  <2>. QED  BY <1>12, <2>3 DEF DumpInv
<1>. QED  BY <1>1, <1>10, <1>11, <1>12

\* All is printed.
LEMMA LoopEnded ==
  ASSUME DumpInv, EndLoop
  PROVE  DumpInv'
<1>1. tool = "reading" /\ toRead = <<>> /\ tool' = "ok" /\ UNCHANGED <<args, stats, toRead, printed, readersVars>>
  BY DEF EndLoop
<1>2. UNCHANGED <<kind, session, totalEntries, tocRecord>>
  BY <1>1 DEF readersVars, rootVars, readVars, tupleVars, sioVars, facadeVars
<1>3. Count' = Count /\ Asked' = Asked
  BY <1>1, <1>2, CountKept
<1>4. printed \in Seq(Nat) /\ printed \o <<>> = Asked /\ \A m \in Range(printed) : m < Count \/ m >= EntryRange
  BY <1>1 DEF DumpInv, Dumping, IsNumbers, DumpedSafe
<1>5. printed = Asked
  BY <1>4
<1>. QED  BY <1>1, <1>3, <1>4, <1>5 DEF DumpInv, DumpedSafe

\* Every step of the tool keeps its promise.
LEMMA DumpPreserved ==
  ASSUME NumbersFit, ReadInv, SioInv, ToolInv, NoCrash, DumpInv, [DumpNext]_<<readersVars, toolVars>>
  PROVE  DumpInv'
<1>1. CASE UNCHANGED <<readersVars, toolVars>>
  BY <1>1, SameDump
<1>2. CASE tool = "none" /\ ReadersNext /\ UNCHANGED toolVars
  BY <1>2, NotDumped DEF toolVars
<1>3. CASE \E arguments \in Arguments : ParseArgs(arguments)
  BY <1>3, Parsed
<1>4. CASE OpenReader
  <2>1. PICK l \in Lists : MakeReader(l)
    BY <1>4 DEF OpenReader
  <2>2. kind' \in {"root", "sio", "refused"}
    BY <2>1 DEF MakeReader
  <2>. QED  BY <1>4, <2>2, NotDumped DEF OpenReader
<1>5. CASE DumpEDMDefinition
  <2>1. tool' \in {"ok", "failed"}
    BY <1>5 DEF DumpEDMDefinition
  <2>. QED  BY <1>5, <2>1, NotDumped DEF DumpEDMDefinition
<1>6. CASE ListEntries
  BY <1>6, EntriesListed
<1>7. CASE PrintFrame
  BY <1>7, FramePrinted
<1>8. CASE EndLoop
  BY <1>8, LoopEnded
<1>9. CASE CrashInStats
  BY <1>9, StatsCrashed
<1>. QED  BY <1>1, <1>2, <1>3, <1>4, <1>5, <1>6, <1>7, <1>8, <1>9 DEF DumpNext

\* A reader of any format gives the frames below getEntries, and another one only for an
\* index that no unsigned holds; the tool dumps what it was asked for, or ends for one of
\* the reasons that DumpedAsAsked has, as long as the numbers on its command line are
\* below the largest size_t by what a vector can hold (Reader.h:57,
\* podio-dump-tool.cpp:281).
THEOREM FramesAndDumps == NumbersFit /\ FileFits /\ DumpSpec => []BelowEntriesIsFrame
<1>. DEFINE Inv == ReadInv /\ ToolInv /\ SioInv /\ ReadsBelow /\ NoCrash /\ DumpInv
<1>1. ToolInit => Inv
  BY ReadInvInit, ToolInvInit, SioInit, DumpInit
<1>2. NumbersFit /\ FileFits /\ Inv /\ [DumpNext]_<<readersVars, toolVars>> => Inv'
  BY ReadPreserved, ToolPreserved, SioPreserved, BelowKept, CrashKept, DumpPreserved
<1>3. Inv => BelowEntriesIsFrame
  BY DumpedIs DEF BelowEntriesIsFrame, ReadsBelow, DumpInv, ToolInv
<1>4. FileFits /\ NumbersFit => [](FileFits /\ NumbersFit)
  <2>1. FileFits /\ NumbersFit => FileFits' /\ NumbersFit'
    BY DEF FileFits, NumbersFit
  <2>. QED  BY <2>1, PTL
<1>. QED  BY <1>1, <1>2, <1>3, <1>4, PTL DEF DumpSpec

-----------------------------------------------------------------------------
(* The entries of a category, frame after frame.                           *)

\* What a frame is as an entry, and what one more frame does to the entries.
EntryOf(w) == [at |-> <<w.id>>, colls |-> Sio!Range(w.names)]
WithEntry(w, c, i, entries) == IF w[i].cat # c THEN entries ELSE Append(entries, EntryOf(w[i]))

\* A function has the entries of the first frames.
EntriesUpTo(w, c, f) ==
  /\ f = [i \in 0 .. Len(w) |-> IF i = 0 THEN <<>>
                                ELSE IF w[i].cat # c THEN f[i - 1]
                                ELSE Append(f[i - 1], [at |-> <<w[i].id>>, colls |-> Sio!Range(w[i].names)])]
  /\ Sio!EntriesOf(w, c) = f[Len(w)]

\* There is such a function, and its values are sequences.
LEMMA EntriesFollow ==
  ASSUME NEW w, IsSeq(w), NEW c
  PROVE  \E f : /\ EntriesUpTo(w, c, f)
                /\ DOMAIN f = 0 .. Len(w)
                /\ \A i \in 0 .. Len(w) : IsSeq(f[i])
<1>. DEFINE n == Len(w)
            E == {EntryOf(w[i]) : i \in 1 .. n}
            S == Seq(E)
            F == [p \in S \X (1 .. n) |-> WithEntry(w, c, p[2], p[1])]
            IsIt(f) == f = [i \in 0 .. n |-> IF i = 0 THEN <<>>
                                ELSE IF w[i].cat # c THEN f[i - 1]
                                ELSE Append(f[i - 1], [at |-> <<w[i].id>>, colls |-> Sio!Range(w[i].names)])]
<1>1. n \in Nat
  BY DEF IsSeq
<1>2. IsStep(S, n, F)
  <2>1. ASSUME NEW s \in S, NEW k \in 1 .. n PROVE WithEntry(w, c, k, s) \in S
    <3>1. EntryOf(w[k]) \in E
      OBVIOUS
    <3>. HIDE DEF E
    <3>. QED  BY <3>1 DEF WithEntry
  <2>. HIDE DEF S
  <2>. QED  BY <2>1 DEF IsStep
<1>3. <<>> \in S
  OBVIOUS
<1>4. PICK f : IsRun(S, <<>>, n, F, f)
  <2>. HIDE DEF S, F, n
  <2>. QED  BY <1>1, <1>2, <1>3, Recursion
<1>5. f \in [0 .. n -> S] /\ f[0] = <<>> /\ \A k \in 1 .. n : f[k] = WithEntry(w, c, k, f[k - 1])
  <2>1. f \in [0 .. n -> S] /\ f[0] = <<>> /\ \A k \in 1 .. n : f[k] = F[<<f[k - 1], k>>]
    BY <1>4 DEF IsRun
  <2>2. ASSUME NEW k \in 1 .. n PROVE f[k] = WithEntry(w, c, k, f[k - 1])
    <3>1. k - 1 \in 0 .. n
      BY <1>1
    <3>. HIDE DEF S, n
    <3>2. f[k - 1] \in S
      BY <2>1, <3>1
    <3>3. F[<<f[k - 1], k>>] = WithEntry(w, c, k, f[k - 1])
      BY <3>2
    <3>. HIDE DEF F
    <3>. QED  BY <2>1, <3>3
  <2>. HIDE DEF S, F
  <2>. QED  BY <2>1, <2>2
<1>6. IsIt(f)
  <2>. HIDE DEF S, n
  <2>1. f = [i \in 0 .. n |-> f[i]]
    BY <1>5
  <2>2. \A i \in 0 .. n : f[i] = IF i = 0 THEN <<>>
                                ELSE IF w[i].cat # c THEN f[i - 1]
                                ELSE Append(f[i - 1], [at |-> <<w[i].id>>, colls |-> Sio!Range(w[i].names)])
    <3>1. ASSUME NEW i \in 0 .. n, i # 0 PROVE f[i] = WithEntry(w, c, i, f[i - 1])
      <4>1. i \in 1 .. n
        BY <1>1, <3>1
      <4>. QED  BY <1>5, <4>1
    <3>2. f[0] = <<>>
      BY <1>5
    <3>. QED  BY <3>1, <3>2 DEF WithEntry, EntryOf
  <2>. QED  BY <2>1, <2>2
<1>7. PICK g : g = CHOOSE h : IsIt(h)
  <2>. HIDE DEF IsIt
  <2>. QED  OBVIOUS
<1>8. IsIt(g)
  BY <1>6, <1>7
<1>9. Sio!EntriesOf(w, c) = g[n]
  BY <1>7 DEF Sio!EntriesOf
<1>10. \A k \in 0 .. n : g[k] = f[k]
  <2>. DEFINE T == {k \in Nat : k <= n => g[k] = f[k]}
  <2>. HIDE DEF S, n
  <2>1. 0 \in T
    BY <1>1, <1>6, <1>8
  <2>2. ASSUME NEW k \in Nat, k \in T PROVE k + 1 \in T
    <3>1. CASE k + 1 <= n
      <4>1. k + 1 \in 0 .. n /\ k + 1 # 0 /\ (k + 1) - 1 = k
        BY <1>1, <3>1
      <4>2. g[k] = f[k]
        BY <2>2, <1>1, <3>1
      <4>. HIDE DEF IsIt
      <4>3. \A h : IsIt(h) => h[k + 1] = WithEntry(w, c, k + 1, h[k])
        BY <4>1 DEF IsIt, WithEntry, EntryOf
      <4>4. g[k + 1] = f[k + 1]
        BY <1>6, <1>8, <4>2, <4>3
      <4>. QED  BY <4>4
    <3>2. CASE ~(k + 1 <= n)
      BY <3>2
    <3>. QED  BY <3>1, <3>2
  <2>. HIDE DEF T
  <2>3. Nat \subseteq T
    BY <2>1, <2>2, Induction
  <2>. QED  BY <1>1, <2>3 DEF T
<1>11. EntriesUpTo(w, c, g)
  BY <1>8, <1>9 DEF EntriesUpTo
<1>12. DOMAIN g = 0 .. n
  BY <1>8
<1>13. \A k \in 0 .. n : IsSeq(g[k])
  <2>. HIDE DEF n, E
  <2>. QED  BY <1>5, <1>10 DEF IsSeq
<1>. QED  BY <1>11, <1>12, <1>13

\* Without a frame there is no entry, and a frame is one more entry of its category.
LEMMA EntriesGrow ==
  ASSUME NEW w, IsSeq(w), NEW e, NEW c
  PROVE  /\ IsSeq(Sio!EntriesOf(w, c))
         /\ Sio!EntriesOf(Append(w, e), c) =
              IF e.cat # c THEN Sio!EntriesOf(w, c) ELSE Append(Sio!EntriesOf(w, c), EntryOf(e))
         /\ w = <<>> => Sio!EntriesOf(w, c) = <<>>
<1>. DEFINE n == Len(w)
            u == Append(w, e)
<1>1. n \in Nat /\ IsSeq(u) /\ Len(u) = n + 1 /\ (\A i \in 1 .. n : u[i] = w[i]) /\ u[n + 1] = e
  BY Appended
<1>2. PICK f : EntriesUpTo(w, c, f) /\ DOMAIN f = 0 .. n /\ \A i \in 0 .. n : IsSeq(f[i])
  BY EntriesFollow
<1>. HIDE DEF n, u
<1>3. PICK g : EntriesUpTo(u, c, g) /\ DOMAIN g = 0 .. n + 1
  <2>1. \E g : EntriesUpTo(u, c, g) /\ DOMAIN g = 0 .. Len(u)
    BY <1>1, EntriesFollow
  <2>. QED  BY <1>1, <2>1
<1>4. f[0] = <<>> /\ g[0] = <<>>
  BY <1>1, <1>2, <1>3 DEF EntriesUpTo, n
<1>5. ASSUME NEW k \in 0 .. n, k # 0
      PROVE f[k] = IF w[k].cat # c THEN f[k - 1] ELSE Append(f[k - 1], EntryOf(w[k]))
  BY <1>2, <1>5 DEF EntriesUpTo, EntryOf, n
<1>6. ASSUME NEW k \in 0 .. n + 1, k # 0
      PROVE g[k] = IF u[k].cat # c THEN g[k - 1] ELSE Append(g[k - 1], EntryOf(u[k]))
  <2>1. k \in 0 .. Len(u)
    BY <1>1
  <2>. QED  BY <1>3, <1>6, <2>1 DEF EntriesUpTo, EntryOf
<1>7. g[n] = f[n]
  <2>. DEFINE T == {k \in Nat : k <= n => g[k] = f[k]}
  <2>1. 0 \in T
    BY <1>4
  <2>2. ASSUME NEW k \in Nat, k \in T PROVE k + 1 \in T
    <3>1. CASE k + 1 <= n
      <4>1. k + 1 \in 0 .. n /\ k + 1 \in 0 .. n + 1 /\ k + 1 \in 1 .. n /\ k + 1 # 0 /\ (k + 1) - 1 = k
        BY <1>1, <3>1
      <4>2. g[k] = f[k]
        BY <2>2, <1>1, <3>1
      <4>3. u[k + 1] = w[k + 1]
        BY <1>1, <4>1
      <4>4. g[k + 1] = f[k + 1]
        BY <1>5, <1>6, <4>1, <4>2, <4>3
      <4>. QED  BY <4>4
    <3>2. CASE ~(k + 1 <= n)
      BY <3>2
    <3>. QED  BY <3>1, <3>2
  <2>. HIDE DEF T
  <2>3. Nat \subseteq T
    BY <2>1, <2>2, Induction
  <2>. QED  BY <1>1, <2>3 DEF T
<1>8. Sio!EntriesOf(w, c) = f[n] /\ Sio!EntriesOf(u, c) = g[n + 1]
  BY <1>1, <1>2, <1>3 DEF EntriesUpTo, n
<1>9. g[n + 1] = IF u[n + 1].cat # c THEN g[n] ELSE Append(g[n], EntryOf(u[n + 1]))
  <2>1. n + 1 \in 0 .. n + 1 /\ n + 1 # 0 /\ (n + 1) - 1 = n
    BY <1>1
  <2>. QED  BY <1>6, <2>1
<1>10. IsSeq(f[n])
  BY <1>1, <1>2
<1>11. w = <<>> => f[n] = <<>>
  BY <1>4 DEF n
<1>. QED  BY <1>1, <1>7, <1>8, <1>9, <1>10, <1>11 DEF u

-----------------------------------------------------------------------------
(* The positions of a category and the records of its entries.             *)

\* A table and the data after it are of one frame, and there is a block for each name.
IsFrame(table, rec) ==
  /\ table.id \in Nat /\ rec.id = table.id
  /\ IsSeq(table.names) /\ Sio!Range(table.names) \subseteq DOMAIN Models
  /\ \A i \in DOMAIN table.names : rec.blocks[i + 1] = table.names[i]

\* The records from position q on are what an entry is made of.
RecordsAt(f, q, entry) ==
  /\ q + 2 <= Len(f)
  /\ IsFrame(f[q + 1].content, f[q + 2].content)
  /\ entry = EntryOf(f[q + 1].content)

\* Each position that the table of contents has of a category leads to its entry.
Leads(f, positions, entries) ==
  /\ IsSeq(entries) /\ Len(entries) = Len(positions)
  /\ \A i \in 1 .. Len(positions) : RecordsAt(f, positions[i], entries[i])
RecordsInv ==
  writer \in {"none", "open", "closed"} =>
    \A c \in Categories : Leads(file, Sio!Positions(toc, c), Sio!EntriesOf(written, c))

\* Records stay where they are when a file grows.
LEMMA LeadsOn ==
  ASSUME NEW f, IsSeq(f), NEW more, IsSeq(more), NEW positions \in Seq(Places), NEW entries, Leads(f, positions, entries)
  PROVE  Leads(f \o more, positions, entries)
<1>. DEFINE g == f \o more
<1>1. Len(f) \in Nat /\ Len(g) = Len(f) + Len(more) /\ Len(more) \in Nat /\ \A i \in 1 .. Len(f) : g[i] = f[i]
  BY Joined DEF IsSeq
<1>2. Len(positions) \in Nat /\ \A i \in 1 .. Len(positions) : positions[i] \in Nat
  <2>1. Places \subseteq Nat
    BY SioAssumption DEF Places
  <2>2. Len(positions) \in Nat /\ \A i \in 1 .. Len(positions) : positions[i] \in Places
    OBVIOUS
  <2>. QED  BY <2>1, <2>2
<1>. HIDE DEF g
<1>3. ASSUME NEW i \in 1 .. Len(positions) PROVE RecordsAt(g, positions[i], entries[i])
  <2>. DEFINE q == positions[i]
  <2>1. q \in Nat /\ RecordsAt(f, q, entries[i])
    BY <1>2 DEF Leads
  <2>. HIDE DEF q
  <2>2. q + 1 \in 1 .. Len(f) /\ q + 2 \in 1 .. Len(f) /\ q + 2 <= Len(g)
    BY <1>1, <2>1 DEF RecordsAt
  <2>3. g[q + 1] = f[q + 1] /\ g[q + 2] = f[q + 2]
    BY <1>1, <2>2
  <2>4. RecordsAt(g, q, entries[i])
    BY <2>1, <2>2, <2>3 DEF RecordsAt
  <2>. QED  BY <2>4 DEF q
<1>4. Leads(g, positions, entries)
  BY <1>3 DEF Leads
<1>. QED  BY <1>4 DEF g

\* And one more position leads to one more entry.
LEMMA LeadsToOne ==
  ASSUME NEW f, NEW positions \in Seq(Places), NEW entries, Leads(f, positions, entries),
         NEW q \in Places, NEW entry, RecordsAt(f, q, entry)
  PROVE  Leads(f, Append(positions, q), Append(entries, entry))
<1>. DEFINE m == Len(positions)
            ps == Append(positions, q)
            es == Append(entries, entry)
<1>1. m \in Nat /\ Len(ps) = m + 1 /\ (\A i \in 1 .. m : ps[i] = positions[i]) /\ ps[m + 1] = q
  OBVIOUS
<1>2. IsSeq(es) /\ Len(es) = m + 1 /\ (\A i \in 1 .. m : es[i] = entries[i]) /\ es[m + 1] = entry
  <2>1. IsSeq(entries) /\ Len(entries) = m
    BY DEF Leads
  <2>. QED  BY <2>1, Appended
<1>3. \A i \in 1 .. m : RecordsAt(f, positions[i], entries[i])
  BY DEF Leads
<1>. HIDE DEF m, ps, es
<1>4. ASSUME NEW i \in 1 .. m + 1 PROVE RecordsAt(f, ps[i], es[i])
  <2>1. CASE i = m + 1
    BY <1>1, <1>2, <2>1
  <2>2. CASE i # m + 1
    <3>1. i \in 1 .. m
      BY <1>1, <2>2
    <3>. QED  BY <1>1, <1>2, <1>3, <3>1
  <2>. QED  BY <2>1, <2>2
<1>5. Leads(f, ps, es)
  BY <1>1, <1>2, <1>4 DEF Leads
<1>. QED  BY <1>5 DEF ps, es

\* What a frame is written as: the block of each collection that has one is for its name.
LEMMA FrameWritten ==
  ASSUME NEW c, NEW f \in DOMAIN SioFrames, NEW names, IsSeq(names), Sio!WriteFrame(c, f, names), NEW id \in Nat
  PROVE  IsFrame(Sio!TableRecord(c, id, names).content, Sio!DataRecord(c, id, names).content)
<1>. DEFINE table == Sio!TableRecord(c, id, names).content
            rec == Sio!DataRecord(c, id, names).content
            made == [i \in DOMAIN names |-> Sio!CreateBlock(blocks.writer, names[i])]
<1>1. table.id = id /\ table.names = names /\ rec.id = id /\ rec.blocks = <<"params">> \o (made)
  BY DEF Sio!TableRecord, Sio!DataRecord, Sio!Record, Sio!CreateBlocks
<1>2. Sio!Range(names) \subseteq SioFrames[f] /\ Sio!NoBlock \notin Sio!Range(<<"params">> \o (made))
  BY DEF Sio!WriteFrame, Sio!CreateBlocks
<1>3. Sio!Range(names) \subseteq DOMAIN Models
  BY <1>2, SioAssumption
<1>4. IsSeq(made) /\ Len(made) = Len(names) /\ DOMAIN names = 1 .. Len(names) /\ Len(names) \in Nat
  <2>1. PICK X : names \in Seq(X)
    BY DEF IsSeq
  <2>2. Len(names) \in Nat /\ DOMAIN names = 1 .. Len(names)
    BY <2>1
  <2>3. made \in [1 .. Len(names) -> {Sio!CreateBlock(blocks.writer, names[i]) : i \in DOMAIN names}]
    BY <2>2
  <2>4. made \in Seq({Sio!CreateBlock(blocks.writer, names[i]) : i \in DOMAIN names}) /\ Len(made) = Len(names)
    BY <2>2, <2>3
  <2>. QED  BY <2>2, <2>4 DEF IsSeq
<1>5. \A i \in DOMAIN names : made[i] = Sio!CreateBlock(blocks.writer, names[i])
  OBVIOUS
<1>. HIDE DEF made, table, rec
<1>6. IsSeq(<<"params">>) /\ Len(<<"params">>) = 1
  BY ShortSeqs
<1>7. PICK all : all = <<"params">> \o (made)
  OBVIOUS
<1>8. IsSeq(all) /\ Len(all) = 1 + Len(names) /\ \A i \in 1 .. Len(names) : all[1 + i] = made[i]
  BY <1>4, <1>6, <1>7, Joined
<1>9. DOMAIN all = 1 .. 1 + Len(names)
  BY <1>8 DEF IsSeq
<1>10. ASSUME NEW i \in DOMAIN names PROVE all[i + 1] = names[i]
  <2>1. i \in 1 .. Len(names) /\ 1 + i = i + 1 /\ i + 1 \in DOMAIN all
    BY <1>4, <1>9
  <2>2. all[i + 1] = made[i]
    BY <1>8, <2>1
  <2>3. all[i + 1] # Sio!NoBlock
    BY <1>2, <1>7, <2>1 DEF Sio!Range
  <2>. QED  BY <1>5, <2>2, <2>3 DEF Sio!CreateBlock
<1>. QED  BY <1>1, <1>3, <1>7, <1>10 DEF IsFrame, table, rec

\* At first there is neither a frame nor a position.
LEMMA RecordsInit == ToolInit => RecordsInv
<1>. SUFFICES ASSUME ToolInit, NEW c \in Categories
              PROVE  Leads(file, Sio!Positions(toc, c), Sio!EntriesOf(written, c))
  BY DEF RecordsInv
<1>1. toc = <<>> /\ written = <<>>
  BY DEF ToolInit, MCInit, Sio!Init
<1>2. IsTOC(<<>>) /\ IsSeq(<<>>)
  BY DEF IsTOC, IsSeq
<1>3. Sio!Positions(toc, c) = <<>>
  BY <1>1, <1>2, PositionsAre
<1>4. Sio!EntriesOf(written, c) = <<>> /\ IsSeq(Sio!EntriesOf(written, c))
  BY <1>1, <1>2, EntriesGrow
<1>. QED  BY <1>3, <1>4 DEF Leads

\* A writer that opens its file has neither.
LEMMA RecordsCreated ==
  ASSUME SioInv, RecordsInv, \/ \E path : Sio!Create(path)
                             \/ Sio!CreateOther
  PROVE  RecordsInv'
<1>1. writer = "none" /\ written = <<>> /\ UNCHANGED <<toc, written>>
  BY DEF SioInv, FileInv, Sio!Create, Sio!CreateOther
<1>2. IsSeq(<<>>)
  BY DEF IsSeq
<1>3. ASSUME NEW c \in Categories PROVE Leads(file', Sio!Positions(toc, c), Sio!EntriesOf(written, c))
  <2>1. Sio!EntriesOf(written, c) = <<>> /\ Leads(file, Sio!Positions(toc, c), Sio!EntriesOf(written, c))
    BY <1>1, <1>2, EntriesGrow DEF RecordsInv
  <2>2. Len(Sio!Positions(toc, c)) = 0
    BY <2>1 DEF Leads
  <2>. QED  BY <2>1, <2>2 DEF Leads
<1>4. ASSUME NEW c \in Categories PROVE Sio!Positions(toc', c) = Sio!Positions(toc, c)
  BY <1>1
<1>. QED  BY <1>1, <1>3, <1>4 DEF RecordsInv

\* The two records of a frame that is written are its entry.
LEMMA RecordsWritten ==
  ASSUME SioInv, RecordsInv, FileFits,
         NEW c \in Categories, NEW f \in DOMAIN SioFrames, NEW names, IsSeq(names), Sio!WriteFrame(c, f, names)
  PROVE  RecordsInv'
<1>. DEFINE id == Len(written) + 1
            w == [cat |-> c, id |-> id, names |-> names]
            table == Sio!TableRecord(c, id, names)
            rec == Sio!DataRecord(c, id, names)
            more == <<table, rec>>
            q == Len(file)
<1>1. /\ writer = "open" /\ Len(written) < MaxWritten
      /\ file' = file \o more
      /\ written' = Append(written, w)
      /\ toc' = Sio!AddRecord(toc, c, q)
  BY DEF Sio!WriteFrame
<1>2. Len(written) \in Nat /\ q = 2 * Len(written) + 1 /\ IsSeq(file) /\ IsSeq(written) /\ IsTOC(toc)
  BY <1>1 DEF SioInv, WriterInv, FileInv, NoMarker
<1>3. q \in Places /\ q \in Nat
  BY <1>1, <1>2, SioAssumption DEF Places, FileFits
<1>4. IsFrame(table.content, rec.content)
  BY <1>2, FrameWritten
<1>5. EntryOf(w) = EntryOf(table.content) /\ w.cat = c
  BY DEF EntryOf, Sio!TableRecord, Sio!Record
<1>6. IsSeq(more) /\ Len(more) = 2 /\ more[1] = table /\ more[2] = rec
  BY ShortSeqs
<1>. HIDE DEF w, table, rec, more, q
<1>7. Len(file') = q + 2 /\ file'[q + 1] = table /\ file'[q + 2] = rec
  <2>1. Len(file \o more) = Len(file) + Len(more) /\ \A i \in 1 .. Len(more) : (file \o more)[Len(file) + i] = more[i]
    <3>1. IsSeq(file) /\ IsSeq(more)
      BY <1>2, <1>6
    <3>. QED  BY ONLY <3>1, Joined
  <2>2. Len(file') = q + 2 /\ \A i \in 1 .. 2 : file'[q + i] = more[i]
    BY <1>1, <1>6, <2>1 DEF q
  <2>. QED  BY <1>6, <2>2
<1>8. RecordsAt(file', q, EntryOf(w))
  <2>1. q + 2 <= Len(file')
    BY <1>3, <1>7
  <2>. QED  BY <1>4, <1>5, <1>7, <2>1 DEF RecordsAt
<1>9. /\ Sio!Positions(toc', c) = Append(Sio!Positions(toc, c), q)
      /\ \A other : other # c => Sio!Positions(toc', other) = Sio!Positions(toc, other)
  BY <1>1, <1>2, <1>3, RecordAdded, NamesOfRecords
<1>10. ASSUME NEW o \in Categories PROVE Leads(file', Sio!Positions(toc', o), Sio!EntriesOf(written', o))
  <2>1. Leads(file', Sio!Positions(toc, o), Sio!EntriesOf(written, o)) /\ Sio!Positions(toc, o) \in Seq(Places)
    <3>1. Sio!Positions(toc, o) \in Seq(Places)
      BY <1>2, PositionsAre
    <3>2. Leads(file, Sio!Positions(toc, o), Sio!EntriesOf(written, o))
      BY <1>1 DEF RecordsInv
    <3>. QED  BY <1>1, <1>2, <1>6, <3>1, <3>2, LeadsOn
  <2>2. Sio!EntriesOf(written', o) =
          IF c # o THEN Sio!EntriesOf(written, o) ELSE Append(Sio!EntriesOf(written, o), EntryOf(w))
    BY <1>1, <1>2, <1>5, EntriesGrow
  <2>3. CASE o = c
    BY <1>3, <1>8, <1>9, <2>1, <2>2, <2>3, LeadsToOne
  <2>4. CASE o # c
    BY <1>9, <2>1, <2>2, <2>4
  <2>. QED  BY <2>3, <2>4
<1>. QED  BY <1>10 DEF RecordsInv

\* The last records come behind the others.
LEMMA RecordsFinished ==
  ASSUME SioInv, RecordsInv, FileFits, Sio!Finish
  PROVE  RecordsInv'
<1>. DEFINE last == Sio!LastRecords
<1>1. /\ writer = "open" /\ UNCHANGED written
      /\ file' = file \o last
      /\ toc' = Sio!AddRecord(toc, Sio!EDMDefinitions, Len(file))
  BY DEF Sio!Finish
<1>2. Len(written) \in 0 .. MaxWritten /\ Len(file) = 2 * Len(written) + 1 /\ IsSeq(file) /\ IsTOC(toc)
  BY <1>1 DEF SioInv, WriterInv, FileInv, NoMarker
<1>3. Len(file) \in Places
  BY <1>2, SioAssumption DEF Places, FileFits
<1>4. IsSeq(last)
  BY ShortSeqs DEF Sio!LastRecords
<1>. HIDE DEF last
<1>5. \A c \in Categories : Sio!Positions(toc', c) = Sio!Positions(toc, c)
  BY <1>1, <1>2, <1>3, RecordAdded, NamesOfRecords
<1>6. ASSUME NEW c \in Categories PROVE Leads(file', Sio!Positions(toc, c), Sio!EntriesOf(written, c))
  <2>1. Sio!Positions(toc, c) \in Seq(Places)
    BY <1>2, PositionsAre
  <2>2. Leads(file, Sio!Positions(toc, c), Sio!EntriesOf(written, c))
    BY <1>1 DEF RecordsInv
  <2>. QED  BY <1>1, <1>2, <1>4, <2>1, <2>2, LeadsOn
<1>. QED  BY <1>1, <1>5, <1>6 DEF RecordsInv

\* So they are for all steps.
LEMMA RecordsPreserved ==
  ASSUME FileFits, SioInv, RecordsInv, [DumpNext]_<<readersVars, toolVars>>
  PROVE  RecordsInv'
<1>1. ASSUME UNCHANGED <<writer, file, toc, written>> PROVE RecordsInv'
  BY <1>1 DEF RecordsInv
<1>2. CASE SioUntouched
  BY <1>1, <1>2 DEF SioUntouched, sioVars
<1>3. CASE SioWriting
  <2>1. Sio!Crash => RecordsInv'
    BY DEF Sio!Crash, RecordsInv
  <2>. QED  BY <1>3, <2>1, RecordsCreated, RecordsWritten, RecordsFinished DEF SioWriting
<1>4. CASE SioOpening
  BY <1>1, <1>4 DEF SioOpening, Sio!OpenFile
<1>5. CASE \E c, n, names : SioReading(c, n, names)
  BY <1>1, <1>5 DEF SioReading, Sio!Read, Sio!writerVars
<1>. QED  BY <1>2, <1>3, <1>4, <1>5, SioStep

-----------------------------------------------------------------------------
(* The entries that a reader of an sio file is asked for.                  *)

\* The calls that a reader of an sio file gets, as ToolInv has them for ROOT files.
CallsInv ==
  /\ nameCtr \in [Categories -> Nat]
  /\ reader = "new" => nameCtr = [c \in Categories |-> 0] /\ frameData = Sio!NoFrame
  /\ tool = "reading" /\ kind = "sio" => toRead \in Seq(Nat)

\* They are for entries that the abstract reader may be asked for.
LEMMA CallsAsked ==
  ASSUME ToolInv, CallsInv, kind = "sio", NEW c, NEW n, NEW names, SioAsks(c, n, names)
  PROVE  c \in Categories /\ n \in Nat /\ (n \in 0 .. EntryRange - 1 \/ n = nameCtr[c]) /\ names \in SioRequests
<1>1. CASE c \in Categories /\ (n \in 0 .. EntryRange - 1 \/ n = nameCtr[c])
  BY <1>1, EntryRangeAssumption DEF CallsInv, SioAsks
<1>2. CASE tool = "reading" /\ toRead # <<>> /\ c = args.category /\ n = Narrowed(Head(toRead))
  <2>1. c \in Categories
    BY <1>2, ArgumentsAssumption DEF ToolInv
  <2>2. Head(toRead) \in Nat
    BY <1>2 DEF CallsInv
  <2>3. n \in 0 .. EntryRange - 1 /\ n \in Nat
    BY <1>2, <2>2, NarrowedFits, NarrowedType
  <2>. QED  BY <2>1, <2>3 DEF SioAsks
<1>. QED  BY <1>1, <1>2 DEF SioAsks

\* At first nothing was read.
LEMMA CallsInit == ToolInit => CallsInv
  BY DEF ToolInit, MCInit, Sio!Init, CallsInv

\* A step reads, or leaves the counters and the last result alone.
LEMMA CountersKept ==
  ASSUME SioInv, ToolInv, CallsInv, [DumpNext]_<<readersVars, toolVars>>
  PROVE  /\ nameCtr' \in [Categories -> Nat]
         /\ reader' = "new" => nameCtr' = [c \in Categories |-> 0] /\ frameData' = Sio!NoFrame
         /\ kind # "sio" => UNCHANGED <<nameCtr, frameData>>
<1>1. CASE UNCHANGED <<nameCtr, frameData>> /\ (reader' = "new" => reader = "new")
  BY <1>1 DEF CallsInv
<1>2. CASE SioUntouched
  BY <1>1, <1>2 DEF SioUntouched, sioVars
<1>3. CASE SioWriting
  <2>1. UNCHANGED <<reader, nameCtr, frameData>>
    <3>1. \A path : Sio!Create(path) => UNCHANGED Sio!readerVars
      BY DEF Sio!Create
    <3>2. Sio!CreateOther \/ Sio!Finish \/ Sio!Crash => UNCHANGED Sio!readerVars
      BY DEF Sio!CreateOther, Sio!Finish, Sio!Crash
    <3>3. \A c, f, names : Sio!WriteFrame(c, f, names) => UNCHANGED Sio!readerVars
      BY DEF Sio!WriteFrame
    <3>4. UNCHANGED Sio!readerVars
      BY <1>3, <3>1, <3>2, <3>3 DEF SioWriting
    <3>. QED  BY <3>4 DEF Sio!readerVars
  <2>. QED  BY <1>1, <2>1
<1>4. CASE SioOpening
  BY <1>1, <1>4 DEF SioOpening, Sio!OpenFile
<1>5. CASE \E c, n, names : SioReading(c, n, names)
  <2>1. PICK c, n, names : SioReading(c, n, names)
    BY <1>5
  <2>2. c \in Categories /\ n \in Nat
    BY <2>1, CallsAsked DEF SioReading
  <2>3. kind = "sio" /\ reader' # "new"
    BY <2>1 DEF SioReading, Sio!Read
  <2>4. nameCtr' = nameCtr \/ nameCtr' = [nameCtr EXCEPT ![c] = n] \/ nameCtr' = [nameCtr EXCEPT ![c] = n + 1]
    BY <2>1 DEF SioReading, Sio!Read
  <2>. QED  BY <2>2, <2>3, <2>4 DEF CallsInv
<1>. QED  BY <1>2, <1>3, <1>4, <1>5, SioStep

\* Every step keeps it.
LEMMA CallsPreserved ==
  ASSUME ReadInv, SioInv, ToolInv, CallsInv, [DumpNext]_<<readersVars, toolVars>>
  PROVE  CallsInv'
<1>1. /\ nameCtr' \in [Categories -> Nat]
      /\ reader' = "new" => nameCtr' = [c \in Categories |-> 0] /\ frameData' = Sio!NoFrame
      /\ kind # "sio" => UNCHANGED <<nameCtr, frameData>>
  BY CountersKept
<1>2. CASE UNCHANGED <<readersVars, toolVars>>
  <2>1. UNCHANGED <<nameCtr, tool, kind, toRead, args>>
    BY <1>2 DEF readersVars, sioVars, facadeVars, toolVars
  <2>. QED  BY <1>1, <2>1 DEF CallsInv
<1>3. CASE tool = "none" /\ ReadersNext /\ UNCHANGED toolVars
  BY <1>1, <1>3 DEF toolVars, CallsInv
<1>4. CASE \E arguments \in Arguments : ParseArgs(arguments)
  <2>1. kind = "none" /\ UNCHANGED <<kind, nameCtr>> /\ tool' \in {"failed", "aborted", "parsed"}
    BY <1>4 DEF ParseArgs, readersVars, sioVars, facadeVars
  <2>. QED  BY <1>1, <2>1 DEF CallsInv
<1>5. CASE OpenReader
  <2>1. tool = "parsed" /\ tool' \in {"aborted", "opened"} /\ kind = "none"
    BY <1>5 DEF OpenReader, ToolInv
  <2>. QED  BY <1>1, <2>1 DEF CallsInv
<1>6. CASE DumpEDMDefinition
  <2>1. tool' \in {"ok", "failed"}
    BY <1>6 DEF DumpEDMDefinition
  <2>. QED  BY <1>1, <2>1 DEF CallsInv
<1>7. CASE ListEntries
  <2>1. tool = "opened" /\ toRead' = FullEntryList(ParseEventRange(args.entries), args.category)
    BY <1>7 DEF ListEntries
  <2>2. args \in Arguments /\ args.entries.form # "other" /\ args.category \in Categories
    BY <2>1, ArgumentsAssumption DEF ToolInv
  <2>3. toRead' \in Seq(Nat)
    BY <2>1, <2>2, EntriesType, ArgumentsListed
  <2>. QED  BY <1>1, <2>3 DEF CallsInv
<1>8. CASE PrintFrame
  <2>1. tool = "reading" /\ toRead # <<>> /\ (tool' = "reading" => toRead' = Tail(toRead))
    BY <1>8 DEF PrintFrame
  <2>2. kind' = "sio" => kind = "sio"
    BY <1>8 DEF PrintFrame, ReadAll, ReadRoot, ReadSio
  <2>3. toRead \in Seq(Nat) => Tail(toRead) \in Seq(Nat)
    BY <2>1
  <2>. QED  BY <1>1, <2>1, <2>2, <2>3 DEF CallsInv
<1>9. CASE EndLoop
  BY <1>1, <1>9 DEF EndLoop, CallsInv
<1>10. CASE CrashInStats
  BY <1>1, <1>10 DEF CrashInStats, CallsInv
<1>. QED  BY <1>2, <1>3, <1>4, <1>5, <1>6, <1>7, <1>8, <1>9, <1>10 DEF DumpNext

-----------------------------------------------------------------------------
(* The reader of sio files and the abstract reader.                        *)

\* The entries of all categories, which the abstract reader has.
SioStored == [c \in Categories |-> Sio!StoredEntries(c)]
SioEntry == [at : Seq(Nat), colls : SUBSET DOMAIN Models]

\* A name is that of the first block which is for it.
LEMMA BlockOfName ==
  ASSUME NEW table, NEW rec, IsFrame(table, rec), NEW fd, fd.table = table, fd.data = rec,
         NEW i \in DOMAIN table.names
  PROVE  Sio!GetCollectionBuffers(fd, table.names[i]) = table.names[i]
<1>. DEFINE name == table.names[i]
            at == {k \in DOMAIN table.names : table.names[k] = name}
<1>1. DOMAIN table.names = 1 .. Len(table.names) /\ Len(table.names) \in Nat
  BY DEF IsFrame, IsSeq
<1>2. at \subseteq Nat /\ at # {}
  BY <1>1
<1>3. \E m \in at : \A k \in at : m <= k
  <2>. HIDE DEF at
  <2>. QED  BY <1>2, Least
<1>4. Sio!Min(at) \in at
  <2>. HIDE DEF at
  <2>. QED  BY <1>3 DEF Sio!Min
<1>5. PICK m : m = Sio!Min(at) /\ m \in at
  BY <1>4
<1>6. Sio!IndexOfName(fd, name) = m + 1
  BY <1>5 DEF Sio!IndexOfName
<1>7. m \in DOMAIN table.names /\ table.names[m] = name
  BY <1>5
<1>. HIDE DEF at, name
<1>8. Sio!GetCollectionBuffers(fd, name) = rec.blocks[m + 1]
  BY <1>6 DEF Sio!GetCollectionBuffers
<1>9. Sio!GetCollectionBuffers(fd, name) = name
  BY <1>7, <1>8 DEF IsFrame
<1>. QED  BY <1>9 DEF name

\* A frame that is made of the records of one entry has what was selected of it.
LEMMA FrameGives ==
  ASSUME NEW table, NEW rec, IsFrame(table, rec), NEW names, IsSeq(names),
         Sio!Range(names) \subseteq Sio!Range(table.names)
  PROVE  Sio!Given(Sio!FrameData(table, rec, names)) =
           [status |-> "frame", sources |-> {<<table.id>>},
            colls |-> Sio!Abstract!Selected(Sio!Range(names), Sio!Range(table.names))]
<1>. DEFINE fd == Sio!FrameData(table, rec, names)
            S == table.names
            flags == [i \in DOMAIN S |-> names = <<>> \/ S[i] \in Sio!Range(names)]
<1>1. fd = [status |-> "frame", table |-> table, data |-> rec, availableBlocks |-> <<TRUE>> \o (flags)]
  BY DEF Sio!FrameData, Sio!AvailableBlocks
<1>2. fd.status = "frame" /\ fd.table = table /\ fd.data = rec /\ fd.availableBlocks = <<TRUE>> \o (flags)
  BY <1>1
<1>3. DOMAIN S = 1 .. Len(S) /\ Len(S) \in Nat
  BY DEF IsFrame, IsSeq
<1>4. IsSeq(flags) /\ Len(flags) = Len(S)
  <2>1. flags \in [1 .. Len(S) -> BOOLEAN]
    <3>1. \A i \in DOMAIN S : (names = <<>> \/ S[i] \in Sio!Range(names)) \in BOOLEAN
      BY Zenon
    <3>. QED  BY <1>3, <3>1
  <2>2. flags \in Seq(BOOLEAN) /\ Len(flags) = Len(S)
    BY <1>3, <2>1
  <2>. QED  BY <2>2 DEF IsSeq
<1>5. \A i \in DOMAIN S : flags[i] = (names = <<>> \/ S[i] \in Sio!Range(names))
  BY Zenon
<1>. HIDE DEF fd, flags
<1>6. \A j \in 1 .. Len(S) : fd.availableBlocks[1 + j] = flags[j]
  <2>1. IsSeq(<<TRUE>>) /\ Len(<<TRUE>>) = 1
    BY ShortSeqs
  <2>2. \A j \in 1 .. Len(flags) : (<<TRUE>> \o (flags))[Len(<<TRUE>>) + j] = flags[j]
    BY ONLY <1>4, <2>1, Joined
  <2>. QED  BY <1>2, <1>4, <2>1, <2>2
<1>7. \A j \in DOMAIN S : fd.availableBlocks[j + 1] = (names = <<>> \/ S[j] \in Sio!Range(names))
  <2>1. \A j \in DOMAIN S : fd.availableBlocks[j + 1] = flags[j]
    <3>1. \A j \in 1 .. Len(S) : 1 + j = j + 1
      OBVIOUS
    <3>. QED  BY <1>3, <1>6, <3>1
  <2>. QED  BY <1>5, <2>1, Zenon
<1>8. Sio!GetAvailableCollections(fd) = {S[i] : i \in {j \in DOMAIN S : names = <<>> \/ S[j] \in Sio!Range(names)}}
  <2>1. {j \in DOMAIN S : fd.availableBlocks[j + 1]} = {j \in DOMAIN S : names = <<>> \/ S[j] \in Sio!Range(names)}
    BY <1>7, Zenon
  <2>. QED  BY <1>2, <2>1, Zenon DEF Sio!GetAvailableCollections
<1>9. names = <<>> <=> Sio!Range(names) = {}
  <2>1. PICK X : names \in Seq(X)
    BY DEF IsSeq
  <2>2. ASSUME names # <<>> PROVE names[1] \in Sio!Range(names)
    <3>1. 1 \in DOMAIN names
      BY <2>1, <2>2
    <3>. QED  BY <3>1 DEF Sio!Range
  <2>3. ASSUME names = <<>> PROVE Sio!Range(names) = {}
    <3>1. DOMAIN names = {}
      BY <2>3
    <3>. QED  BY <3>1 DEF Sio!Range
  <2>. QED  BY <2>2, <2>3
<1>10. Sio!GetAvailableCollections(fd) = Sio!Abstract!Selected(Sio!Range(names), Sio!Range(S))
  BY <1>8, <1>9 DEF Sio!Abstract!Selected, Sio!Range
<1>11. \A n \in Sio!GetAvailableCollections(fd) : Sio!GetCollectionBuffers(fd, n) = n
  <2>1. \A i \in DOMAIN S : Sio!GetCollectionBuffers(fd, S[i]) = S[i]
    BY <1>2, BlockOfName
  <2>. QED  BY <1>8, <2>1
<1>12. {Sio!GetCollectionBuffers(fd, n) : n \in Sio!GetAvailableCollections(fd)} = Sio!GetAvailableCollections(fd)
  BY <1>11
<1>13. {<<fd.table.id>>, <<fd.data.id>>} = {<<table.id>>}
  BY <1>2 DEF IsFrame
<1>14. Sio!Given(fd) = [status |-> "frame", sources |-> {<<table.id>>}, colls |-> Sio!GetAvailableCollections(fd)]
  BY <1>2, <1>12, <1>13 DEF Sio!Given
<1>. QED  BY <1>10, <1>14 DEF fd

\* The numbers of the abstract reader, a position and what it leads to.
LEMMA PositionOf ==
  ASSUME SioInv, RecordsInv, kind = "sio", NEW c \in Categories, NEW n \in Nat, NEW p, p = Sio!GetPosition(tocRecord, c, n)
  PROVE  /\ IsSeq(Sio!StoredEntries(c)) /\ p \in Nat
         /\ n < Len(Sio!StoredEntries(c)) => p # 0 /\ RecordsAt(file, p, Sio!StoredEntries(c)[n + 1])
         /\ n >= Len(Sio!StoredEntries(c)) => p = 0
<1>1. reader # "new" /\ IsTOC(toc)
  BY DEF SioInv, ReaderInv, WriterInv
<1>2. CASE writer = "closed"
  <2>1. tocRecord = toc /\ Sio!StoredEntries(c) = Sio!EntriesOf(written, c)
    BY <1>1, <1>2 DEF SioInv, ReaderInv, Sio!StoredEntries
  <2>2. PICK ps, entries : ps = Sio!Positions(toc, c) /\ entries = Sio!EntriesOf(written, c)
    OBVIOUS
  <2>3. ps \in Seq(Places) /\ Leads(file, ps, entries)
    BY <1>1, <1>2, <2>2, PositionsAre DEF RecordsInv
  <2>4. IsSeq(entries) /\ Len(entries) = Len(ps) /\ \A i \in 1 .. Len(ps) : RecordsAt(file, ps[i], entries[i])
    BY <2>3 DEF Leads
  <2>5. p = IF n < Len(ps) THEN ps[n + 1] ELSE 0
    BY <2>1, <2>2 DEF Sio!GetPosition, Sio!GetNRecords
  <2>6. Len(ps) \in Nat /\ \A i \in 1 .. Len(ps) : ps[i] \in Places
    BY <2>3
  <2>7. ASSUME n < Len(ps) PROVE p \in Nat /\ p # 0 /\ RecordsAt(file, p, entries[n + 1])
    <3>1. n + 1 \in 1 .. Len(ps)
      BY <2>6, <2>7
    <3>2. ps[n + 1] \in Nat /\ ps[n + 1] # 0
      BY <2>6, <3>1, SioAssumption DEF Places
    <3>. QED  BY <2>4, <2>5, <2>7, <3>1, <3>2
  <2>8. n >= Len(ps) => p = 0
    BY <2>5, <2>6
  <2>. QED  BY <2>1, <2>2, <2>4, <2>7, <2>8
<1>3. CASE writer # "closed"
  <2>1. tocRecord = <<>> /\ Sio!StoredEntries(c) = <<>>
    BY <1>1, <1>3 DEF SioInv, ReaderInv, Sio!StoredEntries
  <2>2. IsTOC(<<>>) /\ IsSeq(<<>>) /\ Len(<<>>) = 0
    BY DEF IsTOC, IsSeq
  <2>3. Sio!Positions(tocRecord, c) = <<>>
    BY <2>1, <2>2, PositionsAre
  <2>4. p = 0
    BY <2>2, <2>3 DEF Sio!GetPosition, Sio!GetNRecords
  <2>. QED  BY <2>1, <2>2, <2>4
<1>. QED  BY <1>2, <1>3

\* What was stored stays when only the reader goes on.
LEMMA StoredStays ==
  ASSUME UNCHANGED <<writer, written>>, reader = "new" <=> reader' = "new"
  PROVE  SioStored' = SioStored
  BY DEF SioStored, Sio!StoredEntries

\* To read an entry of an sio file reads it from the abstract reader.
LEMMA SioAbstractRead ==
  ASSUME SioInv, RecordsInv, CallsInv, kind = "sio", NEW c \in Categories, NEW n \in Nat, NEW names \in SioRequests,
         Sio!Read(c, n, names), reader' # "gone"
  PROVE  Sio!Abstract!Read(c, n)
<1>. DEFINE p == Sio!GetPosition(tocRecord, c, n)
            table == file[p + 1].content
            rec == file[p + 2].content
            fd == Sio!FrameData(table, rec, names)
            request == Sio!Range(names)
            entries == Sio!StoredEntries(c)
<1>1. /\ IsSeq(entries) /\ p \in Nat
      /\ n < Len(entries) => p # 0 /\ RecordsAt(file, p, entries[n + 1])
      /\ n >= Len(entries) => p = 0
  BY PositionOf
<1>2. Len(entries) \in Nat
  BY <1>1 DEF IsSeq
<1>3. \/ p = 0 /\ nameCtr' = [nameCtr EXCEPT ![c] = n] /\ frameData' = Sio!Null
      \/ p # 0 /\ nameCtr' = [nameCtr EXCEPT ![c] = n + 1] /\ frameData' = fd
  <2>. HIDE DEF p
  <2>1. p + 1 + 1 = p + 2
    BY <1>1
  <2>. QED  BY <2>1 DEF Sio!Read, Sio!ReadRecord, p
<1>4. SioStored[c] = entries
  BY DEF SioStored
<1>. DEFINE R == {Sio!Range(r) : r \in SioRequests}
<1>7. request \in R
  OBVIOUS
<1>. HIDE DEF p, table, rec, fd, entries, request, R
<1>5. CASE n >= Len(entries)
  <2>1. p = 0
    BY <1>1, <1>5
  <2>2. nameCtr' = [nameCtr EXCEPT ![c] = n] /\ frameData' = Sio!Null
    BY <1>3, <2>1
  <2>3. Sio!Given(frameData)' = Sio!Abstract!Null
    <3>1. Sio!Given(Sio!Null) = Sio!Abstract!Null
      BY DEF Sio!Given, Sio!Null, Sio!Abstract!Null, Sio!Abstract!NoResult
    <3>2. Sio!Given(frameData)' = Sio!Given(frameData')
      BY DEF Sio!Given, Sio!GetCollectionBuffers, Sio!IndexOfName, Sio!GetAvailableCollections
    <3>. QED  BY <2>2, <3>1, <3>2
  <2>. QED  BY <1>4, <1>5, <2>2, <2>3 DEF Sio!Abstract!Read, SioStored
<1>6. CASE n < Len(entries)
  <2>1. /\ nameCtr' = [nameCtr EXCEPT ![c] = n + 1] /\ frameData' = fd
        /\ RecordsAt(file, p, entries[n + 1])
    BY <1>1, <1>3, <1>6
  <2>2. IsFrame(table, rec) /\ entries[n + 1] = EntryOf(table)
    BY <2>1 DEF RecordsAt, table, rec
  <2>3. entries[n + 1].at = <<table.id>> /\ entries[n + 1].colls = Sio!Range(table.names)
    BY <2>2 DEF EntryOf
  <2>4. IsSeq(names)
    BY NamesAreSeq
  <2>5. Sio!Given(frameData)' = Sio!Given(fd)
    BY <2>1 DEF Sio!Given, Sio!GetCollectionBuffers, Sio!IndexOfName, Sio!GetAvailableCollections
  <2>6. CASE request \subseteq Sio!Range(table.names)
    <3>1. Sio!Given(fd) = [status |-> "frame", sources |-> {<<table.id>>},
                           colls |-> Sio!Abstract!Selected(request, Sio!Range(table.names))]
      BY <2>2, <2>4, <2>6, FrameGives DEF fd, request
    <3>2. Sio!Abstract!FrameOf(entries[n + 1], request) = Sio!Given(fd)
      BY <2>3, <3>1 DEF Sio!Abstract!FrameOf
    <3>3. \E r \in R : Sio!Given(fd) = Sio!Abstract!FrameOf(entries[n + 1], r)
      BY <1>7, <3>2
    <3>. QED  BY <1>4, <1>6, <2>1, <2>5, <3>3 DEF Sio!Abstract!Read, SioStored, R
  <2>7. CASE ~(request \subseteq Sio!Range(table.names))
    <3>1. request # {}
      BY <2>7
    <3>2. fd = Sio!Thrown
      BY <2>7 DEF fd, request, Sio!FrameData
    <3>3. Sio!Given(Sio!Thrown) = Sio!Abstract!Thrown
      BY DEF Sio!Given, Sio!Thrown, Sio!Abstract!Thrown, Sio!Abstract!NoResult
    <3>4. \E r \in R : r # {}
      BY <1>7, <3>1
    <3>. QED  BY <1>4, <1>6, <2>1, <2>5, <3>2, <3>3, <3>4 DEF Sio!Abstract!Read, SioStored, R
  <2>. QED  BY <2>6, <2>7
<1>. QED  BY <1>1, <1>2, <1>5, <1>6

\* The entries that a reader of an sio file finds are of the abstract reader.
LEMMA SioStoredType ==
  ASSUME SioInv, RecordsInv
  PROVE  SioStored \in [Categories -> Seq(SioEntry)]
<1>. SUFFICES ASSUME NEW c \in Categories PROVE Sio!StoredEntries(c) \in Seq(SioEntry)
  BY DEF SioStored
<1>1. CASE Sio!StoredEntries(c) = <<>>
  BY <1>1
<1>2. CASE Sio!StoredEntries(c) # <<>>
  <2>1. PICK entries : entries = Sio!EntriesOf(written, c) /\ Sio!StoredEntries(c) = entries
    BY <1>2 DEF Sio!StoredEntries
  <2>2. writer = "closed"
    BY <1>2 DEF Sio!StoredEntries
  <2>3. PICK positions : Leads(file, positions, entries)
    BY <2>1, <2>2 DEF RecordsInv
  <2>4. ASSUME NEW i \in 1 .. Len(entries) PROVE entries[i] \in SioEntry
    <3>1. RecordsAt(file, positions[i], entries[i])
      BY <2>3 DEF Leads
    <3>2. PICK table, rec : IsFrame(table, rec) /\ entries[i] = EntryOf(table)
      BY <3>1 DEF RecordsAt
    <3>3. table.id \in Nat /\ Sio!Range(table.names) \subseteq DOMAIN Models
      BY <3>2 DEF IsFrame
    <3>4. <<table.id>> \in Seq(Nat)
      BY <3>3
    <3>. QED  BY <3>2, <3>3, <3>4 DEF EntryOf, SioEntry
  <2>5. entries \in Seq(SioEntry)
    <3>1. PICK X : entries \in Seq(X)
      BY <2>3 DEF Leads, IsSeq
    <3>2. entries = [i \in 1 .. Len(entries) |-> entries[i]] /\ Len(entries) \in Nat
      BY <3>1
    <3>. QED  BY <2>4, <3>2
  <2>. QED  BY <2>1, <2>5
<1>. QED  BY <1>1, <1>2

\* The first state is one of the abstract reader.
LEMMA SioAbstractInit == ToolInit => Sio!Abstract!Init
<1>. SUFFICES ASSUME ToolInit PROVE Sio!Abstract!Init
  OBVIOUS
<1>. QED  BY DEF Sio!Abstract!Init, Sio!StoredEntries, Sio!Abstract!NoResult, ToolInit, MCInit, Sio!Init, Sio!Given, Sio!NoFrame

\* Every step is one of the abstract reader, or changes nothing of it.
LEMMA SioAbstractStep ==
  ASSUME SioInv, RecordsInv, ToolInv, CallsInv, SioInv', RecordsInv', [DumpNext]_<<readersVars, toolVars>>
  PROVE  [Sio!Abstract!Next]_Sio!Abstract!vars
<1>1. ASSUME SioStored' = SioStored, UNCHANGED <<nameCtr, frameData>> PROVE UNCHANGED Sio!Abstract!vars
  <2>1. Sio!Given(frameData)' = Sio!Given(frameData)
    BY <1>1 DEF Sio!Given, Sio!GetCollectionBuffers, Sio!IndexOfName, Sio!GetAvailableCollections
  <2>. QED  BY <1>1, <2>1 DEF Sio!Abstract!vars, SioStored
<1>2. ASSUME reader = "new" PROVE SioStored = [c \in Categories |-> <<>>]
  BY <1>2 DEF SioStored, Sio!StoredEntries
<1>3. ASSUME reader' = "new" PROVE SioStored' = [c \in Categories |-> <<>>]
  BY <1>3 DEF SioStored, Sio!StoredEntries
<1>4. CASE SioUntouched
  <2>1. UNCHANGED <<writer, written, reader, nameCtr, frameData>>
    BY <1>4 DEF SioUntouched, sioVars
  <2>2. SioStored' = SioStored
    BY <2>1, StoredStays
  <2>. QED  BY <1>1, <2>1, <2>2
<1>5. CASE SioWriting
  <2>1. UNCHANGED <<nameCtr, frameData>> /\ reader = "new" /\ reader' = "new"
    <3>1. \A path : Sio!Create(path) => UNCHANGED Sio!readerVars
      BY DEF Sio!Create
    <3>2. Sio!CreateOther \/ Sio!Finish \/ Sio!Crash => UNCHANGED Sio!readerVars
      BY DEF Sio!CreateOther, Sio!Finish, Sio!Crash
    <3>3. \A c, f, names : Sio!WriteFrame(c, f, names) => UNCHANGED Sio!readerVars
      BY DEF Sio!WriteFrame
    <3>4. UNCHANGED Sio!readerVars
      BY <1>5, <3>1, <3>2, <3>3 DEF SioWriting
    <3>5. reader = "new"
      BY <1>5 DEF SioWriting, SioInv, ReaderInv
    <3>. QED  BY <3>4, <3>5 DEF Sio!readerVars
  <2>. QED  BY <1>1, <1>2, <1>3, <2>1
<1>6. CASE SioOpening
  <2>1. reader = "new" /\ UNCHANGED <<nameCtr, frameData>>
    BY <1>6 DEF SioOpening, Sio!OpenFile
  <2>2. SioStored = [c \in Categories |-> <<>>] /\ frameData = Sio!NoFrame
    BY <1>2, <2>1 DEF CallsInv
  <2>3. SioStored' \in [Categories -> Seq(SioEntry)]
    <3>1. (SioStored \in [Categories -> Seq(SioEntry)])'
      BY SioStoredType, PTL
    <3>. QED  BY <3>1 DEF SioEntry
  <2>4. Sio!Given(frameData) = Sio!Abstract!NoResult
    BY <2>2 DEF Sio!Given, Sio!NoFrame, Sio!Abstract!NoResult
  <2>5. Sio!Given(frameData)' = Sio!Given(frameData)
    BY <2>1 DEF Sio!Given, Sio!GetCollectionBuffers, Sio!IndexOfName, Sio!GetAvailableCollections
  <2>6. Sio!Abstract!Open
    BY <2>1, <2>2, <2>3, <2>4, <2>5 DEF Sio!Abstract!Open, SioStored, SioEntry
  <2>. QED  BY <2>6 DEF Sio!Abstract!Next
<1>7. ASSUME NEW c, NEW n, NEW names, SioReading(c, n, names) PROVE [Sio!Abstract!Next]_Sio!Abstract!vars
  <2>1. kind = "sio" /\ SioAsks(c, n, names) /\ Sio!Read(c, n, names)
    BY <1>7 DEF SioReading
  <2>2. c \in Categories /\ n \in Nat /\ (n \in 0 .. EntryRange - 1 \/ n = nameCtr[c])
        /\ names \in SioRequests
    BY <2>1, CallsAsked
  <2>3. UNCHANGED <<writer, written>> /\ reader = "open" /\ reader' # "new"
    BY <2>1 DEF Sio!Read, Sio!writerVars
  <2>4. SioStored' = SioStored
    BY <2>3, StoredStays
  <2>5. CASE reader' = "gone"
    <3>1. UNCHANGED <<nameCtr, frameData>>
      BY <2>1, <2>3, <2>5 DEF Sio!Read
    <3>. QED  BY <1>1, <2>4, <3>1
  <2>6. CASE reader' # "gone"
    <3>1. Sio!Abstract!Read(c, n)
      BY <2>1, <2>2, <2>6, SioAbstractRead
    <3>2. Sio!Abstract!ReadNextEntry \/ Sio!Abstract!ReadEntry
      BY <2>2, <3>1 DEF Sio!Abstract!ReadNextEntry, Sio!Abstract!ReadEntry
    <3>. QED  BY <2>4, <3>2 DEF Sio!Abstract!Next, SioStored
  <2>. QED  BY <2>5, <2>6
<1>. QED  BY <1>4, <1>5, <1>6, <1>7, SioStep

\* For any frames, requests and order of calls, also when the writer ended early, a
\* reader of an sio file implements the abstract reader, as long as the records have
\* positions of 32 bits (SIOWriter.cc:56, SIOReader.cc:39).
THEOREM SioReaderImplements == FileFits /\ DumpSpec => SioReadsEntries
<1>. DEFINE Inv == ReadInv /\ ToolInv /\ SioInv /\ RecordsInv /\ CallsInv
<1>1. ToolInit => Inv
  BY ReadInvInit, ToolInvInit, SioInit, RecordsInit, CallsInit
<1>2. FileFits /\ Inv /\ [DumpNext]_<<readersVars, toolVars>> => Inv'
  BY ReadPreserved, ToolPreserved, SioPreserved, RecordsPreserved, CallsPreserved
<1>3. Inv /\ Inv' /\ [DumpNext]_<<readersVars, toolVars>> => [Sio!Abstract!Next]_Sio!Abstract!vars
  BY SioAbstractStep
<1>4. FileFits => []FileFits
  <2>1. FileFits => FileFits'
    BY DEF FileFits
  <2>. QED  BY <2>1, PTL
<1>. HIDE DEF Inv
<1>. QED  BY <1>1, <1>2, <1>3, <1>4, SioAbstractInit, PTL DEF DumpSpec, SioReadsEntries, Sio!SioReadsEntries, Sio!Abstract!Spec

-----------------------------------------------------------------------------
(* The trees of a chain and the records of an old sio file.                *)

(* Old files: trees of entries, and records of which some are events.      *)

\* The numbers of entries up to each tree are partial sums.
LEMMA TreesAddUp ==
  ASSUME NEW s \in Seq(Nat)
  PROVE  PartialSums(s, Legacy!EntriesUpTo(s))
<1>. DEFINE IsIt(f) == f = [t \in 0 .. Len(s) |-> IF t = 0 THEN 0 ELSE f[t - 1] + s[t]]
<1>1. PICK f : PartialSums(s, f)
  BY SumOf
<1>2. IsIt(f)
  BY <1>1 DEF PartialSums
<1>3. PICK g : g = CHOOSE h : IsIt(h)
  <2>. HIDE DEF IsIt
  <2>. QED  OBVIOUS
<1>4. IsIt(g)
  BY <1>2, <1>3
<1>5. Legacy!EntriesUpTo(s) = g
  BY <1>3 DEF Legacy!EntriesUpTo
<1>6. Len(s) \in Nat /\ \A k \in 1 .. Len(s) : s[k] \in Nat
  OBVIOUS
<1>7. g[0] = 0 /\ \A k \in 1 .. Len(s) : g[k] = g[k - 1] + s[k]
  BY <1>4, <1>6
<1>8. \A k \in 0 .. Len(s) : g[k] \in Nat
  <2>. DEFINE T == {k \in Nat : k <= Len(s) => g[k] \in Nat}
  <2>. HIDE DEF IsIt
  <2>1. 0 \in T
    BY <1>7
  <2>2. ASSUME NEW k \in Nat, k \in T PROVE k + 1 \in T
    <3>1. SUFFICES ASSUME k + 1 <= Len(s) PROVE g[k + 1] \in Nat
      OBVIOUS
    <3>2. k + 1 \in 1 .. Len(s) /\ (k + 1) - 1 = k /\ g[k] \in Nat
      BY <1>6, <2>2, <3>1
    <3>3. g[k + 1] = g[k] + s[k + 1] /\ s[k + 1] \in Nat
      BY <1>6, <1>7, <3>2
    <3>. QED  BY <3>2, <3>3
  <2>. HIDE DEF T
  <2>3. Nat \subseteq T
    BY <2>1, <2>2, Induction
  <2>. QED  BY <1>6, <2>3 DEF T
<1>9. g = [k \in 0 .. Len(s) |-> g[k]]
  BY <1>4
<1>. HIDE DEF IsIt
<1>. QED  BY <1>5, <1>7, <1>8, <1>9 DEF PartialSums

\* The events up to each record.
EventsAre(r, e) ==
  /\ DOMAIN e = 0 .. Len(r)
  /\ e[0] = <<>>
  /\ \A k \in 0 .. Len(r) : e[k] \in Seq(1 .. Len(r))
  /\ \A k \in 1 .. Len(r) : e[k] = IF r[k] = "event_record" THEN Append(e[k - 1], k) ELSE e[k - 1]
LEMMA EventsCollected ==
  ASSUME NEW r, IsSeq(r)
  PROVE  EventsAre(r, Legacy!EventsUpTo(r))
<1>. DEFINE n == Len(r)
            S == Seq(1 .. n)
            F == [p \in S \X (1 .. n) |-> IF r[p[2]] = "event_record" THEN Append(p[1], p[2]) ELSE p[1]]
            IsIt(f) == f = [k \in 0 .. n |-> IF k = 0 THEN <<>>
                                             ELSE IF r[k] = "event_record" THEN Append(f[k - 1], k) ELSE f[k - 1]]
<1>1. n \in Nat
  BY DEF IsSeq
<1>2. \A x \in S, k \in 1 .. n : F[<<x, k>>] = IF r[k] = "event_record" THEN Append(x, k) ELSE x
  OBVIOUS
<1>3. IsStep(S, n, F)
  <2>1. \A x \in S, k \in 1 .. n : Append(x, k) \in S
    OBVIOUS
  <2>. HIDE DEF S, n
  <2>. QED  BY <2>1 DEF IsStep
<1>4. <<>> \in S
  OBVIOUS
<1>. HIDE DEF S, F, n
<1>5. PICK f : IsRun(S, <<>>, n, F, f)
  BY <1>1, <1>3, <1>4, Recursion
<1>6. IsIt(f)
  <2>1. f \in [0 .. n -> S] /\ f[0] = <<>> /\ \A k \in 1 .. n : f[k] = F[<<f[k - 1], k>>]
    BY <1>5 DEF IsRun
  <2>2. ASSUME NEW k \in 0 .. n, k # 0 PROVE f[k] = IF r[k] = "event_record" THEN Append(f[k - 1], k) ELSE f[k - 1]
    <3>1. k \in 1 .. n /\ k - 1 \in 0 .. n
      BY <1>1, <2>2
    <3>2. f[k - 1] \in S
      BY <2>1, <3>1
    <3>. QED  BY <1>2, <2>1, <3>1, <3>2
  <2>3. f = [k \in 0 .. n |-> f[k]]
    BY <2>1
  <2>4. f[0] = <<>>
    BY <2>1
  <2>. QED  BY <2>2, <2>3, <2>4
<1>7. PICK g : g = CHOOSE h : IsIt(h)
  <2>. HIDE DEF IsIt
  <2>. QED  OBVIOUS
<1>8. IsIt(g)
  BY <1>6, <1>7
<1>9. Legacy!EventsUpTo(r) = g
  BY <1>7 DEF Legacy!EventsUpTo, n
<1>10. g[0] = <<>> /\ DOMAIN g = 0 .. n /\ g = [k \in 0 .. n |-> g[k]]
  BY <1>1, <1>8
<1>11. ASSUME NEW k \in 1 .. n PROVE g[k] = IF r[k] = "event_record" THEN Append(g[k - 1], k) ELSE g[k - 1]
  <2>1. k \in 0 .. n /\ k # 0
    BY <1>1
  <2>. QED  BY <1>8, <2>1
<1>. HIDE DEF IsIt
<1>12. IsRun(S, <<>>, n, F, g)
  <2>1. \A k \in 1 .. n : g[k - 1] \in S => g[k] = F[<<g[k - 1], k>>]
    BY <1>2, <1>11
  <2>. QED  BY <1>1, <1>3, <1>4, <1>10, <2>1, RunOfSteps
<1>13. \A k \in 0 .. n : g[k] \in S
  BY <1>12 DEF IsRun
<1>. QED  BY <1>9, <1>10, <1>11, <1>13 DEF EventsAre, S, n

\* As many events as there are among the first records.
LEMMA EventsCounted ==
  ASSUME NEW r, IsSeq(r), NEW e, EventsAre(r, e)
  PROVE  /\ Len(r) \in Nat
         /\ \A k \in 0 .. Len(r) : Len(e[k]) \in Nat
         /\ \A i, j \in 0 .. Len(r) : i <= j => Len(e[i]) <= Len(e[j])
         /\ \A k \in 1 .. Len(r) : r[k] = "event_record" => Len(e[k]) = Len(e[k - 1]) + 1
<1>. DEFINE n == Len(r)
            s == [k \in 1 .. n |-> IF r[k] = "event_record" THEN 1 ELSE 0]
            g == [k \in 0 .. n |-> Len(e[k])]
<1>1. n \in Nat
  BY DEF IsSeq
<1>2. s \in Seq(Nat) /\ Len(s) = n /\ \A k \in 1 .. n : s[k] = IF r[k] = "event_record" THEN 1 ELSE 0
  BY <1>1
<1>3. \A k \in 0 .. n : Len(e[k]) \in Nat /\ g[k] = Len(e[k])
  BY DEF EventsAre
<1>4. ASSUME NEW k \in 1 .. n PROVE Len(e[k]) = Len(e[k - 1]) + s[k]
  <2>1. k - 1 \in 0 .. n
    BY <1>1
  <2>2. e[k - 1] \in Seq(1 .. Len(r))
    BY <2>1 DEF EventsAre
  <2>3. Len(Append(e[k - 1], k)) = Len(e[k - 1]) + 1 /\ Len(e[k - 1]) \in Nat
    BY <2>2
  <2>4. e[k] = IF r[k] = "event_record" THEN Append(e[k - 1], k) ELSE e[k - 1]
    BY DEF EventsAre
  <2>. HIDE DEF n, s
  <2>. QED  BY <1>2, <2>3, <2>4
<1>5. PartialSums(s, g)
  <2>1. g \in [0 .. n -> Nat]
    BY <1>3
  <2>2. g[0] = 0
    BY <1>1, <1>3 DEF EventsAre
  <2>3. ASSUME NEW k \in 1 .. n PROVE g[k] = g[k - 1] + s[k]
    <3>1. k \in 0 .. n /\ k - 1 \in 0 .. n
      BY <1>1
    <3>. HIDE DEF n, s, g
    <3>. QED  BY <1>3, <1>4, <3>1
  <2>. HIDE DEF n, s, g
  <2>. QED  BY <1>2, <2>1, <2>2, <2>3 DEF PartialSums
<1>. HIDE DEF s, g
<1>6. ASSUME NEW i \in 0 .. n, NEW j \in 0 .. n, i <= j PROVE Len(e[i]) <= Len(e[j])
  <2>1. i \in 0 .. Len(s) /\ j \in i .. Len(s)
    BY <1>2, <1>6
  <2>2. g[i] <= g[j]
    BY <1>2, <1>5, <2>1, SumsGrow
  <2>. QED  BY <1>3, <2>2
<1>7. ASSUME NEW k \in 1 .. n, r[k] = "event_record" PROVE Len(e[k]) = Len(e[k - 1]) + 1
  BY <1>2, <1>4, <1>7
<1>. QED  BY <1>1, <1>3, <1>6, <1>7

\* Each event is where the events before it are counted.
LEMMA EventsPlaced ==
  ASSUME NEW r, IsSeq(r), NEW e, EventsAre(r, e), NEW k \in 0 .. Len(r)
  PROVE  \A i \in 1 .. Len(e[k]) :
           /\ e[k][i] \in 1 .. k /\ r[e[k][i]] = "event_record"
           /\ Len(e[e[k][i]]) = i /\ Len(e[e[k][i] - 1]) = i - 1
<1>. DEFINE n == Len(r)
            IsAt(m, i) == /\ e[m][i] \in 1 .. m /\ r[e[m][i]] = "event_record"
                        /\ Len(e[e[m][i]]) = i /\ Len(e[e[m][i] - 1]) = i - 1
            T == {m \in Nat : m <= n => \A i \in 1 .. Len(e[m]) : IsAt(m, i)}
<1>1. n \in Nat /\ (\A m \in 0 .. n : Len(e[m]) \in Nat)
      /\ \A m \in 1 .. n : r[m] = "event_record" => Len(e[m]) = Len(e[m - 1]) + 1
  BY EventsCounted
<1>2. 0 \in T
  <2>1. Len(e[0]) = 0
    BY DEF EventsAre
  <2>. HIDE DEF IsAt
  <2>. QED  BY <2>1
<1>3. ASSUME NEW m \in Nat, m \in T PROVE m + 1 \in T
  <2>. HIDE DEF IsAt
  <2>1. SUFFICES ASSUME m + 1 <= n, NEW i \in 1 .. Len(e[m + 1]) PROVE IsAt(m + 1, i)
    OBVIOUS
  <2>. USE DEF IsAt
  <2>2. m + 1 \in 1 .. n /\ (m + 1) - 1 = m /\ m \in 0 .. n /\ m + 1 \in 0 .. n
    BY <1>1, <2>1
  <2>3. \A j \in 1 .. Len(e[m]) : IsAt(m, j)
    BY <1>1, <1>3, <2>2
  <2>4. e[m + 1] = IF r[m + 1] = "event_record" THEN Append(e[m], m + 1) ELSE e[m]
    BY <2>2 DEF EventsAre
  <2>5. e[m] \in Seq(1 .. n) /\ Len(e[m]) \in Nat
    BY <2>2 DEF EventsAre
  <2>6. ASSUME i \in 1 .. Len(e[m]) PROVE IsAt(m + 1, i)
    <3>1. e[m + 1][i] = e[m][i]
      BY <2>4, <2>5, <2>6
    <3>2. IsAt(m, i)
      BY <2>3, <2>6
    <3>3. \A x \in 1 .. m : x \in 1 .. m + 1
      OBVIOUS
    <3>. QED  BY <3>1, <3>2, <3>3
  <2>7. CASE r[m + 1] = "event_record"
    <3>1. Len(e[m + 1]) = Len(e[m]) + 1 /\ e[m + 1][Len(e[m]) + 1] = m + 1
      BY <2>4, <2>5, <2>7
    <3>2. CASE i = Len(e[m]) + 1
      <4>1. e[m + 1][i] = m + 1 /\ m + 1 \in 1 .. m + 1
        BY <3>1, <3>2
      <4>2. Len(e[(m + 1) - 1]) = i - 1
        BY <2>2, <2>5, <3>2
      <4>. QED  BY <2>7, <3>1, <3>2, <4>1, <4>2
    <3>3. CASE i # Len(e[m]) + 1
      <4>1. i \in 1 .. Len(e[m])
        BY <2>5, <3>1, <3>3
      <4>. QED  BY <2>6, <4>1
    <3>. QED  BY <3>2, <3>3
  <2>8. CASE r[m + 1] # "event_record"
    <3>1. i \in 1 .. Len(e[m])
      BY <2>4, <2>8
    <3>. QED  BY <2>6, <3>1
  <2>. QED  BY <2>7, <2>8
<1>. HIDE DEF T
<1>4. Nat \subseteq T
  BY <1>2, <1>3, Induction
<1>5. k \in T /\ k <= n
  BY <1>1, <1>4
<1>6. \A i \in 1 .. Len(e[k]) : IsAt(k, i)
  BY <1>5 DEF T
<1>. QED  BY <1>6

\* The events from a record on.
AreEventsFrom(S, r, from) ==
  S \subseteq Nat /\ \A i \in Nat : i \in S <=> i \in 1 .. Len(r) /\ i >= from /\ r[i] = "event_record"

\* From a record on, the first event is the one behind those before the record.
LEMMA NextEvent ==
  ASSUME NEW r, IsSeq(r), NEW e, EventsAre(r, e), NEW from \in 1 .. Len(r) + 1,
         NEW S, AreEventsFrom(S, r, from)
  PROVE  LET m == Len(e[from - 1])
             all == e[Len(r)]
         IN  /\ m \in Nat
             /\ S = {} => m = Len(all)
             /\ S # {} => /\ m < Len(all) /\ all[m + 1] = Legacy!Min(S)
                          /\ Legacy!Min(S) \in 1 .. Len(r) /\ Len(e[Legacy!Min(S)]) = m + 1
<1>. DEFINE n == Len(r)
            m == Len(e[from - 1])
            all == e[n]
<1>1. /\ n \in Nat
      /\ \A k \in 0 .. n : Len(e[k]) \in Nat
      /\ \A i, j \in 0 .. n : i <= j => Len(e[i]) <= Len(e[j])
      /\ \A k \in 1 .. n : r[k] = "event_record" => Len(e[k]) = Len(e[k - 1]) + 1
  BY EventsCounted
<1>2. DOMAIN r = 1 .. n
  BY DEF IsSeq
<1>3. from - 1 \in 0 .. n /\ n \in 0 .. n
  BY <1>1
<1>. DEFINE IsEvent(i) == i \in 1 .. n /\ i >= from /\ r[i] = "event_record"
<1>4. S \subseteq Nat /\ \A i \in Nat : i \in S <=> IsEvent(i)
  BY DEF AreEventsFrom
<1>5. m \in Nat /\ Len(all) \in Nat /\ m <= Len(all)
  BY <1>1, <1>3
<1>6. \A i \in 1 .. Len(all) : /\ all[i] \in 1 .. n /\ r[all[i]] = "event_record"
                               /\ Len(e[all[i]]) = i /\ Len(e[all[i] - 1]) = i - 1
  BY <1>3, EventsPlaced
<1>. HIDE DEF n, m, all
<1>7. ASSUME m < Len(all)
      PROVE  /\ all[m + 1] \in S /\ Len(e[all[m + 1] - 1]) = m
             /\ all[m + 1] \in 1 .. n /\ Len(e[all[m + 1]]) = m + 1
  <2>1. m + 1 \in 1 .. Len(all)
    BY <1>5, <1>7
  <2>2. PICK x : x = all[m + 1]
    OBVIOUS
  <2>3. x \in 1 .. n /\ r[x] = "event_record" /\ Len(e[x]) = m + 1 /\ Len(e[x - 1]) = (m + 1) - 1
    BY <1>6, <2>1, <2>2
  <2>4. ~(x <= from - 1)
    <3>1. SUFFICES ASSUME x <= from - 1 PROVE FALSE
      OBVIOUS
    <3>2. x \in 0 .. n
      BY <1>1, <2>3
    <3>3. Len(e[x]) <= m
      BY <1>1, <1>3, <3>1, <3>2 DEF m
    <3>. QED  BY <1>5, <2>3, <3>3
  <2>5. x >= from
    BY <2>3, <2>4
  <2>6. x \in S
    <3>1. x \in Nat /\ IsEvent(x)
      BY <1>1, <2>3, <2>5
    <3>. QED  BY <1>4, <3>1
  <2>. QED  BY <1>5, <2>2, <2>3, <2>6
<1>8. CASE S = {}
  <2>1. m = Len(all)
    BY <1>5, <1>7, <1>8
  <2>. QED  BY <1>5, <1>8, <2>1 DEF m, all, n
<1>9. CASE S # {}
  <2>1. S \subseteq Nat
    BY <1>4
  <2>2. \E y \in S : \A z \in S : y <= z
    BY <1>9, <2>1, Least
  <2>3. PICK y : y = Legacy!Min(S)
    OBVIOUS
  <2>4. y \in S /\ \A z \in S : y <= z
    BY <2>2, <2>3 DEF Legacy!Min
  <2>5. y \in 1 .. n /\ y >= from /\ r[y] = "event_record"
    BY <1>4, <2>1, <2>4
  <2>6. y - 1 \in 0 .. n /\ y \in 0 .. n /\ from - 1 <= y - 1
    BY <1>1, <2>5
  <2>7. Len(e[y]) = Len(e[y - 1]) + 1 /\ Len(e[y - 1]) \in Nat /\ m <= Len(e[y - 1]) /\ Len(e[y]) <= Len(all)
    <3>1. Len(e[y]) = Len(e[y - 1]) + 1 /\ Len(e[y - 1]) \in Nat
      BY <1>1, <2>5, <2>6
    <3>2. m <= Len(e[y - 1])
      BY <1>1, <1>3, <2>6 DEF m
    <3>3. Len(e[y]) <= Len(all)
      BY <1>1, <1>3, <2>5, <2>6 DEF all
    <3>. QED  BY <3>1, <3>2, <3>3
  <2>8. m < Len(all)
    BY <1>5, <2>7
  <2>9. PICK x : x = all[m + 1]
    OBVIOUS
  <2>10. x \in S /\ Len(e[x - 1]) = m /\ x \in 1 .. n /\ Len(e[x]) = m + 1
    BY <1>7, <2>8, <2>9
  <2>11. ~(y < x)
    <3>1. SUFFICES ASSUME y < x PROVE FALSE
      OBVIOUS
    <3>2. x - 1 \in 0 .. n /\ y <= x - 1
      BY <1>1, <2>5, <2>10, <3>1
    <3>3. Len(e[y]) <= Len(e[x - 1])
      BY <1>1, <2>6, <3>2
    <3>. QED  BY <1>5, <2>7, <2>10, <3>3
  <2>12. x = y
    BY <2>4, <2>5, <2>10, <2>11
  <2>. QED  BY <1>5, <1>9, <2>3, <2>5, <2>8, <2>9, <2>10, <2>12 DEF m, all, n
<1>. QED  BY <1>8, <1>9

-----------------------------------------------------------------------------
(* What old files have, and where their readers are.                       *)

\* The categories of old files, and what the abstract reader has of these.
LegacyCategories == {"events"} \cup Others
LegacyStored == [c \in LegacyCategories |-> Legacy!StoredEntries(c)]
LegacyPosition == [c \in LegacyCategories |-> Legacy!Position(c)]
LegacyEntry == [at : Seq(Nat), colls : SUBSET {}]

\* A chain has its entries tree after tree.
TreesStored(trees, entries) ==
  LET g == Legacy!EntriesUpTo(trees) IN
  /\ entries \in Seq(LegacyEntry) /\ Len(entries) = g[Len(trees)]
  /\ \A t \in 1 .. Len(trees) : \A l \in 1 .. trees[t] :
       entries[g[t - 1] + l] = [at |-> <<t, l - 1>>, colls |-> {}]
LEMMA ChainStored ==
  ASSUME legacy \in LegacySessions, legacy.format = "ttree"
  PROVE  TreesStored(legacy.content, Legacy!StoredEntries("events"))
<1>. DEFINE trees == legacy.content
            E(t, l) == [at |-> <<t, l - 1>>, colls |-> {}]
            parts == [t \in DOMAIN trees |-> [l \in 1 .. trees[t] |-> E(t, l)]]
            flat == FlattenSeq(parts)
            n == Len(trees)
<1>1. trees \in Seq(Nat) /\ trees # <<>>
  BY LegacyAssumption
<1>2. n \in Nat \ {0} /\ DOMAIN trees = 1 .. n /\ \A t \in 1 .. n : trees[t] \in Nat
  BY <1>1
<1>3. Legacy!StoredEntries("events") = flat
  BY DEF Legacy!StoredEntries, Legacy!FlattenSeq, FlattenSeq
<1>4. \A t \in 1 .. n : parts[t] = [l \in 1 .. trees[t] |-> E(t, l)]
  BY <1>2
<1>5. ASSUME NEW t \in 1 .. n
      PROVE  /\ parts[t] \in Seq(LegacyEntry) /\ Len(parts[t]) = trees[t]
             /\ \A l \in 1 .. trees[t] : parts[t][l] = E(t, l)
  <2>1. trees[t] \in Nat /\ t \in Nat
    BY <1>2
  <2>2. ASSUME NEW l \in 1 .. trees[t] PROVE E(t, l) \in LegacyEntry
    <3>1. <<t, l - 1>> \in Seq(Nat)
      BY <2>1
    <3>. QED  BY <3>1 DEF LegacyEntry
  <2>3. PICK p : p = parts[t]
    OBVIOUS
  <2>. HIDE DEF parts, trees, E
  <2>4. p = [l \in 1 .. trees[t] |-> E(t, l)]
    BY <1>4, <2>3
  <2>5. p \in Seq(LegacyEntry) /\ Len(p) = trees[t] /\ \A l \in 1 .. trees[t] : p[l] = E(t, l)
    BY <2>1, <2>2, <2>4
  <2>. QED  BY <2>3, <2>5
<1>6. parts \in [1 .. n -> Seq(LegacyEntry)] /\ Len(parts) = n
  <2>1. DOMAIN parts = 1 .. n /\ parts = [t \in 1 .. n |-> parts[t]]
    BY <1>2
  <2>. HIDE DEF parts, n
  <2>2. parts \in [1 .. n -> Seq(LegacyEntry)]
    BY <1>5, <2>1
  <2>. QED  BY <1>2, <2>2
<1>. HIDE DEF parts, n, trees, E, flat
<1>7. FlattenSeq(parts) \in Seq(LegacyEntry) /\ \E h : FlatAt(parts, FlattenSeq(parts), h)
  BY <1>2, <1>6, Flattened
<1>8. PICK h : FlatAt(parts, flat, h)
  BY <1>7 DEF flat
<1>9. PartialSums(trees, h)
  BY <1>5, <1>6, <1>8 DEF FlatAt, PartialSums, n
<1>10. PICK g : g = Legacy!EntriesUpTo(trees)
  OBVIOUS
<1>11. PartialSums(trees, g)
  BY <1>1, <1>10, TreesAddUp
<1>12. \A k \in 0 .. n : h[k] = g[k]
  BY <1>1, <1>9, <1>11, SumsSame DEF n
<1>13. Len(flat) = g[n]
  <2>1. Len(flat) = h[n] /\ n \in 0 .. n
    BY <1>2, <1>6, <1>8 DEF FlatAt
  <2>. QED  BY <1>12, <2>1
<1>14. ASSUME NEW t \in 1 .. n, NEW l \in 1 .. trees[t] PROVE flat[g[t - 1] + l] = E(t, l)
  <2>1. t - 1 \in 0 .. n
    BY <1>2
  <2>2. flat[h[t - 1] + l] = parts[t][l]
    BY <1>5, <1>6, <1>8 DEF FlatAt
  <2>. QED  BY <1>5, <1>12, <2>1, <2>2
<1>15. TreesStored(trees, flat)
  BY <1>7, <1>10, <1>13, <1>14 DEF TreesStored, flat, n, E
<1>. QED  BY <1>3, <1>15 DEF trees

\* The events of an sio file are stored record after record.
LEMMA StreamStored ==
  ASSUME legacy = Legacy!NotOpen \/ (legacy \in LegacySessions /\ legacy.format = "sio")
  PROVE  \E e : /\ e = Legacy!EventsUpTo(legacy.content)
                /\ IsSeq(legacy.content) /\ EventsAre(legacy.content, e)
                /\ legacy.format # "ttree"
                /\ Legacy!EventRecords = e[Len(legacy.content)]
                /\ Legacy!StoredEntries("events") \in Seq(LegacyEntry)
                /\ Len(Legacy!StoredEntries("events")) = Len(e[Len(legacy.content)])
                /\ \A i \in 1 .. Len(e[Len(legacy.content)]) :
                     Legacy!StoredEntries("events")[i] = [at |-> <<e[Len(legacy.content)][i]>>, colls |-> {}]
<1>. DEFINE r == legacy.content
            n == Len(r)
<1>1. IsSeq(r) /\ legacy.format # "ttree"
  <2>1. CASE legacy = Legacy!NotOpen
    <3>1. r = <<>> /\ legacy.format = "none"
      BY <2>1 DEF Legacy!NotOpen
    <3>. QED  BY <3>1 DEF IsSeq
  <2>2. CASE legacy \in LegacySessions /\ legacy.format = "sio"
    BY <2>2, LegacyAssumption DEF IsSeq
  <2>. QED  BY <2>1, <2>2
<1>2. PICK e : e = Legacy!EventsUpTo(r)
  OBVIOUS
<1>3. EventsAre(r, e)
  BY <1>1, <1>2, EventsCollected
<1>4. PICK all : all = e[n]
  OBVIOUS
<1>5. Legacy!EventRecords = all
  BY <1>2, <1>4 DEF Legacy!EventRecords, Legacy!EventsIn
<1>6. n \in Nat
  BY <1>1 DEF IsSeq
<1>7. all \in Seq(1 .. n)
  <2>1. Len(r) \in 0 .. Len(r)
    BY <1>6
  <2>2. e[Len(r)] \in Seq(1 .. Len(r))
    BY <1>3, <2>1 DEF EventsAre
  <2>. QED  BY <1>4, <2>2
<1>8. DOMAIN all = 1 .. Len(all) /\ Len(all) \in Nat /\ \A i \in 1 .. Len(all) : all[i] \in Nat
  BY <1>6, <1>7
<1>. DEFINE E(i) == [at |-> <<all[i]>>, colls |-> {}]
<1>9. PICK s : s = Legacy!StoredEntries("events")
  OBVIOUS
<1>10. s = [i \in 1 .. Len(all) |-> E(i)]
  BY <1>1, <1>5, <1>8, <1>9 DEF Legacy!StoredEntries
<1>11. \A i \in 1 .. Len(all) : E(i) \in LegacyEntry
  <2>. SUFFICES ASSUME NEW i \in 1 .. Len(all) PROVE E(i) \in LegacyEntry
    OBVIOUS
  <2>1. <<all[i]>> \in Seq(Nat)
    BY <1>8
  <2>. QED  BY <2>1 DEF LegacyEntry
<1>. HIDE DEF E
<1>12. s \in Seq(LegacyEntry) /\ Len(s) = Len(all) /\ \A i \in 1 .. Len(all) : s[i] = E(i)
  BY <1>8, <1>10, <1>11
<1>. QED  BY <1>1, <1>2, <1>3, <1>4, <1>5, <1>9, <1>12 DEF E

\* Where the readers are: the pointers of a chain are those of the tree that is loaded,
\* which has the entry that was read last.
ChainInv ==
  legacy.format = "ttree" =>
    LET g == Legacy!EntriesUpTo(legacy.content) IN
    /\ eventNumber \in Nat
    /\ chainTree \in 1 .. Len(legacy.content) /\ pointers = chainTree
    /\ eventNumber # 0 => g[chainTree - 1] <= eventNumber - 1 /\ eventNumber - 1 < g[chainTree]
StreamInv == legacy.format = "sio" => streamPos \in 1 .. Len(legacy.content) + 1
LegacyInv ==
  /\ legacy = Legacy!NotOpen \/ legacy \in LegacySessions
  /\ legacy = Legacy!NotOpen => eventNumber = 0 /\ streamPos = 1 /\ given = Legacy!NoResult
  /\ ChainInv /\ StreamInv

\* What can be jumped to: the first entries of the trees of a chain, or any entry of a
\* single tree, and an event of an sio file only with a table of contents.
JumpsServed ==
  \A s \in LegacySessions : \A n \in s.numbers :
    IF s.format = "ttree"
    THEN Len(s.content) = 1 \/ \E k \in 0 .. Len(s.content) : n = Legacy!EntriesUpTo(s.content)[k]
    ELSE s.hasToc \/ n >= Len(Legacy!EventsIn(s.content))

\* At first nothing is open.
LEMMA LegacyInit == ToolInit => LegacyInv /\ Legacy!Abstract!Init
<1>. SUFFICES ASSUME ToolInit PROVE LegacyInv /\ Legacy!Abstract!Init
  OBVIOUS
<1>1. legacy = Legacy!NotOpen /\ eventNumber = 0 /\ streamPos = 1 /\ given = Legacy!NoResult
  BY DEF ToolInit, MCInit, Legacy!Init
<1>2. legacy.format = "none" /\ legacy.content = <<>>
  BY <1>1 DEF Legacy!NotOpen
<1>3. LegacyInv
  BY <1>1, <1>2 DEF LegacyInv, ChainInv, StreamInv
<1>4. PICK e : /\ e = Legacy!EventsUpTo(legacy.content) /\ EventsAre(legacy.content, e)
               /\ Len(Legacy!StoredEntries("events")) = Len(e[Len(legacy.content)])
               /\ Legacy!StoredEntries("events") \in Seq(LegacyEntry)
  BY <1>1, StreamStored
<1>5. Len(legacy.content) = 0 /\ e[0] = <<>>
  BY <1>2, <1>4 DEF EventsAre
<1>6. Legacy!StoredEntries("events") = <<>>
  BY <1>4, <1>5
<1>7. Legacy!Position("events") = 0
  BY <1>1, <1>2, <1>4, <1>5 DEF Legacy!Position
<1>8. \A c \in LegacyCategories : Legacy!StoredEntries(c) = <<>> /\ Legacy!Position(c) = 0
  BY <1>6, <1>7 DEF Legacy!StoredEntries, Legacy!Position
<1>. QED  BY <1>1, <1>3, <1>8 DEF Legacy!Abstract!Init, Legacy!NoResult, Legacy!Abstract!NoResult, LegacyCategories

\* A step is one of an old reader, or leaves it alone.
LEMMA LegacyStep ==
  ASSUME [DumpNext]_<<readersVars, toolVars>>
  PROVE  UNCHANGED legacyVars \/ Legacy!Next
<1>. DEFINE Goal == UNCHANGED legacyVars \/ Legacy!Next
<1>1. CASE UNCHANGED <<readersVars, toolVars>>
  BY <1>1 DEF readersVars
<1>2. ASSUME NEW l \in Lists, MakeReader(l) PROVE Goal
  BY <1>2 DEF MakeReader
<1>3. ASSUME NEW c, NEW index, NEW n, NEW request, ReadRoot(c, index, n, request) PROVE Goal
  BY <1>3 DEF ReadRoot
<1>4. ASSUME NEW c, NEW index, NEW n, NEW names, ReadSio(c, index, n, names) PROVE Goal
  BY <1>4 DEF ReadSio
<1>5. ASSUME ReadersNext PROVE Goal
  <2>1. CASE LoadLibraries
    BY <2>1 DEF LoadLibraries
  <2>2. CASE WriteSio
    BY <2>2 DEF WriteSio
  <2>3. CASE \E c \in Categories : ReadFrame(c) \/ ReadNextFrame(c)
    BY <1>3, <1>4, <2>3 DEF ReadFrame, ReadNextFrame, Read
  <2>4. CASE ReadLegacy
    BY <2>4 DEF ReadLegacy
  <2>5. CASE RunSource
    BY <2>5 DEF RunSource
  <2>. QED  BY <1>2, <1>5, <2>1, <2>2, <2>3, <2>4, <2>5 DEF ReadersNext
<1>6. CASE \E arguments \in Arguments : ParseArgs(arguments)
  BY <1>6 DEF ParseArgs, readersVars
<1>7. CASE OpenReader
  BY <1>2, <1>7 DEF OpenReader, readersVars
<1>8. CASE DumpEDMDefinition
  BY <1>8 DEF DumpEDMDefinition, readersVars
<1>9. CASE ListEntries
  BY <1>9 DEF ListEntries
<1>10. CASE PrintFrame
  BY <1>3, <1>4, <1>10 DEF PrintFrame, ReadAll
<1>11. CASE EndLoop
  BY <1>11 DEF EndLoop, readersVars
<1>12. CASE CrashInStats
  BY <1>12 DEF CrashInStats, readersVars
<1>. QED  BY <1>1, <1>5, <1>6, <1>7, <1>8, <1>9, <1>10, <1>11, <1>12 DEF DumpNext

-----------------------------------------------------------------------------
(* The readers of old files and the abstract reader.                       *)

\* To open files opens the abstract reader.
LEMMA LegacyOpened ==
  ASSUME LegacyInv, NEW s \in LegacySessions, Legacy!OpenFiles(s)
  PROVE  LegacyInv' /\ Legacy!Abstract!Open
<1>1. /\ legacy = Legacy!NotOpen /\ legacy' = s /\ UNCHANGED <<eventNumber, given>>
      /\ eventNumber = 0 /\ streamPos = 1 /\ given = Legacy!NoResult
      /\ chainTree' = (IF s.format = "ttree" THEN 1 ELSE 0) /\ pointers' = chainTree'
      /\ streamPos' = (IF s.format = "sio" THEN 2 ELSE 1)
  BY DEF Legacy!OpenFiles, LegacyInv
<1>2. s.format \in {"ttree", "sio"} /\ s.content # <<>>
  BY LegacyAssumption
<1>3. legacy' # Legacy!NotOpen
  BY <1>1, <1>2 DEF Legacy!NotOpen
<1>4. Len(s.content) \in Nat \ {0}
  BY <1>2, LegacyAssumption
<1>5. LegacyInv'
  <2>1. ChainInv'
    BY <1>1, <1>4 DEF ChainInv
  <2>2. StreamInv'
    BY <1>1, <1>4 DEF StreamInv
  <2>. QED  BY <1>1, <1>3, <2>1, <2>2 DEF LegacyInv
<1>6. LegacyStored = [c \in LegacyCategories |-> <<>>] /\ LegacyPosition = [c \in LegacyCategories |-> 0]
  <2>1. legacy.format = "none" /\ legacy.content = <<>>
    BY <1>1 DEF Legacy!NotOpen
  <2>2. PICK e : /\ e = Legacy!EventsUpTo(legacy.content) /\ EventsAre(legacy.content, e)
                 /\ Len(Legacy!StoredEntries("events")) = Len(e[Len(legacy.content)])
                 /\ Legacy!StoredEntries("events") \in Seq(LegacyEntry)
    BY <1>1, StreamStored
  <2>3. Len(legacy.content) = 0 /\ e[0] = <<>>
    BY <2>1, <2>2 DEF EventsAre
  <2>4. Legacy!StoredEntries("events") = <<>>
    BY <2>2, <2>3
  <2>5. Legacy!Position("events") = 0
    BY <1>1, <2>1, <2>2, <2>3 DEF Legacy!Position
  <2>6. \A c \in LegacyCategories : Legacy!StoredEntries(c) = <<>> /\ Legacy!Position(c) = 0
    BY <2>4, <2>5 DEF Legacy!StoredEntries, Legacy!Position
  <2>. QED  BY <2>6 DEF LegacyStored, LegacyPosition
<1>7. ASSUME Legacy!StoredEntries("events")' \in Seq(LegacyEntry), Legacy!Position("events")' = 0
      PROVE  Legacy!Abstract!Open
  <2>1. \A c \in LegacyCategories : c # "events" => Legacy!StoredEntries(c)' = <<>> /\ Legacy!Position(c)' = 0
    BY DEF Legacy!StoredEntries, Legacy!Position
  <2>2. \A c \in LegacyCategories : Legacy!StoredEntries(c)' \in Seq(LegacyEntry) /\ Legacy!Position(c)' = 0
    <3>1. <<>> \in Seq(LegacyEntry)
      OBVIOUS
    <3>. QED  BY <1>7, <2>1, <3>1
  <2>3. LegacyStored' \in [LegacyCategories -> Seq(LegacyEntry)] /\ LegacyPosition' = [c \in LegacyCategories |-> 0]
    BY <2>2 DEF LegacyStored, LegacyPosition
  <2>. QED  BY <1>1, <1>6, <2>3
            DEF Legacy!Abstract!Open, LegacyStored, LegacyPosition, LegacyCategories, LegacyEntry,
                Legacy!NoResult, Legacy!Abstract!NoResult
<1>8. CASE s.format = "ttree"
  <2>1. (legacy \in LegacySessions /\ legacy.format = "ttree")'
    BY <1>1, <1>8
  <2>2. TreesStored(legacy.content, Legacy!StoredEntries("events"))'
    BY <2>1, ChainStored, PTL
  <2>3. Legacy!StoredEntries("events")' \in Seq(LegacyEntry)
    BY <2>2 DEF TreesStored
  <2>4. Legacy!Position("events")' = 0
    BY <1>1, <1>8 DEF Legacy!Position
  <2>. QED  BY <1>5, <1>7, <2>3, <2>4
<1>9. CASE s.format = "sio"
  <2>1. (legacy = Legacy!NotOpen \/ (legacy \in LegacySessions /\ legacy.format = "sio"))'
    BY <1>1, <1>9
  <2>2. (\E e : /\ e = Legacy!EventsUpTo(legacy.content)
                /\ IsSeq(legacy.content) /\ EventsAre(legacy.content, e)
                /\ legacy.format # "ttree"
                /\ Legacy!EventRecords = e[Len(legacy.content)]
                /\ Legacy!StoredEntries("events") \in Seq(LegacyEntry)
                /\ Len(Legacy!StoredEntries("events")) = Len(e[Len(legacy.content)])
                /\ \A i \in 1 .. Len(e[Len(legacy.content)]) :
                     Legacy!StoredEntries("events")[i] = [at |-> <<e[Len(legacy.content)][i]>>, colls |-> {}])'
    BY <2>1, StreamStored, PTL
  <2>3. PICK e : /\ e = Legacy!EventsUpTo(s.content) /\ EventsAre(s.content, e)
                 /\ Legacy!StoredEntries("events")' \in Seq(LegacyEntry)
    BY <1>1, <2>2
  <2>4. s.content[1] # "event_record"
    BY <1>9, LegacyAssumption
  <2>5. e[1] = <<>>
    <3>1. 1 \in 1 .. Len(s.content)
      BY <1>4
    <3>2. e[1] = e[1 - 1] /\ e[0] = <<>>
      BY <2>3, <2>4, <3>1 DEF EventsAre
    <3>. QED  BY <3>2
  <2>6. Legacy!Position("events")' = 0
    <3>1. Legacy!Position("events")' = Len(Legacy!EventsUpTo(s.content)[2 - 1])
      BY <1>1, <1>9 DEF Legacy!Position
    <3>. QED  BY <2>3, <2>5, <3>1
  <2>. QED  BY <1>5, <1>7, <2>3, <2>6
<1>. QED  BY <1>2, <1>8, <1>9

\* What a chain loads for an entry: its tree, and then the pointers are up to date.
LEMMA ChainLoads ==
  ASSUME JumpsServed, LegacyInv, legacy.format = "ttree", NEW n \in Nat, n < Legacy!GetEntries("events"),
         n = eventNumber \/ n \in legacy.numbers
  PROVE  LET g == Legacy!EntriesUpTo(legacy.content)
             t == Legacy!LoadTree(n)
         IN  /\ t \in 1 .. Len(legacy.content) /\ g[t - 1] <= n /\ n < g[t] /\ g[t - 1] \in Nat
             /\ Legacy!Refreshed(n) = t
<1>. DEFINE trees == legacy.content
            g == Legacy!EntriesUpTo(trees)
            t == Legacy!LoadTree(n)
            m == Len(trees)
<1>1. legacy \in LegacySessions
  BY DEF LegacyInv, Legacy!NotOpen
<1>2. trees \in Seq(Nat) /\ m \in Nat /\ DOMAIN trees = 1 .. m
  <2>1. trees \in Seq(Nat)
    BY <1>1, LegacyAssumption
  <2>. QED  BY <2>1
<1>3. PartialSums(trees, g)
  BY <1>2, TreesAddUp
<1>4. n < g[m]
  <2>1. Legacy!GetEntries("events") = g[(m + 1) - 1]
    BY DEF Legacy!GetEntries, Legacy!Offset
  <2>2. (m + 1) - 1 = m
    BY <1>2
  <2>. QED  BY <2>1, <2>2
<1>5. \A k \in 0 .. m : g[k] \in Nat
  BY <1>2, <1>3, SumsType
<1>. HIDE DEF g
<1>6. \E u \in DOMAIN trees : Legacy!Offset(u) <= n /\ n < Legacy!Offset(u + 1)
  <2>1. PICK u \in 1 .. m : g[u - 1] <= n /\ n < g[u]
    BY <1>2, <1>3, <1>4, Located
  <2>2. (u + 1) - 1 = u
    BY <1>2
  <2>. QED  BY <1>2, <2>1, <2>2 DEF Legacy!Offset, g
<1>7. t \in DOMAIN trees /\ Legacy!Offset(t) <= n /\ n < Legacy!Offset(t + 1)
  BY <1>6 DEF Legacy!LoadTree
<1>. HIDE DEF t, m
<1>8. t \in 1 .. m /\ g[t - 1] <= n /\ n < g[t]
  <2>1. t \in 1 .. m /\ (t + 1) - 1 = t
    BY <1>2, <1>7
  <2>. QED  BY <1>7, <2>1 DEF Legacy!Offset, g
<1>9. g[t - 1] \in Nat
  <2>1. t - 1 \in 0 .. m
    BY <1>2, <1>8
  <2>. QED  BY <1>5, <2>1
<1>10. Legacy!Refreshed(n) = IF n = g[t - 1] THEN t ELSE IF t # chainTree THEN Legacy!Deleted ELSE pointers
  BY DEF Legacy!Refreshed, Legacy!Offset, g, t
<1>11. chainTree \in 1 .. m /\ pointers = chainTree /\ eventNumber \in Nat
       /\ (eventNumber # 0 => g[chainTree - 1] <= eventNumber - 1 /\ eventNumber - 1 < g[chainTree])
  BY DEF LegacyInv, ChainInv, g, m
<1>12. ASSUME n # g[t - 1] PROVE t = chainTree
  <2>. HIDE DEF trees
  <2>1. CASE n = eventNumber
    <3>1. n - 1 \in Nat /\ g[t - 1] <= n - 1 /\ n - 1 < g[t]
      <4>1. t \in 0 .. m
        BY <1>2, <1>8
      <4>2. g[t] \in Nat
        BY <1>5, <4>1
      <4>. QED  BY <1>8, <1>9, <1>12, <4>2
    <3>2. eventNumber # 0
      BY <2>1, <3>1
    <3>3. g[chainTree - 1] <= n - 1 /\ n - 1 < g[chainTree] /\ chainTree # 0 /\ chainTree \in 0 .. m
      BY <1>2, <1>11, <2>1, <3>2
    <3>4. PICK k : k = n - 1
      OBVIOUS
    <3>5. /\ k \in Nat /\ g[t - 1] <= k /\ k < g[t] /\ t \in 1 .. Len(trees) /\ trees \in Seq(Nat)
          /\ chainTree \in 0 .. Len(trees) /\ chainTree # 0 /\ g[chainTree - 1] <= k /\ k < g[chainTree]
      BY <1>2, <1>8, <3>1, <3>3, <3>4 DEF m
    <3>6. chainTree = t
      BY ONLY <1>3, <3>5, LocatedOnce
    <3>. QED  BY <3>6
  <2>2. CASE n \in legacy.numbers
    <3>1. m = 1 \/ \E k \in 0 .. m : n = g[k]
      BY <1>1, <2>2 DEF JumpsServed, m, g, trees
    <3>2. CASE m = 1
      BY <1>8, <1>11, <3>2
    <3>3. ASSUME NEW k \in 0 .. m, n = g[k] PROVE FALSE
      BY <1>2, <1>3, <1>8, <1>12, <3>3, LocatedOnce DEF m
    <3>. QED  BY <3>1, <3>2, <3>3
  <2>. QED  BY <2>1, <2>2
<1>13. Legacy!Refreshed(n) = t
  BY <1>10, <1>11, <1>12
<1>. QED  BY <1>8, <1>9, <1>13 DEF g, t, m

\* To read an entry of a chain reads it from the abstract reader.
LEMMA ChainReads ==
  ASSUME JumpsServed, LegacyInv, NEW c \in LegacyCategories, NEW n \in Nat, Legacy!ReadChain(c, n),
         n = eventNumber \/ n \in legacy.numbers
  PROVE  /\ LegacyInv' /\ LegacyStored' = LegacyStored
         /\ c = "events" => Legacy!Abstract!Read(c, n)
         /\ c # "events" => \A k \in Nat : Legacy!Abstract!Read(c, k)
<1>. DEFINE trees == legacy.content
            g == Legacy!EntriesUpTo(trees)
            t == Legacy!LoadTree(n)
<1>1. legacy.format = "ttree" /\ legacy \in LegacySessions /\ UNCHANGED <<legacy, streamPos, streamEnd>>
  BY DEF Legacy!ReadChain, LegacyInv, Legacy!NotOpen
<1>2. LegacyStored' = LegacyStored
  BY <1>1 DEF LegacyStored, Legacy!StoredEntries, Legacy!EventRecords
<1>3. ASSUME c # "events"
      PROVE  /\ LegacyInv' /\ \A k \in Nat : Legacy!Abstract!Read(c, k)
  <2>1. given' = Legacy!Null /\ UNCHANGED <<chainTree, pointers, eventNumber>>
    BY <1>3 DEF Legacy!ReadChain
  <2>2. LegacyInv'
    BY <1>1, <2>1 DEF LegacyInv, ChainInv, StreamInv, Legacy!NotOpen
  <2>3. LegacyPosition' = LegacyPosition
    BY <1>1, <2>1 DEF LegacyPosition, Legacy!Position
  <2>4. LegacyStored[c] = <<>>
    BY <1>3 DEF LegacyStored, Legacy!StoredEntries
  <2>5. Legacy!Null = Legacy!Abstract!Null
    BY DEF Legacy!Null, Legacy!NoResult, Legacy!Abstract!Null, Legacy!Abstract!NoResult
  <2>6. Len(LegacyStored[c]) = 0
    BY <2>4
  <2>7. ASSUME NEW k \in Nat PROVE Legacy!Abstract!Read(c, k)
    <3>1. k >= Len(LegacyStored[c])
      BY <2>6
    <3>. QED  BY <2>1, <2>3, <2>5, <3>1 DEF Legacy!Abstract!Read, LegacyStored, LegacyPosition, LegacyCategories
  <2>. QED  BY <2>2, <2>7
<1>4. ASSUME c = "events" PROVE LegacyInv' /\ Legacy!Abstract!Read(c, n)
  <2>1. n < Legacy!GetEntries("events") /\ chainTree' = t /\ pointers' = Legacy!Refreshed(n) /\ eventNumber' = n + 1
        /\ given' = Legacy!FrameFrom({<<u, n - Legacy!Offset(t)>> : u \in {pointers', t}})
    BY <1>4 DEF Legacy!ReadChain
  <2>2. t \in 1 .. Len(trees) /\ g[t - 1] <= n /\ n < g[t] /\ g[t - 1] \in Nat /\ pointers' = t
    BY <1>1, <2>1, ChainLoads
  <2>3. Legacy!Offset(t) = g[t - 1]
    BY DEF Legacy!Offset
  <2>4. TreesStored(trees, LegacyStored["events"])
    BY <1>1, ChainStored DEF LegacyStored, LegacyCategories
  <2>5. trees \in Seq(Nat)
    BY <1>1, LegacyAssumption
  <2>6. PartialSums(trees, g)
    BY <2>5, TreesAddUp
  <2>. HIDE DEF g, t
  <2>7. LegacyInv'
    <3>1. ChainInv'
      <4>1. (n + 1) - 1 = n /\ n + 1 \in Nat
        OBVIOUS
      <4>. QED  BY <1>1, <2>1, <2>2, <4>1 DEF ChainInv, g
    <3>2. StreamInv'
      BY <1>1 DEF StreamInv
    <3>. QED  BY <1>1, <3>1, <3>2 DEF LegacyInv, Legacy!NotOpen
  <2>8. given' = [status |-> "frame", sources |-> {<<t, n - g[t - 1]>>}, colls |-> {}]
    <3>1. {<<u, n - g[t - 1]>> : u \in {t, t}} = {<<t, n - g[t - 1]>>}
      OBVIOUS
    <3>. QED  BY <2>1, <2>2, <2>3, <3>1 DEF Legacy!FrameFrom
  <2>9. n < Len(LegacyStored["events"]) /\ LegacyStored["events"][n + 1] = [at |-> <<t, n - g[t - 1]>>, colls |-> {}]
    <3>1. Len(LegacyStored["events"]) = g[Len(trees)]
      BY <2>4 DEF TreesStored, g
    <3>2. Len(trees) \in Nat
      BY <2>5
    <3>3. g[t] <= g[Len(trees)] /\ g[t] \in Nat /\ g[Len(trees)] \in Nat
      <4>1. t \in 0 .. Len(trees) /\ Len(trees) \in t .. Len(trees) /\ Len(trees) \in 0 .. Len(trees)
        BY <2>2, <3>2
      <4>2. \A k \in 0 .. Len(trees) : g[k] \in Nat
        BY <2>5, <2>6, SumsType
      <4>3. g[t] <= g[Len(trees)]
        BY <2>5, <2>6, <4>1, SumsGrow
      <4>. QED  BY <4>1, <4>2, <4>3
    <3>4. g[t] = g[t - 1] + trees[t] /\ trees[t] \in Nat
      BY <2>2, <2>5, <2>6, SumsType
    <3>5. PICK l : l = n + 1 - g[t - 1]
      OBVIOUS
    <3>6. l \in 1 .. trees[t] /\ g[t - 1] + l = n + 1 /\ l - 1 = n - g[t - 1]
      <4>1. PICK a, b, d : a = g[t - 1] /\ b = trees[t] /\ d = g[t]
        OBVIOUS
      <4>2. /\ a \in Nat /\ b \in Nat /\ d = a + b /\ a <= n /\ n < d /\ l = n + 1 - a
        BY <2>2, <3>4, <3>5, <4>1
      <4>3. l \in 1 .. b /\ a + l = n + 1 /\ l - 1 = n - a
        BY <4>2
      <4>. QED  BY <4>1, <4>3
    <3>7. LegacyStored["events"][g[t - 1] + l] = [at |-> <<t, l - 1>>, colls |-> {}]
      BY <2>2, <2>4, <3>6 DEF TreesStored, g
    <3>8. n < Len(LegacyStored["events"])
      <4>1. PICK d, z : d = g[t] /\ z = g[Len(trees)]
        OBVIOUS
      <4>2. d \in Nat /\ z \in Nat /\ n < d /\ d <= z
        BY <2>2, <3>3, <4>1
      <4>. QED  BY <3>1, <4>1, <4>2
    <3>. QED  BY <3>6, <3>7, <3>8
  <2>10. given' = Legacy!Abstract!FrameOf(LegacyStored["events"][n + 1], {})
    <3>1. LegacyStored["events"][n + 1].at = <<t, n - g[t - 1]>> /\ LegacyStored["events"][n + 1].colls = {}
      BY <2>9
    <3>2. Legacy!Abstract!FrameOf(LegacyStored["events"][n + 1], {})
            = [status |-> "frame", sources |-> {LegacyStored["events"][n + 1].at},
               colls |-> LegacyStored["events"][n + 1].colls]
      BY DEF Legacy!Abstract!FrameOf, Legacy!Abstract!Selected
    <3>. QED  BY <2>8, <3>1, <3>2
  <2>11. LegacyPosition' = [LegacyPosition EXCEPT !["events"] = n + 1]
    <3>1. Legacy!Position("events")' = n + 1
      BY <1>1, <2>1 DEF Legacy!Position
    <3>2. \A d \in LegacyCategories : d # "events" => Legacy!Position(d)' = Legacy!Position(d)
      BY DEF Legacy!Position
    <3>. QED  BY <3>1, <3>2 DEF LegacyPosition
  <2>. QED  BY <1>4, <2>7, <2>9, <2>10, <2>11 DEF Legacy!Abstract!Read, LegacyStored, LegacyPosition, LegacyCategories
<1>. QED  BY <1>2, <1>3, <1>4

\* What is read outside of "events": nothing, as there is nothing.
LEMMA OthersRead ==
  ASSUME LegacyInv, NEW c \in LegacyCategories, c # "events", legacy # Legacy!NotOpen,
         given' = Legacy!Null, UNCHANGED <<legacy, chainTree, pointers, eventNumber, streamPos>>
  PROVE  LegacyInv' /\ \A k \in Nat : Legacy!Abstract!Read(c, k)
<1>1. LegacyInv'
  BY DEF LegacyInv, ChainInv, StreamInv
<1>2. LegacyPosition' = LegacyPosition
  BY DEF LegacyPosition, Legacy!Position
<1>3. Len(LegacyStored[c]) = 0
  BY DEF LegacyStored, Legacy!StoredEntries
<1>4. Legacy!Null = Legacy!Abstract!Null
  BY DEF Legacy!Null, Legacy!NoResult, Legacy!Abstract!Null, Legacy!Abstract!NoResult
<1>5. ASSUME NEW k \in Nat PROVE Legacy!Abstract!Read(c, k)
  <2>1. k >= Len(LegacyStored[c])
    BY <1>3
  <2>. QED  BY <1>2, <1>4, <2>1 DEF Legacy!Abstract!Read, LegacyStored, LegacyPosition, LegacyCategories
<1>. QED  BY <1>1, <1>5

\* To go on from a record of an sio file reads the event that the abstract reader
\* has behind those before the record.
LEMMA StreamReads ==
  ASSUME LegacyInv, NEW c \in LegacyCategories, NEW from \in 1 .. Len(legacy.content) + 1,
         Legacy!ReadStream(c, from), NEW m, m = Len(Legacy!EventsUpTo(legacy.content)[from - 1])
  PROVE  /\ LegacyInv' /\ LegacyStored' = LegacyStored
         /\ c = "events" => Legacy!Abstract!Read(c, m)
         /\ c # "events" => \A k \in Nat : Legacy!Abstract!Read(c, k)
<1>1. /\ legacy.format = "sio" /\ legacy # Legacy!NotOpen /\ legacy \in LegacySessions
      /\ UNCHANGED <<legacy, chainTree, pointers, eventNumber>>
  BY DEF Legacy!ReadStream, LegacyInv, Legacy!NotOpen
<1>2. LegacyStored' = LegacyStored
  BY <1>1 DEF LegacyStored, Legacy!StoredEntries, Legacy!EventRecords
<1>3. CASE c # "events"
  <2>1. given' = Legacy!Null /\ UNCHANGED <<streamPos, streamEnd>>
    BY <1>3 DEF Legacy!ReadStream
  <2>2. LegacyInv' /\ \A k \in Nat : Legacy!Abstract!Read(c, k)
    BY <1>1, <1>3, <2>1, OthersRead
  <2>. QED  BY <1>2, <1>3, <2>2
<1>4. ASSUME c = "events" PROVE LegacyInv' /\ Legacy!Abstract!Read(c, m)
  <2>1. PICK e : /\ e = Legacy!EventsUpTo(legacy.content)
                 /\ IsSeq(legacy.content) /\ EventsAre(legacy.content, e)
                 /\ Len(Legacy!StoredEntries("events")) = Len(e[Len(legacy.content)])
                 /\ \A i \in 1 .. Len(e[Len(legacy.content)]) :
                      Legacy!StoredEntries("events")[i] = [at |-> <<e[Len(legacy.content)][i]>>, colls |-> {}]
    BY <1>1, StreamStored
  <2>2. PICK r, n, all, S : /\ r = legacy.content /\ n = Len(r) /\ all = e[n]
                            /\ S = {i \in DOMAIN r : i >= from /\ r[i] = "event_record"}
    OBVIOUS
  <2>3. S = Legacy!EventsFrom(from)
    BY <2>2 DEF Legacy!EventsFrom
  <2>4. /\ m \in Nat
        /\ S = {} => m = Len(all)
        /\ S # {} => /\ m < Len(all) /\ all[m + 1] = Legacy!Min(S)
                     /\ Legacy!Min(S) \in 1 .. n /\ Len(e[Legacy!Min(S)]) = m + 1
    <3>1. IsSeq(r) /\ EventsAre(r, e) /\ from \in 1 .. Len(r) + 1 /\ m = Len(e[from - 1])
      BY <2>1, <2>2
    <3>2. n = Len(r) /\ all = e[Len(r)] /\ DOMAIN r = 1 .. n /\ n \in Nat
      BY <2>1, <2>2 DEF IsSeq
    <3>4. AreEventsFrom(S, r, from)
      BY <2>2, <3>2 DEF AreEventsFrom
    <3>3. /\ Len(e[from - 1]) \in Nat
          /\ S = {} => Len(e[from - 1]) = Len(e[Len(r)])
          /\ S # {} => /\ Len(e[from - 1]) < Len(e[Len(r)])
                       /\ e[Len(r)][Len(e[from - 1]) + 1] = Legacy!Min(S)
                       /\ Legacy!Min(S) \in 1 .. Len(r) /\ Len(e[Legacy!Min(S)]) = Len(e[from - 1]) + 1
      BY ONLY <3>1, <3>4, NextEvent
    <3>. QED  BY <3>1, <3>2, <3>3
  <2>5. n \in Nat /\ Len(all) \in Nat
    <3>1. n \in Nat /\ \A k \in 0 .. n : Len(e[k]) \in Nat
      BY <2>1, <2>2, EventsCounted
    <3>2. n \in 0 .. n
      BY <3>1
    <3>. QED  BY <2>2, <3>1, <3>2
  <2>6. /\ Len(LegacyStored["events"]) = Len(all)
        /\ \A i \in 1 .. Len(all) : LegacyStored["events"][i] = [at |-> <<all[i]>>, colls |-> {}]
    BY <2>1, <2>2 DEF LegacyStored, LegacyCategories
  <2>7. \A d \in LegacyCategories : d # "events" => Legacy!Position(d)' = Legacy!Position(d)
    BY DEF Legacy!Position
  <2>8. Legacy!Position("events")' = Len(e[streamPos' - 1])
    BY <1>1, <2>1 DEF Legacy!Position
  <2>9. ASSUME streamPos' \in 1 .. n + 1 PROVE LegacyInv'
    <3>1. ChainInv' /\ StreamInv'
      BY <1>1, <2>2, <2>9 DEF ChainInv, StreamInv
    <3>. QED  BY <1>1, <3>1 DEF LegacyInv
  <2>10. ASSUME S = {} PROVE LegacyInv' /\ Legacy!Abstract!Read(c, m)
    <3>1. given' = Legacy!Null /\ streamPos' = n + 1
      BY <1>4, <2>2, <2>3, <2>10 DEF Legacy!ReadStream
    <3>2. LegacyInv'
      BY <2>5, <2>9, <3>1
    <3>3. Legacy!Position("events")' = m
      <4>1. (n + 1) - 1 = n
        BY <2>5
      <4>. QED  BY <2>2, <2>4, <2>8, <2>10, <3>1, <4>1
    <3>4. LegacyPosition' = [LegacyPosition EXCEPT !["events"] = m]
      BY <2>7, <3>3 DEF LegacyPosition
    <3>5. Legacy!Null = Legacy!Abstract!Null
      BY DEF Legacy!Null, Legacy!NoResult, Legacy!Abstract!Null, Legacy!Abstract!NoResult
    <3>6. m >= Len(LegacyStored["events"])
      BY <2>4, <2>5, <2>6, <2>10
    <3>. QED  BY <1>4, <3>1, <3>2, <3>4, <3>5, <3>6 DEF Legacy!Abstract!Read, LegacyStored, LegacyPosition, LegacyCategories
  <2>11. ASSUME S # {} PROVE LegacyInv' /\ Legacy!Abstract!Read(c, m)
    <3>1. PICK x : x = Legacy!Min(S)
      OBVIOUS
    <3>2. m \in Nat /\ m < Len(all) /\ all[m + 1] = x /\ x \in 1 .. n /\ Len(e[x]) = m + 1
      BY <2>4, <2>11, <3>1
    <3>3. given' = Legacy!FrameFrom({<<x>>}) /\ streamPos' = x + 1
      BY <1>4, <2>3, <2>11, <3>1 DEF Legacy!ReadStream
    <3>4. LegacyInv'
      <4>1. streamPos' \in 1 .. n + 1
        BY <2>5, <3>2, <3>3
      <4>. QED  BY <2>9, <4>1
    <3>5. Legacy!Position("events")' = m + 1
      <4>1. (x + 1) - 1 = x
        BY <3>2
      <4>. QED  BY <2>8, <3>2, <3>3, <4>1
    <3>6. LegacyPosition' = [LegacyPosition EXCEPT !["events"] = m + 1]
      BY <2>7, <3>5 DEF LegacyPosition
    <3>7. m + 1 \in 1 .. Len(all)
      BY <2>5, <3>2
    <3>8. LegacyStored["events"][m + 1].at = <<x>> /\ LegacyStored["events"][m + 1].colls = {}
      <4>1. PICK k : k = m + 1
        OBVIOUS
      <4>2. LegacyStored["events"][k] = [at |-> <<all[k]>>, colls |-> {}] /\ all[k] = x
        BY <2>6, <3>2, <3>7, <4>1
      <4>. QED  BY <4>1, <4>2
    <3>9. Legacy!Abstract!FrameOf(LegacyStored["events"][m + 1], {})
            = [status |-> "frame", sources |-> {LegacyStored["events"][m + 1].at},
               colls |-> LegacyStored["events"][m + 1].colls]
      BY DEF Legacy!Abstract!FrameOf, Legacy!Abstract!Selected
    <3>10. given' = Legacy!Abstract!FrameOf(LegacyStored["events"][m + 1], {})
      BY <3>3, <3>8, <3>9 DEF Legacy!FrameFrom
    <3>11. m < Len(LegacyStored["events"])
      BY <2>6, <3>2
    <3>. QED  BY <1>4, <3>4, <3>6, <3>10, <3>11 DEF Legacy!Abstract!Read, LegacyStored, LegacyPosition, LegacyCategories
  <2>. QED  BY <2>10, <2>11
<1>. QED  BY <1>2, <1>3, <1>4

\* To jump in an sio file reads the event that has that many before it.
LEMMA StreamJumps ==
  ASSUME JumpsServed, LegacyInv, NEW c \in LegacyCategories, NEW n \in Nat, n \in legacy.numbers,
         Legacy!ReadEntry(c, n), ~Legacy!ReadChain(c, n)
  PROVE  LegacyInv' /\ LegacyStored' = LegacyStored /\ Legacy!Abstract!Read(c, n)
<1>1. legacy.format = "sio" /\ legacy # Legacy!NotOpen /\ legacy \in LegacySessions
  BY DEF Legacy!ReadEntry, Legacy!ReadStream, LegacyInv, Legacy!NotOpen
<1>2. PICK e : /\ e = Legacy!EventsUpTo(legacy.content)
               /\ IsSeq(legacy.content) /\ EventsAre(legacy.content, e)
               /\ Legacy!EventRecords = e[Len(legacy.content)]
               /\ Len(Legacy!StoredEntries("events")) = Len(e[Len(legacy.content)])
  BY <1>1, StreamStored
<1>3. PICK r, k, all : r = legacy.content /\ k = Len(r) /\ all = e[k]
  OBVIOUS
<1>4. k \in Nat /\ Len(all) \in Nat
  <2>1. k \in Nat /\ \A i \in 0 .. k : Len(e[i]) \in Nat
    BY <1>2, <1>3, EventsCounted
  <2>2. k \in 0 .. k
    BY <2>1
  <2>. QED  BY <1>3, <2>1, <2>2
<1>5. \A i \in 1 .. Len(all) : all[i] \in 1 .. k /\ Len(e[all[i] - 1]) = i - 1
  <2>1. k \in 0 .. Len(r) /\ IsSeq(r) /\ EventsAre(r, e)
    BY <1>2, <1>3, <1>4
  <2>2. \A i \in 1 .. Len(e[k]) : /\ e[k][i] \in 1 .. k /\ r[e[k][i]] = "event_record"
                                  /\ Len(e[e[k][i]]) = i /\ Len(e[e[k][i] - 1]) = i - 1
    BY ONLY <2>1, EventsPlaced
  <2>. QED  BY <1>3, <2>2
<1>6. ASSUME Legacy!GetPosition(n) # 0
      PROVE  Legacy!GetPosition(n) \in 1 .. k /\ Len(e[Legacy!GetPosition(n) - 1]) = n
  <2>1. n < Len(all) /\ Legacy!GetPosition(n) = all[n + 1]
    BY <1>2, <1>3, <1>6 DEF Legacy!GetPosition
  <2>2. PICK i : i = n + 1
    OBVIOUS
  <2>3. i \in 1 .. Len(all) /\ i - 1 = n
    BY <1>4, <2>1, <2>2
  <2>. QED  BY <1>5, <2>1, <2>2, <2>3
<1>7. ASSUME Legacy!GetPosition(n) = 0 PROVE n >= Len(all)
  <2>1. CASE legacy.hasToc
    <3>1. SUFFICES ASSUME n < Len(all) PROVE FALSE
      BY <1>4
    <3>2. all[n + 1] = 0
      BY <1>2, <1>3, <1>7, <2>1, <3>1 DEF Legacy!GetPosition
    <3>3. PICK i : i = n + 1
      OBVIOUS
    <3>4. i \in 1 .. Len(all)
      BY <1>4, <3>1, <3>3
    <3>5. all[i] \in 1 .. k
      BY <1>5, <3>4
    <3>. QED  BY <1>4, <3>2, <3>3, <3>5
  <2>2. CASE ~legacy.hasToc
    <3>1. legacy.format # "ttree"
      BY <1>1
    <3>2. n >= Len(Legacy!EventsIn(legacy.content))
      BY <1>1, <2>2, <3>1 DEF JumpsServed
    <3>. QED  BY <1>2, <1>3, <3>2 DEF Legacy!EventsIn
  <2>. QED  BY <2>1, <2>2
<1>8. CASE c = "events" /\ Legacy!GetPosition(n) # 0 /\ Legacy!ReadStream(c, Legacy!GetPosition(n))
  <2>1. PICK from : from = Legacy!GetPosition(n)
    OBVIOUS
  <2>2. from \in 1 .. Len(legacy.content) + 1 /\ n = Len(Legacy!EventsUpTo(legacy.content)[from - 1])
    BY <1>2, <1>3, <1>4, <1>6, <1>8, <2>1
  <2>3. Legacy!ReadStream(c, from)
    BY <1>8, <2>1
  <2>4. LegacyInv' /\ LegacyStored' = LegacyStored /\ (c = "events" => Legacy!Abstract!Read(c, n))
    BY <2>2, <2>3, StreamReads
  <2>. QED  BY <1>8, <2>4
<1>9. ASSUME /\ c # "events" \/ Legacy!GetPosition(n) = 0
             /\ given' = Legacy!Null
             /\ UNCHANGED <<legacy, chainTree, pointers, eventNumber, streamPos, streamEnd>>
      PROVE  LegacyInv' /\ LegacyStored' = LegacyStored /\ Legacy!Abstract!Read(c, n)
  <2>1. LegacyStored' = LegacyStored
    BY <1>9 DEF LegacyStored, Legacy!StoredEntries, Legacy!EventRecords
  <2>2. CASE c # "events"
    <3>1. LegacyInv' /\ \A i \in Nat : Legacy!Abstract!Read(c, i)
      BY <1>1, <1>9, <2>2, OthersRead
    <3>. QED  BY <2>1, <3>1
  <2>3. CASE c = "events"
    <3>1. LegacyInv'
      BY <1>1, <1>9 DEF LegacyInv, ChainInv, StreamInv
    <3>2. LegacyPosition' = LegacyPosition
      BY <1>9 DEF LegacyPosition, Legacy!Position
    <3>3. n >= Len(LegacyStored["events"])
      BY <1>2, <1>3, <1>7, <1>9, <2>3 DEF LegacyStored, LegacyCategories
    <3>4. Legacy!Null = Legacy!Abstract!Null
      BY DEF Legacy!Null, Legacy!NoResult, Legacy!Abstract!Null, Legacy!Abstract!NoResult
    <3>. QED  BY <1>9, <2>1, <2>3, <3>1, <3>2, <3>3, <3>4
              DEF Legacy!Abstract!Read, LegacyStored, LegacyPosition, LegacyCategories
  <2>. QED  BY <2>2, <2>3
<1>. QED  BY <1>8, <1>9 DEF Legacy!ReadEntry

\* Every step of an old reader is one of the abstract reader.
LEMMA LegacyReads ==
  ASSUME JumpsServed, LegacyInv, Legacy!Next
  PROVE  LegacyInv' /\ Legacy!Abstract!Next
<1>1. CASE \E s \in LegacySessions : Legacy!OpenFiles(s)
  BY <1>1, LegacyOpened DEF Legacy!Abstract!Next
<1>2. ASSUME NEW c \in LegacyCategories, Legacy!ReadNextEntry(c) PROVE LegacyInv' /\ Legacy!Abstract!Next
  <2>1. PICK n : n = LegacyPosition[c]
    OBVIOUS
  <2>2. LegacyInv' /\ LegacyStored' = LegacyStored /\ Legacy!Abstract!Read(c, LegacyPosition[c])
    <3>1. CASE Legacy!ReadChain(c, eventNumber)
      <4>1. legacy.format = "ttree" /\ eventNumber \in Nat
        BY <3>1 DEF Legacy!ReadChain, LegacyInv, ChainInv
      <4>2. /\ LegacyInv' /\ LegacyStored' = LegacyStored
            /\ c = "events" => Legacy!Abstract!Read(c, eventNumber)
            /\ c # "events" => \A k \in Nat : Legacy!Abstract!Read(c, k)
        BY <3>1, <4>1, ChainReads
      <4>3. LegacyPosition[c] = IF c = "events" THEN eventNumber ELSE 0
        BY <4>1 DEF LegacyPosition, Legacy!Position
      <4>. QED  BY <4>2, <4>3
    <3>2. CASE Legacy!ReadStream(c, streamPos)
      <4>1. legacy.format = "sio" /\ streamPos \in 1 .. Len(legacy.content) + 1
        BY <3>2 DEF Legacy!ReadStream, LegacyInv, StreamInv
      <4>2. PICK m : m = Len(Legacy!EventsUpTo(legacy.content)[streamPos - 1])
        OBVIOUS
      <4>3. /\ LegacyInv' /\ LegacyStored' = LegacyStored
            /\ c = "events" => Legacy!Abstract!Read(c, m)
            /\ c # "events" => \A k \in Nat : Legacy!Abstract!Read(c, k)
        BY <3>2, <4>1, <4>2, StreamReads
      <4>4. LegacyPosition[c] = IF c = "events" THEN m ELSE 0
        BY <4>1, <4>2 DEF LegacyPosition, Legacy!Position
      <4>. QED  BY <4>3, <4>4
    <3>. QED  BY <1>2, <3>1, <3>2 DEF Legacy!ReadNextEntry
  <2>. QED  BY <2>2 DEF Legacy!Abstract!Next, Legacy!Abstract!ReadNextEntry, LegacyStored, LegacyPosition, LegacyCategories
<1>3. ASSUME NEW c \in LegacyCategories, NEW n \in legacy.numbers, Legacy!ReadEntry(c, n)
      PROVE  LegacyInv' /\ Legacy!Abstract!Next
  <2>1. legacy \in LegacySessions
    BY DEF LegacyInv, Legacy!NotOpen
  <2>2. n \in Nat /\ n \in (UNION {s.numbers : s \in LegacySessions})
    BY <2>1, LegacyAssumption
  <2>3. LegacyInv' /\ LegacyStored' = LegacyStored /\ Legacy!Abstract!Read(c, n)
    <3>1. CASE Legacy!ReadChain(c, n)
      BY <2>2, <3>1, ChainReads
    <3>2. CASE ~Legacy!ReadChain(c, n)
      BY <1>3, <2>2, <3>2, StreamJumps
    <3>. QED  BY <3>1, <3>2
  <2>. QED  BY <2>2, <2>3 DEF Legacy!Abstract!Next, Legacy!Abstract!ReadEntry, LegacyStored, LegacyPosition, LegacyCategories
<1>. QED  BY <1>1, <1>2, <1>3 DEF Legacy!Next, LegacyCategories

LEMMA LegacyNext ==
  ASSUME JumpsServed, LegacyInv, [DumpNext]_<<readersVars, toolVars>>
  PROVE  LegacyInv' /\ [Legacy!Abstract!Next]_Legacy!Abstract!vars
<1>1. CASE UNCHANGED legacyVars
  <2>1. UNCHANGED <<legacy, chainTree, pointers, eventNumber, streamPos, streamEnd, given>>
    BY <1>1 DEF legacyVars, Legacy!vars
  <2>2. LegacyInv'
    BY <2>1 DEF LegacyInv, ChainInv, StreamInv
  <2>3. LegacyStored' = LegacyStored /\ LegacyPosition' = LegacyPosition
    BY <2>1 DEF LegacyStored, LegacyPosition, Legacy!StoredEntries, Legacy!EventRecords, Legacy!Position
  <2>. QED  BY <2>1, <2>2, <2>3 DEF Legacy!Abstract!vars, LegacyStored, LegacyPosition, LegacyCategories
<1>2. CASE Legacy!Next
  BY <1>2, LegacyReads
<1>. QED  BY <1>1, <1>2, LegacyStep

\* The readers of files from before frames keep what readers promise: the events come
\* one after the other, across trees and between other records, and an event comes
\* whole (ROOTLegacyReader.cc:49, SIOLegacyReader.cc:26), if the entries jumped to are ones
\* that these readers serve.
THEOREM LegacyReadersImplement == JumpsServed /\ DumpSpec => LegacyReadsEntries
<1>1. ToolInit => LegacyInv /\ Legacy!Abstract!Init
  BY LegacyInit
<1>2. JumpsServed /\ LegacyInv /\ [DumpNext]_<<readersVars, toolVars>>
        => LegacyInv' /\ [Legacy!Abstract!Next]_Legacy!Abstract!vars
  BY LegacyNext
<1>3. JumpsServed => []JumpsServed
  <2>1. JumpsServed => JumpsServed'
    BY DEF JumpsServed
  <2>. QED  BY <2>1, PTL
<1>. QED  BY <1>1, <1>2, <1>3, PTL DEF DumpSpec, LegacyReadsEntries, Legacy!LegacyReadsEntries, Legacy!Abstract!Spec
===============================================================================
