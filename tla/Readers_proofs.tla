---------------------------- MODULE Readers_proofs ----------------------------
(***************************************************************************)
(* What the readers, the event loop of an RDataFrame and the registries    *)
(* promise, for any files, lists of files, libraries, slots and columns;   *)
(* and that the readers of ROOT files implement the abstract EntryReader.  *)
(* Sums and lists that the model builds by a recursive function are        *)
(* followed with the lemmas of Recursion_proofs.                           *)
(***************************************************************************)
EXTENDS DumpTool, Recursion_proofs

\* A sum is the last of the partial sums.
LEMMA SumOf ==
  ASSUME NEW s \in Seq(Nat)
  PROVE  \E f : PartialSums(s, f) /\ Sum(s) = f[Len(s)]
<1>. DEFINE F == [p \in Nat \X (1 .. Len(s)) |-> p[1] + s[p[2]]]
            sum[k \in 0 .. Len(s)] == IF k = 0 THEN 0 ELSE sum[k - 1] + s[k]
<1>1. IsStep(Nat, Len(s), F) /\ Len(s) \in Nat
  BY DEF IsStep
<1>2. \A x \in Nat, k \in 1 .. Len(s) : F[<<x, k>>] = x + s[k]
  OBVIOUS
<1>3. Sum(s) = sum[Len(s)]
  BY DEF Sum
<1>. HIDE DEF F
<1>4. PICK z \in Nat : z = 0
  OBVIOUS
<1>5. PICK f : IsRun(Nat, z, Len(s), F, f)
  BY <1>1, Recursion
<1>6. f = [k \in 0 .. Len(s) |-> IF k = 0 THEN 0 ELSE f[k - 1] + s[k]]
  <2>1. f \in [0 .. Len(s) -> Nat] /\ f[0] = 0 /\ \A k \in 1 .. Len(s) : f[k] = F[<<f[k - 1], k>>]
    BY <1>4, <1>5 DEF IsRun
  <2>2. ASSUME NEW k \in 1 .. Len(s) PROVE f[k] = f[k - 1] + s[k]
    <3>1. k - 1 \in 0 .. Len(s)
      BY <1>1
    <3>2. f[k - 1] \in Nat
      BY <2>1, <3>1
    <3>. QED  BY <1>2, <2>1, <3>2
  <2>3. \A k \in 0 .. Len(s) : f[k] = IF k = 0 THEN 0 ELSE f[k - 1] + s[k]
    BY <2>1, <2>2
  <2>. QED  BY <2>1, <2>3
<1>7. sum = [k \in 0 .. Len(s) |-> IF k = 0 THEN 0 ELSE sum[k - 1] + s[k]]
  BY <1>6
<1>. HIDE DEF sum
<1>8. sum[0] = 0 /\ \A k \in 1 .. Len(s) : sum[k] = sum[k - 1] + s[k]
  BY <1>7
<1>9. IsRun(Nat, z, Len(s), F, sum)
  <2>1. sum = [k \in 0 .. Len(s) |-> sum[k]] /\ sum[0] = z
    BY <1>4, <1>7, <1>8
  <2>2. \A k \in 1 .. Len(s) : sum[k - 1] \in Nat => sum[k] = F[<<sum[k - 1], k>>]
    BY <1>2, <1>8
  <2>. QED  BY <1>1, <2>1, <2>2, RunOfSteps
<1>10. sum \in [0 .. Len(s) -> Nat]
  BY <1>9 DEF IsRun
<1>. QED  BY <1>3, <1>8, <1>10 DEF PartialSums

\* Nothing adds up to nothing.
LEMMA SumEmpty == Sum(<<>>) = 0
<1>1. PICK z \in Seq(Nat) : z = <<>>
  <2>1. <<>> \in Seq(Nat)
    OBVIOUS
  <2>. QED  BY <2>1, Zenon
<1>2. PICK f : PartialSums(z, f) /\ Sum(z) = f[Len(z)]
  BY SumOf
<1>3. Len(z) = 0
  BY <1>1
<1>. QED  BY <1>1, <1>2, <1>3 DEF PartialSums

\* An element more adds itself to the sum.
LEMMA SumAppend ==
  ASSUME NEW s \in Seq(Nat), NEW x \in Nat
  PROVE  Sum(Append(s, x)) = Sum(s) + x
<1>. DEFINE t == Append(s, x)
<1>1. PICK f : PartialSums(s, f) /\ Sum(s) = f[Len(s)]
  BY SumOf
<1>2. t \in Seq(Nat) /\ Len(t) = Len(s) + 1 /\ t[Len(s) + 1] = x
      /\ (\A k \in 1 .. Len(s) : t[k] = s[k]) /\ Len(s) \in Nat
  OBVIOUS
<1>. HIDE DEF t
<1>3. PICK g : PartialSums(t, g) /\ Sum(t) = g[Len(t)]
  BY <1>2, SumOf
<1>. DEFINE T == {m \in Nat : m <= Len(s) => g[m] = f[m]}
<1>4. 0 \in T
  BY <1>1, <1>3 DEF PartialSums
<1>5. ASSUME NEW m \in Nat, m \in T PROVE m + 1 \in T
  <2>1. SUFFICES ASSUME m + 1 <= Len(s) PROVE g[m + 1] = f[m + 1]
    OBVIOUS
  <2>2. m + 1 \in 1 .. Len(s) /\ m + 1 \in 1 .. Len(t) /\ (m + 1) - 1 = m /\ g[m] = f[m]
    <3>1. Len(s) \in Nat /\ Len(t) = Len(s) + 1
      BY <1>2
    <3>2. m <= Len(s)
      BY <2>1, <3>1
    <3>3. m + 1 \in 1 .. Len(s) /\ m + 1 \in 1 .. Len(t) /\ (m + 1) - 1 = m
      BY <2>1, <3>1
    <3>. QED  BY <1>5, <3>2, <3>3
  <2>3. f[m + 1] = f[m] + s[m + 1]
    BY <1>1, <2>2 DEF PartialSums
  <2>4. g[m + 1] = g[m] + t[m + 1]
    BY <1>3, <2>2 DEF PartialSums
  <2>. QED  BY <1>2, <2>2, <2>3, <2>4
<1>. HIDE DEF T
<1>6. g[Len(s)] = f[Len(s)]
  <2>1. Nat \subseteq T
    BY <1>4, <1>5, Induction
  <2>. QED  BY <1>2, <2>1 DEF T
<1>7. g[Len(t)] = g[Len(s)] + t[Len(t)]
  <2>1. Len(t) \in 1 .. Len(t) /\ Len(t) - 1 = Len(s)
    BY <1>2
  <2>. QED  BY <1>3, <2>1 DEF PartialSums
<1>. QED  BY <1>1, <1>2, <1>3, <1>6, <1>7 DEF t

\* A sum of numbers is a number.
LEMMA SumType ==
  ASSUME NEW s \in Seq(Nat)
  PROVE  Sum(s) \in Nat
<1>1. PICK f : PartialSums(s, f) /\ Sum(s) = f[Len(s)]
  BY SumOf
<1>. QED  BY <1>1 DEF PartialSums

\* Whatever the partial sums are, the sum is the last of them.
LEMMA SumIs ==
  ASSUME NEW s \in Seq(Nat), NEW g, PartialSums(s, g)
  PROVE  Sum(s) = g[Len(s)]
<1>1. PICK f : PartialSums(s, f) /\ Sum(s) = f[Len(s)]
  BY SumOf
<1>. DEFINE T == {m \in Nat : m <= Len(s) => g[m] = f[m]}
<1>2. 0 \in T
  BY <1>1 DEF PartialSums
<1>3. ASSUME NEW m \in Nat, m \in T PROVE m + 1 \in T
  <2>1. SUFFICES ASSUME m + 1 <= Len(s) PROVE g[m + 1] = f[m + 1]
    OBVIOUS
  <2>2. m + 1 \in 1 .. Len(s) /\ (m + 1) - 1 = m /\ g[m] = f[m]
    BY <1>3, <2>1
  <2>. QED  BY <1>1, <2>2 DEF PartialSums
<1>. HIDE DEF T
<1>4. Nat \subseteq T
  BY <1>2, <1>3, Induction
<1>. QED  BY <1>1, <1>4 DEF T
-----------------------------------------------------------------------------
\* The files that have a category, as far as file number t.
Having(files, c, f) ==
  /\ f \in [0 .. Len(files) -> Seq(1 .. Len(files))]
  /\ f[0] = <<>>
  /\ \A t \in 1 .. Len(files) :
       f[t] = IF c \in DOMAIN Files[files[t]].info THEN Append(f[t - 1], t) ELSE f[t - 1]

\* The readers of a category are the files that have it, one after the other.
LEMMA ReaderFilesOf ==
  ASSUME NEW files, Len(files) \in Nat, NEW c
  PROVE  \E f : Having(files, c, f) /\ ReaderFiles(files, c) = f[Len(files)]
<1>. DEFINE n == Len(files)
            S == Seq(1 .. n)
            Has(t) == c \in DOMAIN Files[files[t]].info
            F == [p \in S \X (1 .. n) |-> IF Has(p[2]) THEN Append(p[1], p[2]) ELSE p[1]]
            having[t \in 0 .. n] == IF t = 0 THEN <<>> ELSE IF Has(t) THEN Append(having[t - 1], t) ELSE having[t - 1]
<1>1. ReaderFiles(files, c) = having[n]
  BY DEF ReaderFiles
<1>2. \A x \in S, t \in 1 .. n : F[<<x, t>>] = (IF Has(t) THEN Append(x, t) ELSE x)
  OBVIOUS
<1>3. IsStep(S, n, F) /\ n \in Nat
  <2>1. \A x \in S, t \in 1 .. n : Append(x, t) \in S
    OBVIOUS
  <2>. QED  BY <2>1 DEF IsStep
<1>4. PICK z \in S : z = <<>>
  <2>1. <<>> \in S
    OBVIOUS
  <2>. HIDE DEF S
  <2>. QED  BY <2>1
<1>. HIDE DEF F, Has
<1>5. PICK f : IsRun(S, z, n, F, f)
  <2>. HIDE DEF S, n
  <2>. QED  BY <1>3, Recursion
<1>6. f = [t \in 0 .. n |-> IF t = 0 THEN <<>> ELSE IF Has(t) THEN Append(f[t - 1], t) ELSE f[t - 1]]
  <2>1. f \in [0 .. n -> S] /\ f[0] = <<>> /\ \A k \in 1 .. n : f[k] = F[<<f[k - 1], k>>]
    BY <1>4, <1>5 DEF IsRun
  <2>2. ASSUME NEW k \in 1 .. n PROVE f[k] = IF Has(k) THEN Append(f[k - 1], k) ELSE f[k - 1]
    <3>1. k - 1 \in 0 .. n
      BY <1>3
    <3>2. f[k - 1] \in S
      BY <2>1, <3>1
    <3>. HIDE DEF S
    <3>. QED  BY <1>2, <2>1, <3>2
  <2>3. \A k \in 0 .. n : f[k] = IF k = 0 THEN <<>> ELSE IF Has(k) THEN Append(f[k - 1], k) ELSE f[k - 1]
    <3>1. \A k \in 0 .. n : k # 0 => k \in 1 .. n
      BY <1>3
    <3>. HIDE DEF S, n
    <3>. QED  BY <2>1, <2>2, <3>1
  <2>. HIDE DEF S, n
  <2>. QED  BY <2>1, <2>3
<1>7. having = [t \in 0 .. n |-> IF t = 0 THEN <<>> ELSE IF Has(t) THEN Append(having[t - 1], t) ELSE having[t - 1]]
  <2>. HIDE DEF n
  <2>. QED  BY <1>6
<1>. HIDE DEF having
<1>8. having[0] = <<>> /\ \A t \in 1 .. n : having[t] = IF Has(t) THEN Append(having[t - 1], t) ELSE having[t - 1]
  <2>1. \A t \in 1 .. n : t \in 0 .. n /\ t # 0
    BY <1>3
  <2>2. 0 \in 0 .. n
    BY <1>3
  <2>. HIDE DEF n
  <2>. QED  BY <1>7, <2>1, <2>2
<1>9. IsRun(S, z, n, F, having)
  <2>1. having = [k \in 0 .. n |-> having[k]] /\ having[0] = z
    <3>. HIDE DEF S, n
    <3>. QED  BY <1>4, <1>7, <1>8
  <2>2. \A k \in 1 .. n : having[k - 1] \in S => having[k] = F[<<having[k - 1], k>>]
    <3>. HIDE DEF S, n
    <3>. QED  BY <1>2, <1>8
  <2>. HIDE DEF S, n
  <2>. QED  BY <1>3, <2>1, <2>2, RunOfSteps
<1>10. having \in [0 .. n -> S]
  BY <1>9 DEF IsRun
<1>. QED  BY <1>1, <1>8, <1>10 DEF Having, Has

\* What each of the files that are open adds to a category.
Shares(c) ==
  [t \in 1 .. Len(session.files) |-> IF c \in DOMAIN FileOf(t).info THEN FileOf(t).entries[c] ELSE 0]

\* The files that are open are in order.
FilesOpen ==
  /\ Len(session.files) \in Nat \ {0}
  /\ DOMAIN session.files = 1 .. Len(session.files)
  /\ \A t \in 1 .. Len(session.files) : \A c \in DOMAIN FileOf(t).info : FileOf(t).entries[c] \in Nat

\* The entries of a file that has the category, one after the other.
LEMMA FileEntries ==
  ASSUME FilesOpen, NEW c, NEW t \in 1 .. Len(session.files)
  PROVE  /\ Shares(c)[t] \in Nat
         /\ EntriesOfFile(t, c) = [l \in 1 .. Shares(c)[t] |-> [at |-> <<t, l - 1>>, colls |-> Readable(t, c)]]
<1>1. Shares(c)[t] = IF c \in DOMAIN FileOf(t).info THEN FileOf(t).entries[c] ELSE 0
  BY DEF Shares
<1>. DEFINE E(l) == [at |-> <<t, l - 1>>, colls |-> Readable(t, c)]
<1>2. CASE c \notin DOMAIN FileOf(t).info
  <2>1. EntriesOfFile(t, c) = <<>> /\ Shares(c)[t] = 0
    BY <1>1, <1>2 DEF EntriesOfFile
  <2>. HIDE DEF E
  <2>2. <<>> = [l \in 1 .. 0 |-> E(l)]
    OBVIOUS
  <2>. QED  BY <2>1, <2>2 DEF E
<1>3. CASE c \in DOMAIN FileOf(t).info
  <2>1. Shares(c)[t] = FileOf(t).entries[c] /\ FileOf(t).entries[c] \in Nat
    BY <1>1, <1>3 DEF FilesOpen
  <2>. QED  BY <1>3, <2>1 DEF EntriesOfFile
<1>. QED  BY <1>2, <1>3

\* Where the entries of the files are among the stored ones: g has the number of
\* entries up to each file.
StoredIs(c, g) ==
  /\ PartialSums(Shares(c), g)
  /\ Len(StoredEntries(c)) = g[Len(session.files)]
  /\ \A t \in 1 .. Len(session.files) : \A l \in 1 .. Shares(c)[t] :
       StoredEntries(c)[g[t - 1] + l] = [at |-> <<t, l - 1>>, colls |-> Readable(t, c)]

\* The stored entries are those of the files, one after the other.
LEMMA StoredAt ==
  ASSUME session # Closed, FilesOpen, NEW c \in AvailableCategories, NEW X,
         \A t \in 1 .. Len(session.files) : EntriesOfFile(t, c) \in Seq(X)
  PROVE  StoredEntries(c) \in Seq(X) /\ \E g : StoredIs(c, g)
<1>. DEFINE n == Len(session.files)
            parts == [t \in DOMAIN session.files |-> EntriesOfFile(t, c)]
<1>1. n \in Nat \ {0} /\ DOMAIN session.files = 1 .. n
  BY DEF FilesOpen
<1>2. StoredEntries(c) = FlattenSeq(parts)
  BY DEF StoredEntries
<1>3. parts \in [1 .. n -> Seq(X)] /\ Len(parts) = n /\ \A t \in 1 .. n : parts[t] = EntriesOfFile(t, c)
  <2>. HIDE DEF n
  <2>. QED  BY <1>1
<1>. HIDE DEF n, parts
<1>4. FlattenSeq(parts) \in Seq(X) /\ \E g : FlatAt(parts, FlattenSeq(parts), g)
  BY <1>1, <1>3, Flattened
<1>5. PICK g : FlatAt(parts, FlattenSeq(parts), g)
  BY <1>4
<1>6. \A t \in 1 .. n : Len(parts[t]) = Shares(c)[t] /\ Shares(c)[t] \in Nat
        /\ \A l \in 1 .. Shares(c)[t] : parts[t][l] = [at |-> <<t, l - 1>>, colls |-> Readable(t, c)]
  <2>. SUFFICES ASSUME NEW t \in 1 .. n
                PROVE  /\ Len(parts[t]) = Shares(c)[t] /\ Shares(c)[t] \in Nat
                       /\ \A l \in 1 .. Shares(c)[t] : parts[t][l] = [at |-> <<t, l - 1>>, colls |-> Readable(t, c)]
    OBVIOUS
  <2>. DEFINE E(l) == [at |-> <<t, l - 1>>, colls |-> Readable(t, c)]
  <2>1. Shares(c)[t] \in Nat /\ EntriesOfFile(t, c) = [l \in 1 .. Shares(c)[t] |-> E(l)]
    BY FileEntries DEF n
  <2>. HIDE DEF E
  <2>2. Len(parts[t]) = Shares(c)[t] /\ \A l \in 1 .. Shares(c)[t] : parts[t][l] = E(l)
    BY <1>3, <2>1
  <2>. QED  BY <2>1, <2>2 DEF E
<1>7. PartialSums(Shares(c), g)
  <2>1. Len(Shares(c)) = n
    BY <1>1 DEF Shares, n
  <2>. QED  BY <1>3, <1>5, <1>6, <2>1 DEF FlatAt, PartialSums
<1>8. Len(FlattenSeq(parts)) = g[n] /\ \A t \in 1 .. n : \A l \in 1 .. Shares(c)[t] :
        FlattenSeq(parts)[g[t - 1] + l] = parts[t][l]
  BY <1>3, <1>5, <1>6 DEF FlatAt
<1>9. StoredIs(c, g)
  BY <1>2, <1>6, <1>7, <1>8, SMTT(30) DEF StoredIs, n
<1>. QED  BY <1>2, <1>4, <1>9

\* Every stored entry is somewhere in the files.
LEMMA StoredSomewhere ==
  ASSUME session # Closed, FilesOpen, NEW c \in AvailableCategories
  PROVE  \E g : StoredIs(c, g)
<1>. DEFINE X == UNION {Range(EntriesOfFile(t, c)) : t \in 1 .. Len(session.files)}
<1>1. ASSUME NEW t \in 1 .. Len(session.files) PROVE EntriesOfFile(t, c) \in Seq(X)
  <2>. DEFINE E(l) == [at |-> <<t, l - 1>>, colls |-> Readable(t, c)]
              p == EntriesOfFile(t, c)
  <2>1. PICK k \in Nat : p = [l \in 1 .. k |-> E(l)]
    BY FileEntries
  <2>. HIDE DEF E, p
  <2>2. \A l \in 1 .. k : p[l] \in Range(p)
    BY <2>1 DEF Range
  <2>3. Range(p) \subseteq X
    BY DEF p
  <2>. HIDE DEF X
  <2>4. p \in [1 .. k -> X]
    BY <2>1, <2>2, <2>3
  <2>5. p \in Seq(X)
    BY <2>4
  <2>. QED  BY <2>5 DEF p
<1>. HIDE DEF X
<1>. QED  BY <1>1, StoredAt

\* There are as many stored entries as the shares of the files add up to.
LEMMA StoredLength ==
  ASSUME session # Closed, FilesOpen, NEW c \in AvailableCategories
  PROVE  Len(StoredEntries(c)) = Sum(Shares(c))
<1>1. PICK g : StoredIs(c, g)
  BY StoredSomewhere
<1>2. Shares(c) \in Seq(Nat) /\ Len(Shares(c)) = Len(session.files)
  BY DEF FilesOpen, Shares
<1>. QED  BY <1>1, <1>2, SumIs DEF StoredIs

\* The sum of the first elements is a partial sum.
LEMMA SumPrefix ==
  ASSUME NEW s \in Seq(Nat), NEW g, PartialSums(s, g), NEW k \in 0 .. Len(s)
  PROVE  Sum(SubSeq(s, 1, k)) = g[k]
<1>. DEFINE p == SubSeq(s, 1, k)
            h == [i \in 0 .. k |-> g[i]]
<1>1. p \in Seq(Nat) /\ Len(p) = k /\ \A i \in 1 .. k : p[i] = s[i]
  OBVIOUS
<1>2. h \in [0 .. k -> Nat] /\ h[0] = 0 /\ h[k] = g[k]
  BY SMTT(30) DEF PartialSums
<1>3. \A i \in 1 .. k : h[i] = h[i - 1] + s[i]
  BY DEF PartialSums
<1>. HIDE DEF p, h
<1>4. PartialSums(p, h)
  BY <1>1, <1>2, <1>3 DEF PartialSums
<1>. QED  BY <1>1, <1>2, <1>4, SumIs DEF p

\* All files of a chain have the categories of the first.
LEMMA TreesHave ==
  ASSUME session \in Sessions, session.format = "ttree", FilesOpen, NEW c \in AvailableCategories
  PROVE  (\A t \in DOMAIN session.files : c \in DOMAIN FileOf(t).info) /\ TreeEntries(c) = Shares(c)
<1>1. 1 \in DOMAIN session.files
  BY DEF FilesOpen
<1>2. \A t \in DOMAIN session.files : DOMAIN FileOf(t).info = DOMAIN FileOf(1).info
  BY <1>1, FilesAssumption DEF FileOf
<1>3. \A t \in DOMAIN session.files : c \in DOMAIN FileOf(t).info
  BY <1>2 DEF AvailableCategories
<1>. QED  BY <1>3 DEF TreeEntries, Shares, FilesOpen

\* The tree that a chain loads has the entry, and this is the stored one.
LEMMA TreeAt ==
  ASSUME session \in Sessions, session.format = "ttree", FilesOpen, NEW c \in AvailableCategories,
         NEW g, StoredIs(c, g), NEW n \in Nat, n < GetEntries(c), session # Closed
  PROVE  /\ TreeOf(c, n) \in DOMAIN session.files
         /\ n - Offset(c, TreeOf(c, n)) \in Nat
         /\ StoredEntries(c)[n + 1] =
              [at |-> <<TreeOf(c, n), n - Offset(c, TreeOf(c, n))>>, colls |-> Readable(TreeOf(c, n), c)]
<1>. DEFINE N == Len(session.files)
            s == Shares(c)
<1>1. N \in Nat \ {0} /\ DOMAIN session.files = 1 .. N /\ s \in Seq(Nat) /\ Len(s) = N /\ PartialSums(s, g)
  BY DEF FilesOpen, Shares, StoredIs
<1>2. TreeEntries(c) = s
  BY TreesHave
<1>3. \A t \in 1 .. N + 1 : Offset(c, t) = g[t - 1] /\ t - 1 \in 0 .. N
  <2>1. \A t \in 1 .. N + 1 : t - 1 \in 0 .. N
    BY <1>1
  <2>2. \A k \in 0 .. N : Sum(SubSeq(s, 1, k)) = g[k]
    <3>. HIDE DEF s, N
    <3>. QED  BY <1>1, SumPrefix
  <2>. HIDE DEF s, N
  <2>. QED  BY <1>2, <2>1, <2>2 DEF Offset
<1>4. n < g[N]
  <2>1. GetEntries(c) = Sum(s)
    BY <1>2 DEF GetEntries
  <2>. HIDE DEF s, N
  <2>. QED  BY <1>1, <2>1, SumIs
<1>5. \A t \in 1 .. N : t \in 1 .. N + 1 /\ t + 1 \in 1 .. N + 1 /\ (t + 1) - 1 = t
  BY <1>1
<1>6. \E t \in 1 .. N : g[t - 1] <= n /\ n < g[t]
  <2>. HIDE DEF s, N
  <2>. QED  BY <1>1, <1>4, Located
<1>7. \E t \in DOMAIN session.files : Offset(c, t) <= n /\ n < Offset(c, t + 1)
  <2>. HIDE DEF s, N
  <2>. QED  BY <1>1, <1>3, <1>5, <1>6
<1>. DEFINE t == TreeOf(c, n)
<1>8. t \in DOMAIN session.files /\ Offset(c, t) <= n /\ n < Offset(c, t + 1)
  BY <1>7 DEF TreeOf
<1>. HIDE DEF t
<1>9. t \in 1 .. N /\ g[t - 1] <= n /\ n < g[t] /\ Offset(c, t) = g[t - 1]
  <2>. HIDE DEF s, N
  <2>. QED  BY <1>1, <1>3, <1>5, <1>8
<1>10. g[t] = g[t - 1] + s[t] /\ g[t - 1] \in Nat /\ s[t] \in Nat
  <2>. HIDE DEF s, N
  <2>1. t - 1 \in 0 .. N
    BY <1>1, <1>9
  <2>. QED  BY <1>1, <1>9, <2>1, SumsType
<1>. DEFINE l == n - g[t - 1] + 1
<1>11. l \in 1 .. s[t] /\ g[t - 1] + l = n + 1 /\ l - 1 = n - g[t - 1] /\ l - 1 \in Nat
  <2>. HIDE DEF s
  <2>. QED  BY <1>9, <1>10, PlaceIn
<1>. HIDE DEF l
<1>12. StoredEntries(c)[g[t - 1] + l] = [at |-> <<t, l - 1>>, colls |-> Readable(t, c)]
  BY <1>9, <1>11 DEF StoredIs
<1>. QED  BY <1>8, <1>9, <1>11, <1>12 DEF t

\* The entries of a category in some of the files.
EntriesAmong(s, c) == [i \in 1 .. Len(s) |-> Files[session.files[s[i]]].entries[c]]

\* These are numbers of open files that have the category.
Good(s, c) ==
  /\ s \in Seq(1 .. Len(session.files))
  /\ \A i \in 1 .. Len(s) : s[i] \in 1 .. Len(session.files) /\ c \in DOMAIN Files[session.files[s[i]]].info

\* Up to any file, those that have the category have as many entries as all of them.
LEMMA HavingSums ==
  ASSUME FilesOpen, NEW c, NEW f, Having(session.files, c, f)
  PROVE  /\ \A t \in 0 .. Len(session.files) : Good(f[t], c) /\ EntriesAmong(f[t], c) \in Seq(Nat)
         /\ PartialSums(Shares(c), [t \in 0 .. Len(session.files) |-> Sum(EntriesAmong(f[t], c))])
<1>. DEFINE files == session.files
            n == Len(files)
            Has(t) == c \in DOMAIN Files[files[t]].info
            entriesOf(s) == [i \in 1 .. Len(s) |-> Files[files[s[i]]].entries[c]]
<1>1. n \in Nat /\ Shares(c) \in Seq(Nat) /\ Len(Shares(c)) = n
      /\ \A t \in 1 .. n : /\ Has(t) => Files[files[t]].entries[c] \in Nat
                           /\ Shares(c)[t] = IF Has(t) THEN Files[files[t]].entries[c] ELSE 0
  <2>1. n \in Nat /\ Shares(c) \in Seq(Nat) /\ Len(Shares(c)) = n
        /\ \A t \in 1 .. n : Shares(c)[t] = IF c \in DOMAIN FileOf(t).info THEN FileOf(t).entries[c] ELSE 0
    BY DEF FilesOpen, Shares
  <2>2. \A t \in 1 .. n : c \in DOMAIN FileOf(t).info => FileOf(t).entries[c] \in Nat
    BY DEF FilesOpen
  <2>3. \A t : FileOf(t) = Files[files[t]]
    BY DEF FileOf
  <2>. QED  BY <2>1, <2>2, <2>3
<1>3. f \in [0 .. n -> Seq(1 .. n)] /\ f[0] = <<>>
      /\ \A t \in 1 .. n : f[t] = IF Has(t) THEN Append(f[t - 1], t) ELSE f[t - 1]
  BY DEF Having
<1>. HIDE DEF Has
<1>4. \A t \in 1 .. n : t - 1 \in 0 .. n /\ t \in 0 .. n
  BY <1>1
<1>. DEFINE GoodSeq(s) == s \in Seq(1 .. n) /\ \A i \in 1 .. Len(s) : s[i] \in 1 .. n /\ Has(s[i])
            T == {m \in Nat : m <= n => GoodSeq(f[m])}
<1>5. 0 \in T
  BY <1>1, <1>3
<1>6. ASSUME NEW m \in Nat, m \in T PROVE m + 1 \in T
  <2>1. SUFFICES ASSUME m + 1 <= n PROVE GoodSeq(f[m + 1])
    OBVIOUS
  <2>2. GoodSeq(f[m]) /\ m + 1 \in 1 .. n /\ (m + 1) - 1 = m
    BY <1>1, <1>6, <2>1
  <2>3. f[m + 1] = IF Has(m + 1) THEN Append(f[m], m + 1) ELSE f[m]
    BY <1>3, <2>2
  <2>4. Has(m + 1) => GoodSeq(Append(f[m], m + 1))
    <3>. DEFINE s == f[m]
    <3>. HIDE DEF s, n
    <3>1. s \in Seq(1 .. n) /\ (\A i \in 1 .. Len(s) : s[i] \in 1 .. n /\ Has(s[i])) /\ m + 1 \in 1 .. n
      BY <2>2 DEF s
    <3>2. Has(m + 1) => GoodSeq(Append(s, m + 1))
      BY <3>1
    <3>. QED  BY <3>2 DEF s
  <2>. HIDE DEF GoodSeq, n
  <2>. QED  BY <2>2, <2>3, <2>4
<1>7. \A t \in 0 .. n : GoodSeq(f[t])
  <2>. HIDE DEF GoodSeq, T
  <2>1. Nat \subseteq T
    BY <1>5, <1>6, Induction
  <2>. USE DEF T
  <2>. QED  BY <1>1, <2>1
<1>8. \A s : GoodSeq(s) => entriesOf(s) \in Seq(Nat)
  <2>. SUFFICES ASSUME NEW s, GoodSeq(s) PROVE entriesOf(s) \in Seq(Nat)
    OBVIOUS
  <2>1. Len(s) \in Nat /\ \A i \in 1 .. Len(s) : Files[files[s[i]]].entries[c] \in Nat
    BY <1>1
  <2>. HIDE DEF n, files
  <2>. QED  BY <2>1
<1>9. ASSUME NEW s, GoodSeq(s), NEW t \in 1 .. n, Has(t)
      PROVE  entriesOf(Append(s, t)) = Append(entriesOf(s), Files[files[t]].entries[c])
  <2>. HIDE DEF n, files
  <2>1. Len(Append(s, t)) = Len(s) + 1 /\ Len(s) \in Nat /\ Append(s, t)[Len(s) + 1] = t
        /\ \A i \in 1 .. Len(s) : Append(s, t)[i] = s[i]
    BY <1>9
  <2>2. entriesOf(Append(s, t)) = [i \in 1 .. Len(s) + 1 |->
            IF i = Len(s) + 1 THEN Files[files[t]].entries[c] ELSE entriesOf(s)[i]]
    BY <2>1
  <2>3. entriesOf(s) \in Seq(Nat) /\ Len(entriesOf(s)) = Len(s)
    BY <1>8, <1>9, <2>1
  <2>. HIDE DEF entriesOf, GoodSeq
  <2>4. Append(entriesOf(s), Files[files[t]].entries[c]) = [i \in 1 .. Len(s) + 1 |->
            IF i = Len(s) + 1 THEN Files[files[t]].entries[c] ELSE entriesOf(s)[i]]
    BY <2>3
  <2>. QED  BY <2>2, <2>4
<1>. DEFINE g == [t \in 0 .. n |-> Sum(entriesOf(f[t]))]
<1>10. g \in [0 .. n -> Nat]
  <2>. HIDE DEF n, entriesOf, GoodSeq
  <2>. QED  BY <1>7, <1>8, SumType
<1>11. g[0] = 0
  <2>1. entriesOf(<<>>) = <<>>
    OBVIOUS
  <2>2. 0 \in 0 .. n
    BY <1>1
  <2>. HIDE DEF n, entriesOf
  <2>. QED  BY <1>3, <2>1, <2>2, SumEmpty
<1>12. ASSUME NEW t \in 1 .. n PROVE g[t] = g[t - 1] + Shares(c)[t]
  <2>1. g[t] = Sum(entriesOf(f[t])) /\ g[t - 1] = Sum(entriesOf(f[t - 1])) /\ g[t - 1] \in Nat
    <3>. HIDE DEF n, entriesOf
    <3>1. g[t] = Sum(entriesOf(f[t])) /\ g[t - 1] = Sum(entriesOf(f[t - 1]))
      BY <1>4
    <3>. HIDE DEF g
    <3>. QED  BY <1>4, <1>10, <3>1
  <2>. HIDE DEF g
  <2>2. CASE Has(t)
    <3>1. GoodSeq(f[t - 1]) /\ entriesOf(f[t]) = Append(entriesOf(f[t - 1]), Files[files[t]].entries[c])
      <4>. HIDE DEF n, entriesOf, GoodSeq
      <4>. QED  BY <1>3, <1>4, <1>7, <1>9, <2>2
    <3>2. entriesOf(f[t - 1]) \in Seq(Nat) /\ Files[files[t]].entries[c] \in Nat /\ Shares(c)[t] = Files[files[t]].entries[c]
      <4>. HIDE DEF n, entriesOf, GoodSeq
      <4>. QED  BY <1>1, <1>8, <2>2, <3>1
    <3>. HIDE DEF n, entriesOf, GoodSeq
    <3>. QED  BY <2>1, <3>1, <3>2, SumAppend
  <2>3. CASE ~Has(t)
    <3>. HIDE DEF n, entriesOf
    <3>. QED  BY <1>1, <1>3, <2>1, <2>3, SMTT(30)
  <2>. QED  BY <2>2, <2>3
<1>13. PartialSums(Shares(c), g)
  <2>. HIDE DEF g
  <2>. QED  BY <1>1, <1>10, <1>11, <1>12 DEF PartialSums
<1>14. \A s : GoodSeq(s) => Good(s, c)
  BY DEF Good, Has
<1>15. \A s : entriesOf(s) = EntriesAmong(s, c)
  BY DEF EntriesAmong
<1>. HIDE DEF n, entriesOf, GoodSeq
<1>16. \A t \in 0 .. n : Good(f[t], c) /\ EntriesAmong(f[t], c) \in Seq(Nat)
  BY <1>7, <1>8, <1>14, <1>15
<1>17. g = [t \in 0 .. n |-> Sum(EntriesAmong(f[t], c))]
  BY <1>15
<1>. HIDE DEF g
<1>. QED  BY <1>13, <1>16, <1>17 DEF n

\* Element k of what was found up to file m is a file with what was found before it.
FoundAt(f, m, k) ==
  /\ f[m][k] \in 1 .. m
  /\ Len(f[f[m][k] - 1]) = k - 1
  /\ \A i \in 1 .. k - 1 : f[f[m][k] - 1][i] = f[m][i]

\* The files with a category are in their order.
LEMMA HavingPrefix ==
  ASSUME NEW files, Len(files) \in Nat, NEW c, NEW f, Having(files, c, f),
         NEW m \in 0 .. Len(files), NEW k \in 1 .. Len(f[m])
  PROVE  FoundAt(f, m, k)
<1>. DEFINE n == Len(files)
            T == {j \in Nat : j <= n => \A i \in 1 .. Len(f[j]) : FoundAt(f, j, i)}
<1>1. f \in [0 .. n -> Seq(1 .. n)] /\ f[0] = <<>>
      /\ \A t \in 1 .. n : f[t] = f[t - 1] \/ f[t] = Append(f[t - 1], t)
  BY DEF Having
<1>2. 0 \in T
  BY <1>1
<1>3. ASSUME NEW j \in Nat, j \in T PROVE j + 1 \in T
  <2>1. SUFFICES ASSUME j + 1 <= n, NEW i \in 1 .. Len(f[j + 1]) PROVE FoundAt(f, j + 1, i)
    OBVIOUS
  <2>2. j + 1 \in 1 .. n /\ (j + 1) - 1 = j /\ j \in 0 .. n /\ \A q \in 1 .. Len(f[j]) : FoundAt(f, j, q)
    BY <1>3, <2>1
  <2>3. PICK a \in Seq(1 .. n) : a = f[j]
    BY <1>1, <2>2
  <2>4. CASE f[j + 1] = f[j]
    <3>1. FoundAt(f, j, i)
      BY <2>1, <2>2, <2>4
    <3>. QED  BY <2>4, <3>1 DEF FoundAt
  <2>5. CASE f[j + 1] = Append(f[j], j + 1)
    <3>1. Len(Append(a, j + 1)) = Len(a) + 1 /\ Len(a) \in Nat /\ Append(a, j + 1)[Len(a) + 1] = j + 1
          /\ \A q \in 1 .. Len(a) : Append(a, j + 1)[q] = a[q]
      OBVIOUS
    <3>2. CASE i = Len(a) + 1
      <4>1. f[j + 1][i] = j + 1 /\ i - 1 = Len(a)
        BY <2>3, <2>5, <3>1, <3>2
      <4>2. \A q \in 1 .. i - 1 : f[j][q] = f[j + 1][q]
        BY <2>3, <2>5, <3>1, <4>1
      <4>3. f[j + 1][i] - 1 = j /\ f[j + 1][i] \in 1 .. j + 1 /\ Len(f[j]) = i - 1
        BY <2>2, <2>3, <4>1
      <4>. QED  BY <4>2, <4>3 DEF FoundAt
    <3>3. CASE i # Len(a) + 1
      <4>1. i \in 1 .. Len(a)
        BY <2>1, <2>3, <2>5, <3>1, <3>3
      <4>2. FoundAt(f, j, i) /\ f[j + 1][i] = f[j][i]
        BY <2>2, <2>3, <2>5, <3>1, <4>1
      <4>3. \A q \in 1 .. i - 1 : f[j + 1][q] = f[j][q]
        BY <2>3, <2>5, <3>1, <4>1
      <4>. QED  BY <4>2, <4>3 DEF FoundAt
    <3>. QED  BY <3>2, <3>3
  <2>. QED  BY <1>1, <2>2, <2>4, <2>5
<1>. HIDE DEF T
<1>4. Nat \subseteq T
  BY <1>2, <1>3, Induction
<1>. QED  BY <1>4 DEF T

\* The readers R of a category, and where the entries of each begin: g has those of
\* all files, h those of the readers.
ReadersAre(c, g, R, h) ==
  /\ R = ReaderFiles(session.files, c)
  /\ R \in Seq(1 .. Len(session.files))
  /\ EntriesAmong(R, c) \in Seq(Nat)
  /\ PartialSums(EntriesAmong(R, c), h)
  /\ h[Len(R)] = g[Len(session.files)]
  /\ Accumulated(session.files, c) = [k \in 1 .. Len(R) + 1 |-> h[k - 1]]
  /\ \A k \in 1 .. Len(R) : /\ R[k] \in 1 .. Len(session.files)
                            /\ Shares(c)[R[k]] = EntriesAmong(R, c)[k]
                            /\ h[k - 1] = g[R[k] - 1]

\* Files without the category come between the readers and change nothing.
LEMMA AccumulatedAre ==
  ASSUME FilesOpen, NEW c, NEW g, PartialSums(Shares(c), g)
  PROVE  \E R, h : ReadersAre(c, g, R, h)
<1>. DEFINE n == Len(session.files)
<1>1. n \in Nat /\ Shares(c) \in Seq(Nat) /\ Len(Shares(c)) = n
  BY DEF FilesOpen, Shares
<1>2. PICK f : Having(session.files, c, f) /\ ReaderFiles(session.files, c) = f[n]
  BY <1>1, ReaderFilesOf
<1>. DEFINE u == [t \in 0 .. n |-> Sum(EntriesAmong(f[t], c))]
<1>3. (\A t \in 0 .. n : Good(f[t], c) /\ EntriesAmong(f[t], c) \in Seq(Nat)) /\ PartialSums(Shares(c), u)
  BY <1>2, HavingSums
<1>4. \A t \in 0 .. n : Sum(EntriesAmong(f[t], c)) = g[t]
  <2>1. \A t \in 0 .. n : u[t] = Sum(EntriesAmong(f[t], c))
    OBVIOUS
  <2>. HIDE DEF n, u
  <2>2. \A t \in 0 .. n : u[t] = g[t]
    BY <1>1, <1>3, SumsSame
  <2>. QED  BY <2>1, <2>2
<1>. HIDE DEF u
<1>. DEFINE R == f[n]
            e == EntriesAmong(R, c)
            L == Len(R)
<1>5. n \in 0 .. n
  BY <1>1
<1>6. Good(R, c) /\ e \in Seq(Nat)
  BY <1>3, <1>5
<1>7. R \in Seq(1 .. n) /\ \A i \in 1 .. L : R[i] \in 1 .. n /\ c \in DOMAIN Files[session.files[R[i]]].info
  BY <1>6 DEF Good
<1>8. L \in Nat /\ Len(e) = L /\ \A i \in 1 .. L : e[i] = Files[session.files[R[i]]].entries[c]
  <2>1. L \in Nat
    BY <1>7
  <2>. QED  BY <2>1 DEF EntriesAmong
<1>9. PICK h : PartialSums(e, h) /\ Sum(e) = h[L]
  BY <1>6, <1>8, SumOf
<1>10. h[L] = g[n]
  BY <1>4, <1>5, <1>9
<1>11. ASSUME NEW k \in 1 .. L + 1 PROVE Sum([i \in 1 .. k - 1 |-> Files[session.files[R[i]]].entries[c]]) = h[k - 1]
  <2>. DEFINE v == [i \in 1 .. k - 1 |-> Files[session.files[R[i]]].entries[c]]
  <2>1. k - 1 \in 0 .. L /\ k - 1 \in Nat
    BY <1>8
  <2>. HIDE DEF R, e, L
  <2>2. v = SubSeq(e, 1, k - 1)
    <3>1. SubSeq(e, 1, k - 1) = [i \in 1 .. k - 1 |-> e[i]]
      BY <1>6, <1>8, <2>1
    <3>2. \A i \in 1 .. k - 1 : i \in 1 .. L
      BY <1>8, <2>1
    <3>. QED  BY <1>8, <3>1, <3>2
  <2>. HIDE DEF v
  <2>3. Sum(SubSeq(e, 1, k - 1)) = h[k - 1]
    BY <1>6, <1>8, <1>9, <2>1, SumPrefix
  <2>. QED  BY <2>2, <2>3 DEF v
<1>12. Accumulated(session.files, c) = [k \in 1 .. L + 1 |-> h[k - 1]]
  <2>1. Accumulated(session.files, c) =
          [k \in 1 .. L + 1 |-> Sum([i \in 1 .. k - 1 |-> Files[session.files[R[i]]].entries[c]])]
    <3>. HIDE DEF n
    <3>. QED  BY <1>2 DEF Accumulated
  <2>. HIDE DEF L, R
  <2>. QED  BY <1>11, <2>1
<1>13. ASSUME NEW k \in 1 .. L PROVE Shares(c)[R[k]] = e[k] /\ h[k - 1] = g[R[k] - 1]
  <2>1. R[k] \in 1 .. n /\ c \in DOMAIN Files[session.files[R[k]]].info
    BY <1>7
  <2>2. Shares(c)[R[k]] = e[k]
    BY <1>8, <2>1 DEF Shares, FileOf
  <2>3. FoundAt(f, n, k)
    BY <1>1, <1>2, <1>5, HavingPrefix
  <2>4. EntriesAmong(f[R[k] - 1], c) = [i \in 1 .. k - 1 |-> Files[session.files[R[i]]].entries[c]]
    <3>1. Len(f[R[k] - 1]) = k - 1 /\ \A i \in 1 .. k - 1 : f[R[k] - 1][i] = R[i]
      BY <2>3 DEF FoundAt
    <3>. HIDE DEF R
    <3>. QED  BY <3>1 DEF EntriesAmong
  <2>5. R[k] - 1 \in 0 .. n /\ k \in 1 .. L + 1
    BY <1>1, <1>8, <2>1
  <2>6. Sum(EntriesAmong(f[R[k] - 1], c)) = g[R[k] - 1]
    BY <1>4, <2>5
  <2>7. Sum([i \in 1 .. k - 1 |-> Files[session.files[R[i]]].entries[c]]) = h[k - 1]
    BY <1>11, <2>5
  <2>. HIDE DEF R, L, e
  <2>. QED  BY <2>2, <2>4, <2>6, <2>7
<1>14. ReadersAre(c, g, R, h)
  <2>. HIDE DEF R
  <2>1. R = ReaderFiles(session.files, c)
    BY <1>2 DEF R
  <2>. QED  BY <1>6, <1>7, <1>9, <1>10, <1>12, <1>13, <2>1 DEF ReadersAre
<1>. QED  BY <1>14

\* The accumulated entries are where those of each reader begin, and the total.
LEMMA AccumulatedParts ==
  ASSUME FilesOpen, NEW c, NEW g, NEW R, NEW h, ReadersAre(c, g, R, h)
  PROVE  /\ Last(Accumulated(session.files, c)) = g[Len(session.files)]
         /\ Front(Accumulated(session.files, c)) = [k \in 1 .. Len(R) |-> h[k - 1]]
<1>. DEFINE a == Accumulated(session.files, c)
            L == Len(R)
            G(k) == h[k - 1]
<1>1. L \in Nat /\ a = [k \in 1 .. L + 1 |-> G(k)] /\ h[L] = g[Len(session.files)]
  BY DEF ReadersAre
<1>. HIDE DEF a, L, G
<1>2. Len(a) = L + 1 /\ a[L + 1] = G(L + 1) /\ (L + 1) - 1 = L /\ \A k \in 1 .. L : a[k] = G(k)
  BY <1>1
<1>3. Last(a) = h[L]
  BY <1>2 DEF Last, G
<1>4. Front(a) = [k \in 1 .. L |-> G(k)]
  BY <1>2 DEF Front
<1>. QED  BY <1>1, <1>3, <1>4 DEF a, L, G

\* The total of the accumulated entries counts the files without the category, too.
LEMMA AccumulatedTotal ==
  ASSUME FilesOpen, NEW c
  PROVE  Last(Accumulated(session.files, c)) = Sum(Shares(c))
<1>1. Shares(c) \in Seq(Nat) /\ Len(Shares(c)) = Len(session.files)
  BY DEF FilesOpen, Shares
<1>2. PICK g : PartialSums(Shares(c), g) /\ Sum(Shares(c)) = g[Len(session.files)]
  BY <1>1, SumOf
<1>. QED  BY <1>2, AccumulatedAre, AccumulatedParts

\* The reader that is found has the entry, and this is the stored one.
LEMMA TupleAt ==
  ASSUME FilesOpen, NEW c, NEW g, StoredIs(c, g),
         readers[c] = ReaderFiles(session.files, c), readerEntries[c] = Front(Accumulated(session.files, c)),
         NEW n \in Nat, n < Last(Accumulated(session.files, c)),
         NEW k, k = ReaderIndex(c, n), NEW t, t = readers[c][k]
  PROVE  /\ t \in DOMAIN session.files
         /\ n - readerEntries[c][k] \in Nat
         /\ StoredEntries(c)[n + 1] = [at |-> <<t, n - readerEntries[c][k]>>, colls |-> Readable(t, c)]
         /\ Shares(c)[t] # 0
<1>1. PartialSums(Shares(c), g) /\ Shares(c) \in Seq(Nat) /\ Len(Shares(c)) = Len(session.files)
  BY DEF StoredIs, FilesOpen, Shares
<1>2. PICK R, h : ReadersAre(c, g, R, h)
  BY <1>1, AccumulatedAre
<1>. DEFINE L == Len(R)
            e == EntriesAmong(R, c)
            A == readerEntries[c]
<1>3. R = readers[c] /\ A = [i \in 1 .. L |-> h[i - 1]] /\ n < g[Len(session.files)]
  <2>1. R = readers[c]
    BY <1>2 DEF ReadersAre
  <2>2. Front(Accumulated(session.files, c)) = [i \in 1 .. L |-> h[i - 1]]
        /\ Last(Accumulated(session.files, c)) = g[Len(session.files)]
    BY <1>2, AccumulatedParts
  <2>. QED  BY <2>1, <2>2
<1>4. L \in Nat /\ e \in Seq(Nat) /\ Len(e) = L /\ PartialSums(e, h) /\ h[L] = g[Len(session.files)]
  <2>1. L \in Nat /\ e \in Seq(Nat) /\ PartialSums(e, h) /\ h[L] = g[Len(session.files)]
    BY <1>2 DEF ReadersAre
  <2>2. Len(e) = L
    BY <2>1 DEF EntriesAmong
  <2>. QED  BY <2>1, <2>2
<1>5. \A i \in 1 .. L : R[i] \in DOMAIN session.files /\ Shares(c)[R[i]] = e[i] /\ h[i - 1] = g[R[i] - 1]
  BY <1>2 DEF ReadersAre, FilesOpen
<1>. HIDE DEF L, e, A
<1>6. PICK j \in 1 .. L : h[j - 1] <= n /\ n < h[j]
  <2>1. n < h[Len(e)]
    BY <1>3, <1>4
  <2>. QED  BY <1>4, <2>1, Located
<1>7. (\A i \in 0 .. L : h[i] \in Nat) /\ \A i \in 1 .. L : h[i] = h[i - 1] + e[i] /\ e[i] \in Nat
  BY <1>4, SumsType
<1>8. \A i \in 1 .. L : i <= j => A[i] <= n
  <2>. SUFFICES ASSUME NEW i \in 1 .. L, i <= j PROVE A[i] <= n
    OBVIOUS
  <2>1. i - 1 \in 0 .. L /\ j - 1 \in (i - 1) .. L /\ j - 1 \in 0 .. L
    BY <1>4, <1>6
  <2>2. h[i - 1] <= h[j - 1]
    BY <1>4, <2>1, SumsGrow
  <2>. QED  BY <1>3, <1>6, <1>7, <2>1, <2>2
<1>9. \A i \in 1 .. L : i > j => A[i] > n
  <2>. SUFFICES ASSUME NEW i \in 1 .. L, i > j PROVE A[i] > n
    OBVIOUS
  <2>1. j \in 0 .. L /\ i - 1 \in j .. L /\ i - 1 \in 0 .. L
    BY <1>4, <1>6
  <2>2. h[j] <= h[i - 1]
    BY <1>4, <2>1, SumsGrow
  <2>. QED  BY <1>3, <1>6, <1>7, <2>1, <2>2
<1>. DEFINE after == {i \in DOMAIN A : A[i] > n}
<1>10. after = {i \in 1 .. L : i > j}
  <2>1. \A i \in 1 .. L : i > j <=> ~(i <= j)
    BY <1>4
  <2>2. \A i \in 1 .. L : A[i] \in Nat
    <3>1. \A i \in 1 .. L : i - 1 \in 0 .. L
      BY <1>4
    <3>. QED  BY <1>3, <1>7, <3>1
  <2>3. \A i \in 1 .. L : A[i] > n <=> i > j
    BY <1>8, <1>9, <2>1, <2>2
  <2>. QED  BY <1>3, <2>3
<1>11. k = j
  <2>1. k = IF after = {} THEN Len(A) ELSE Min(after) - 1
    BY DEF ReaderIndex, A
  <2>2. Len(A) = L
    BY <1>3, <1>4
  <2>3. CASE j = L
    <3>1. after = {}
      BY <1>4, <1>10, <2>3
    <3>. HIDE DEF after
    <3>. QED  BY <2>1, <2>2, <2>3, <3>1
  <2>4. CASE j # L
    <3>1. j + 1 \in after /\ \A i \in after : i \in Nat /\ j + 1 <= i
      BY <1>4, <1>6, <1>10, <2>4, SMTT(30)
    <3>. HIDE DEF after
    <3>2. Min(after) \in after /\ \A i \in after : Min(after) <= i
      <4>1. \E x \in after : \A y \in after : x <= y
        BY <3>1
      <4>. QED  BY <4>1 DEF Min
    <3>3. Min(after) = j + 1
      BY <3>1, <3>2
    <3>4. (j + 1) - 1 = j /\ after # {}
      BY <3>1
    <3>. QED  BY <2>1, <3>3, <3>4
  <2>. QED  BY <2>3, <2>4
<1>12. t = R[j] /\ A[k] = h[j - 1] /\ h[j - 1] \in Nat
  <2>1. j - 1 \in 0 .. L
    BY <1>4
  <2>. QED  BY <1>3, <1>7, <1>11, <2>1
<1>13. t \in DOMAIN session.files /\ Shares(c)[t] = e[j] /\ h[j - 1] = g[t - 1] /\ e[j] \in Nat /\ h[j] = h[j - 1] + e[j]
  BY <1>5, <1>7, <1>12
<1>. DEFINE l == n - h[j - 1] + 1
<1>14. l \in 1 .. Shares(c)[t] /\ g[t - 1] + l = n + 1 /\ l - 1 = n - A[k] /\ l - 1 \in Nat
  BY <1>6, <1>12, <1>13
<1>. HIDE DEF l
<1>15. t \in 1 .. Len(session.files)
  BY <1>13 DEF FilesOpen
<1>16. StoredEntries(c)[g[t - 1] + l] = [at |-> <<t, l - 1>>, colls |-> Readable(t, c)]
  BY <1>14, <1>15 DEF StoredIs
<1>17. Shares(c)[t] # 0
  BY <1>13, <1>14
<1>. QED  BY <1>13, <1>14, <1>16, <1>17 DEF A

-----------------------------------------------------------------------------
\* A step of the tool leaves the data source alone, or is one of its own.
LEMMA SourceStep ==
  ASSUME [DumpNext]_<<readersVars, toolVars>>
  PROVE  UNCHANGED sourceVars \/ (kind \in {"root", "source"} /\ Source!Next)
<1>1. CASE UNCHANGED <<readersVars, toolVars>>
  BY <1>1 DEF readersVars
<1>2. ASSUME ReadersNext PROVE UNCHANGED sourceVars \/ (kind \in {"root", "source"} /\ Source!Next)
  <2>1. CASE LoadLibraries
    BY <2>1 DEF LoadLibraries
  <2>2. CASE WriteSio
    BY <2>2 DEF WriteSio
  <2>3. CASE \E l \in Lists : MakeReader(l)
    BY <2>3 DEF MakeReader
  <2>4. CASE \E c \in Categories : ReadFrame(c) \/ ReadNextFrame(c)
    BY <2>4 DEF ReadFrame, ReadNextFrame, Read, ReadRoot, ReadSio
  <2>5. CASE ReadLegacy
    BY <2>5 DEF ReadLegacy
  <2>6. CASE RunSource
    BY <2>6 DEF RunSource
  <2>. QED  BY <1>2, <2>1, <2>2, <2>3, <2>4, <2>5, <2>6 DEF ReadersNext
<1>3. CASE tool = "none" /\ ReadersNext /\ UNCHANGED toolVars
  BY <1>2, <1>3
<1>4. CASE \E arguments \in Arguments : ParseArgs(arguments)
  BY <1>4 DEF ParseArgs, readersVars
<1>5. CASE OpenReader
  BY <1>5 DEF OpenReader, MakeReader
<1>6. CASE DumpEDMDefinition
  BY <1>6 DEF DumpEDMDefinition, readersVars
<1>7. CASE ListEntries
  BY <1>7 DEF ListEntries
<1>8. CASE PrintFrame
  BY <1>8 DEF PrintFrame, ReadAll, ReadRoot, ReadSio
<1>9. CASE EndLoop \/ CrashInStats
  BY <1>9 DEF EndLoop, CrashInStats, readersVars
<1>. QED  BY <1>1, <1>3, <1>4, <1>5, <1>6, <1>7, <1>8, <1>9 DEF DumpNext
-----------------------------------------------------------------------------
\* Of the files that are open, a step changes nothing, or it opens them.
LEMMA SessionStep ==
  ASSUME [DumpNext]_<<readersVars, toolVars>>
  PROVE  \/ UNCHANGED <<session, totalEntries>>
         \/ session = Closed /\ \E l \in Lists : CommonSuffix(l) = "root" /\ OpenFiles(RootSession(l))
<1>. DEFINE Opens == session = Closed /\ \E l \in Lists : CommonSuffix(l) = "root" /\ OpenFiles(RootSession(l))
            Same == UNCHANGED <<session, totalEntries>>
<1>. USE DEF rootVars, readVars, tupleVars
<1>1. CASE UNCHANGED <<readersVars, toolVars>>
  BY <1>1 DEF readersVars
<1>2. ASSUME NEW l \in Lists, MakeReader(l) PROVE Same \/ Opens
  BY <1>2 DEF MakeReader, OpenFiles
<1>3. ASSUME NEW c, NEW index, NEW n, NEW request, ReadRoot(c, index, n, request) PROVE Same
  BY <1>3 DEF ReadRoot, ReadEntry, ReadTree, CrashTree, ReadTuple
<1>4. ASSUME NEW c, NEW index, NEW n, NEW names, ReadSio(c, index, n, names) PROVE Same
  BY <1>4 DEF ReadSio
<1>. HIDE DEF Same, Opens
<1>5. ASSUME ReadersNext PROVE Same \/ Opens
  <2>. USE DEF Same
  <2>1. CASE LoadLibraries
    BY <2>1 DEF LoadLibraries
  <2>2. CASE WriteSio
    BY <2>2 DEF WriteSio
  <2>3. CASE \E l \in Lists : MakeReader(l)
    BY <1>2, <2>3
  <2>4. CASE \E c \in Categories : ReadFrame(c) \/ ReadNextFrame(c)
    <3>. HIDE DEF Same
    <3>. QED  BY <1>3, <1>4, <2>4 DEF ReadFrame, ReadNextFrame, Read
  <2>5. CASE ReadLegacy
    BY <2>5 DEF ReadLegacy
  <2>6. CASE RunSource
    BY <2>6 DEF RunSource
  <2>. QED  BY <1>5, <2>1, <2>2, <2>3, <2>4, <2>5, <2>6 DEF ReadersNext
<1>6. CASE tool = "none" /\ ReadersNext /\ UNCHANGED toolVars
  BY <1>5, <1>6 DEF Opens, Same
<1>. USE DEF Same
<1>7. CASE \E arguments \in Arguments : ParseArgs(arguments)
  BY <1>7 DEF ParseArgs, readersVars
<1>8. CASE OpenReader
  <2>1. PICK l \in Lists : MakeReader(l)
    BY <1>8 DEF OpenReader
  <2>. QED  BY <1>2, <2>1 DEF Opens
<1>9. CASE DumpEDMDefinition
  BY <1>9 DEF DumpEDMDefinition, readersVars
<1>10. CASE ListEntries
  BY <1>10 DEF ListEntries
<1>11. CASE PrintFrame
  BY <1>3, <1>4, <1>11 DEF PrintFrame, ReadAll
<1>12. CASE EndLoop \/ CrashInStats
  BY <1>12 DEF EndLoop, CrashInStats, readersVars
<1>. QED  BY <1>1, <1>6, <1>7, <1>8, <1>9, <1>10, <1>11, <1>12 DEF DumpNext, Opens

\* What is open was given in a list, and an RNTuple reader has the totals.
SessionInv ==
  /\ totalEntries \in [Categories -> Nat]
  /\ session # Closed =>
       /\ session \in Sessions
       /\ session.format \in {"ttree", "rntuple"}
       /\ session.format = "rntuple" =>
            \A c \in Categories : c \in AvailableCategories => totalEntries[c] = Sum(Shares(c))

\* An open reader has files, and these have entries of their categories.
LEMMA SessionFiles ==
  ASSUME NEW s \in Sessions
  PROVE  /\ Len(s.files) \in Nat \ {0} /\ DOMAIN s.files = 1 .. Len(s.files)
         /\ \A t \in 1 .. Len(s.files) : \A c \in DOMAIN Files[s.files[t]].info : Files[s.files[t]].entries[c] \in Nat
<1>1. s.files # <<>> /\ s.files \in Seq(DOMAIN Files)
  BY FilesType
<1>2. \A t \in 1 .. Len(s.files) : s.files[t] \in DOMAIN Files
  BY <1>1
<1>. QED  BY <1>1, <1>2, FilesType

\* The share of a file is a number of entries.
LEMMA SharesType ==
  ASSUME FilesOpen, NEW c
  PROVE  Shares(c) \in Seq(Nat)
  BY DEF FilesOpen, Shares

\* Nothing is open at first.
LEMMA SessionInit == ToolInit => SessionInv
  BY DEF ToolInit, MCInit, Init, ReadInit, SessionInv

\* Only opening files changes the session, and sets the totals of all its categories.
LEMMA SessionPreserved ==
  ASSUME SessionInv, [DumpNext]_<<readersVars, toolVars>>
  PROVE  SessionInv'
<1>1. CASE UNCHANGED <<session, totalEntries>>
  BY <1>1 DEF SessionInv, AvailableCategories, Shares, FileOf
<1>2. CASE session = Closed /\ \E l \in Lists : CommonSuffix(l) = "root" /\ OpenFiles(RootSession(l))
  <2>1. PICK l \in Lists : CommonSuffix(l) = "root" /\ OpenFiles(RootSession(l))
    BY <1>2
  <2>2. session' = RootSession(l) /\ session' \in Sessions
    BY <2>1, ListsAssumption DEF OpenFiles
  <2>3. session'.format \in {"ttree", "rntuple"} /\ session'.files = l.files
    BY <2>2 DEF RootSession, RootFormat
  <2>4. FilesOpen'
    BY <2>2, SessionFiles DEF FilesOpen, FileOf
  <2>5. \A c : Shares(c)' \in Seq(Nat) /\ Last(Accumulated(session'.files, c)) = Sum(Shares(c)')
    \* The lemmas hold in the next state, too.
    <3>. SUFFICES ASSUME NEW c PROVE Shares(c)' \in Seq(Nat) /\ Last(Accumulated(session'.files, c)) = Sum(Shares(c)')
      OBVIOUS
    <3>1. Shares(c)' \in Seq(Nat)
      BY <2>4 DEF FilesOpen, Shares
    <3>2. (Last(Accumulated(session.files, c)) = Sum(Shares(c)))'
      BY <2>4, AccumulatedTotal, PTL
    <3>. QED  BY <3>1, <3>2
  <2>6. CASE RootSession(l).format = "ttree"
    <3>1. totalEntries' = totalEntries
      BY <2>1, <2>6 DEF OpenFiles, tupleVars
    <3>. QED  BY <2>2, <2>3, <2>6, <3>1 DEF SessionInv
  <2>7. CASE RootSession(l).format = "rntuple"
    <3>1. totalEntries' = [c \in Categories |-> IF c \in AvailableCategories' THEN Last(Accumulated(session'.files, c)) ELSE 0]
      BY <2>1, <2>2, <2>3, <2>7 DEF OpenFiles, AvailableCategories, FileOf, Last
    <3>2. \A c \in Categories : Sum(Shares(c)') \in Nat
      BY <2>5, SumType
    <3>3. totalEntries' \in [Categories -> Nat]
      BY <2>5, <3>1, <3>2
    <3>4. \A c \in Categories : c \in AvailableCategories' => totalEntries'[c] = Sum(Shares(c)')
      BY <2>5, <3>1
    <3>. QED  BY <2>2, <2>3, <3>3, <3>4 DEF SessionInv
  <2>. QED  BY <2>1, <2>6, <2>7 DEF OpenFiles
<1>. QED  BY <1>1, <1>2, SessionStep

\* The readers count their entries.
LEMMA CountedAreStored == SessionInv => EntriesCounted /\ \A c \in Categories : GetEntries(c) \in Nat
<1>. SUFFICES ASSUME SessionInv, NEW c \in Categories
              PROVE  GetEntries(c) = Len(StoredEntries(c)) /\ GetEntries(c) \in Nat
  BY DEF EntriesCounted
<1>1. CASE session = Closed \/ c \notin AvailableCategories
  BY <1>1 DEF GetEntries, StoredEntries
<1>2. CASE session # Closed /\ c \in AvailableCategories
  <2>1. FilesOpen
    BY <1>2, SessionFiles DEF SessionInv, FilesOpen, FileOf
  <2>2. Len(StoredEntries(c)) = Sum(Shares(c)) /\ Sum(Shares(c)) \in Nat
    BY <1>2, <2>1, StoredLength, SharesType, SumType
  <2>3. CASE session.format = "ttree"
    <3>1. \A t \in DOMAIN session.files : c \in DOMAIN FileOf(t).info
      <4>1. session \in Sessions /\ 1 \in DOMAIN session.files
        BY <1>2, <2>1 DEF SessionInv, FilesOpen
      <4>2. \A t \in DOMAIN session.files : DOMAIN FileOf(t).info = DOMAIN FileOf(1).info
        BY <2>3, <4>1, FilesAssumption DEF FileOf
      <4>. QED  BY <1>2, <4>2 DEF AvailableCategories
    <3>2. TreeEntries(c) = Shares(c)
      BY <2>1, <3>1 DEF TreeEntries, Shares, FilesOpen
    <3>. QED  BY <1>2, <2>2, <2>3, <3>2 DEF GetEntries
  <2>4. CASE session.format = "rntuple"
    BY <1>2, <2>2, <2>4 DEF SessionInv, GetEntries
  <2>. QED  BY <1>2, <2>3, <2>4 DEF SessionInv
<1>. QED  BY <1>1, <1>2

\* They do not have more entries than an unsigned can count.
LEMMA CountFits ==
  ASSUME SessionInv, NEW c \in Categories
  PROVE  GetEntries(c) < EntryRange
<1>1. CASE session = Closed
  BY <1>1, EntryRangeAssumption DEF GetEntries
<1>2. CASE session # Closed /\ c \notin AvailableCategories
  BY <1>2, EntryRangeAssumption DEF GetEntries
<1>3. CASE session # Closed /\ c \in AvailableCategories
  <2>1. session \in Sessions /\ FilesOpen
    BY <1>3, SessionFiles DEF SessionInv, FilesOpen, FileOf
  <2>2. GetEntries(c) = Len(StoredEntries(c))
    BY CountedAreStored DEF EntriesCounted
  <2>3. Len(StoredEntries(c)) = Sum(Shares(c))
    BY <1>3, <2>1, StoredLength
  <2>4. Shares(c) = [t \in DOMAIN session.files |->
          IF c \in DOMAIN Files[session.files[t]].info THEN Files[session.files[t]].entries[c] ELSE 0]
    BY <2>1 DEF Shares, FileOf, FilesOpen
  <2>5. EntriesIn(session, c) = Sum(Shares(c))
    BY <2>4 DEF EntriesIn
  <2>. QED  BY <2>1, <2>2, <2>3, <2>5, EntryRangeAssumption
<1>. QED  BY <1>1, <1>2, <1>3

\* For all files, in any combination: getEntries is the number of entries that can be read.
THEOREM AllEntriesCounted == DumpSpec => []EntriesCounted
<1>1. DumpSpec => []SessionInv
  BY SessionInit, SessionPreserved, PTL DEF DumpSpec
<1>. QED  BY <1>1, CountedAreStored, PTL
-----------------------------------------------------------------------------

\* The branches that collections of a file of a version of podio have.
BranchesOf(v, colls) ==
  UNION {Range(BranchNames(v, x, SubSeq(Relations[x.type], 1, x.parts))) : x \in Range(colls)}

\* Every file with a category has the same of it.
LEMMA FilesAgree ==
  ASSUME session \in Sessions, FilesOpen, NEW c \in AvailableCategories,
         NEW t \in DOMAIN session.files, c \in DOMAIN FileOf(t).info
  PROVE  FileBranches(t, c) = FileBranches(1, c) /\ Readable(t, c) = Readable(1, c)
<1>1. 1 \in DOMAIN session.files
  BY DEF FilesOpen
<1>2. FileOf(t).version = FileOf(1).version /\ FileOf(t).info[c] = FileOf(1).info[c]
  BY <1>1, FilesAssumption DEF FileOf, AvailableCategories
<1>3. \A r : FileBranches(r, c) = BranchesOf(FileOf(r).version, FileOf(r).info[c])
  BY DEF FileBranches, BranchesOf
<1>4. FileBranches(t, c) = FileBranches(1, c)
  BY <1>2, <1>3
<1>. QED  BY <1>4 DEF Readable

\* The pointers to the branches of a collection in a tree, and what is left of
\* them when the tree is deleted.
Pointers(c, t, x) ==
  [k \in DOMAIN CollectionBranches(x) |-> GetBranch(t, c, CollectionBranches(x)[k])]
Dangling(c, t, x) ==
  [k \in DOMAIN CollectionBranches(x) |->
     IF CollectionBranches(x)[k] \in FileBranches(t, c) THEN Stale ELSE 0]

\* A category that was looked at has the pointers of the tree that is loaded, and
\* those of trees before it for collections that nobody asked for since.
LookedUp(c, info) ==
  /\ info = [stored |-> StoredClasses(c), tree |-> info.tree, branches |-> info.branches]
  /\ info.tree \in DOMAIN session.files
  /\ DOMAIN info.branches = 1 .. Len(StoredClasses(c)) + 1
  /\ info.branches[Len(StoredClasses(c)) + 1] = [k \in DOMAIN ParamBranches(Version) |-> info.tree]
  /\ \A i \in DOMAIN StoredClasses(c) :
       info.branches[i] \in {Pointers(c, info.tree, StoredClasses(c)[i]), Dangling(c, info.tree, StoredClasses(c)[i])}

\* The pointers of a collection, or of all that can be made, are those of the tree.
UpToDate(c, info, i) == info.branches[i] = Pointers(c, info.tree, StoredClasses(c)[i])
Fresh(c, info) == \A i \in DOMAIN StoredClasses(c) : Creatable(StoredClasses(c)[i]) => UpToDate(c, info, i)

\* To look the pointers up again gives those of the new tree.
LEMMA ResetLooksUp ==
  ASSUME NEW c, NEW t, NEW r, FileBranches(t, c) = FileBranches(r, c), r # 0,
         NEW x, NEW old \in {Pointers(c, r, x), Dangling(c, r, x)}
  PROVE  ResetBranches(c, t, x, old) = Pointers(c, t, x)
<1>. DEFINE names == CollectionBranches(x)
<1>1. DOMAIN old = DOMAIN names /\ \A k \in DOMAIN names : old[k] = 0 <=> names[k] \notin FileBranches(t, c)
  BY DEF Pointers, Dangling, GetBranch, Stale
<1>. HIDE DEF names
<1>2. \A k \in DOMAIN names :
        (IF ~x.subset /\ k = 1 /\ old[k] = 0 THEN 0 ELSE GetBranch(t, c, names[k])) = GetBranch(t, c, names[k])
  BY <1>1 DEF GetBranch
<1>3. ResetBranches(c, t, x, old) =
        [k \in DOMAIN old |-> IF ~x.subset /\ k = 1 /\ old[k] = 0 THEN 0 ELSE GetBranch(t, c, names[k])]
  BY DEF ResetBranches, names
<1>4. Pointers(c, t, x) = [k \in DOMAIN names |-> GetBranch(t, c, names[k])]
  BY DEF Pointers, names
<1>. QED  BY <1>1, <1>2, <1>3, <1>4

\* What is not looked up again stays, or dangles when the tree was deleted.
LEMMA KeptDangles ==
  ASSUME NEW c, NEW t, NEW r, FileBranches(t, c) = FileBranches(r, c), r # 0,
         NEW x, NEW old \in {Pointers(c, r, x), Dangling(c, r, x)}
  PROVE  [k \in DOMAIN old |-> IF old[k] # 0 THEN Stale ELSE old[k]] = Dangling(c, t, x)
<1>. DEFINE names == CollectionBranches(x)
<1>1. DOMAIN old = DOMAIN names /\ \A k \in DOMAIN names : old[k] = 0 <=> names[k] \notin FileBranches(t, c)
  BY DEF Pointers, Dangling, GetBranch, Stale
<1>2. Dangling(c, t, x) = [k \in DOMAIN names |-> IF names[k] \in FileBranches(t, c) THEN Stale ELSE 0]
  BY DEF Dangling
<1>. HIDE DEF names
<1>3. \A k \in DOMAIN names :
        (IF old[k] # 0 THEN Stale ELSE old[k]) = (IF names[k] \in FileBranches(t, c) THEN Stale ELSE 0)
  BY <1>1
<1>. QED  BY <1>1, <1>2, <1>3

\* The stored classes are a sequence.
LEMMA ClassesAre ==
  ASSUME session \in Sessions, NEW c \in AvailableCategories
  PROVE  Len(StoredClasses(c)) \in Nat /\ DOMAIN StoredClasses(c) = 1 .. Len(StoredClasses(c))
<1>1. FileOf(1) = Files[session.files[1]] /\ session.files[1] \in DOMAIN Files
  BY FilesType DEF FileOf
<1>. DEFINE colls == FileOf(1).info[c]
            n == Len(colls)
            E(i) == [FileOf(1).info[c][i] EXCEPT !.schema = SchemaVersion(Version, FileOf(1).info[c][i])]
<1>2. colls \in Seq(Range(colls))
  BY <1>1, FilesType DEF AvailableCategories
<1>3. StoredClasses(c) = [i \in DOMAIN colls |-> E(i)]
  BY DEF StoredClasses
<1>. HIDE DEF colls, E
<1>4. DOMAIN colls = 1 .. n /\ n \in Nat
  BY <1>2
<1>. HIDE DEF n
<1>. QED  BY <1>3, <1>4

\* An element more.
LEMMA OneMore ==
  ASSUME NEW n \in Nat, NEW s, s = [i \in 1 .. n |-> s[i]], NEW p
  PROVE  /\ DOMAIN (s \o <<p>>) = 1 .. n + 1
         /\ (s \o <<p>>)[n + 1] = p
         /\ \A i \in 1 .. n : (s \o <<p>>)[i] = s[i]
<1>. DEFINE X == {s[i] : i \in 1 .. n} \cup {p}
<1>1. \A i \in 1 .. n : s[i] \in X
  OBVIOUS
<1>2. s \in Seq(X) /\ Len(s) = n
  <2>. HIDE DEF X
  <2>. QED  BY <1>1
<1>3. <<p>> \in Seq(X) /\ Len(<<p>>) = 1 /\ <<p>>[1] = p
  <2>1. p \in X
    OBVIOUS
  <2>. HIDE DEF X
  <2>. QED  BY <2>1
<1>. HIDE DEF X
<1>. DEFINE q == <<p>>
<1>. HIDE DEF q
<1>4. Len(q) = 1 /\ q \in Seq(X) /\ q[1] = p
  BY <1>3 DEF q
<1>5. Len(s \o q) = n + 1 /\ (\A i \in 1 .. n : (s \o q)[i] = s[i]) /\ (s \o q)[n + 1] = q[1]
  <2>1. Len(s \o q) = Len(s) + Len(q) /\ (\A l \in 1 .. Len(s) : (s \o q)[l] = s[l])
        /\ \A l \in 1 .. Len(q) : (s \o q)[Len(s) + l] = q[l]
    <3>. SUFFICES ASSUME NEW a \in Seq(X), NEW b \in Seq(X)
                  PROVE  Len(a \o b) = Len(a) + Len(b) /\ (\A l \in 1 .. Len(a) : (a \o b)[l] = a[l])
                         /\ \A l \in 1 .. Len(b) : (a \o b)[Len(a) + l] = b[l]
      BY <1>2, <1>4
    <3>. QED  OBVIOUS
  <2>. QED  BY <1>2, <1>4, <2>1
<1>6. s \o q \in Seq(X)
  BY <1>2, <1>4
<1>7. DOMAIN (s \o q) = 1 .. n + 1
  BY <1>5, <1>6
<1>. QED  BY <1>4, <1>5, <1>7 DEF q

\* The first look at a category finds all branches in the first tree.
LEMMA FirstLook ==
  ASSUME session \in Sessions, FilesOpen, NEW c \in AvailableCategories,
         NEW info, info = [stored |-> StoredClasses(c), tree |-> 1, branches |-> CreateCollectionBranches(c, 1)]
  PROVE  LookedUp(c, info) /\ \A i \in DOMAIN StoredClasses(c) : UpToDate(c, info, i)
<1>. DEFINE n == Len(StoredClasses(c))
            p == [k \in DOMAIN ParamBranches(Version) |-> 1]
            s == [i \in DOMAIN StoredClasses(c) |->
                    LET names == CollectionBranches(StoredClasses(c)[i])
                    IN  [k \in DOMAIN names |-> GetBranch(1, c, names[k])]]
<1>1. n \in Nat /\ DOMAIN StoredClasses(c) = 1 .. n
  BY ClassesAre
<1>2. CreateCollectionBranches(c, 1) = s \o <<p>>
  BY DEF CreateCollectionBranches
<1>3. s = [i \in 1 .. n |-> s[i]] /\ \A i \in 1 .. n : s[i] = Pointers(c, 1, StoredClasses(c)[i])
  BY <1>1 DEF Pointers
<1>. HIDE DEF s, p
<1>4. DOMAIN (s \o <<p>>) = 1 .. n + 1 /\ (s \o <<p>>)[n + 1] = p /\ \A i \in 1 .. n : (s \o <<p>>)[i] = s[i]
  <2>. HIDE DEF n
  <2>. QED  BY <1>1, <1>3, OneMore
<1>. HIDE DEF n
<1>5. info.stored = StoredClasses(c) /\ info.tree = 1 /\ info.branches = s \o <<p>> /\ info.tree \in DOMAIN session.files
  BY <1>2 DEF FilesOpen
<1>6. LookedUp(c, info)
  BY <1>1, <1>3, <1>4, <1>5 DEF LookedUp, p, n
<1>7. ASSUME NEW i \in DOMAIN StoredClasses(c) PROVE UpToDate(c, info, i)
  <2>1. info.branches[i] = Pointers(c, 1, StoredClasses(c)[i])
    BY <1>1, <1>3, <1>4, <1>5
  <2>. QED  BY <1>5, <2>1 DEF UpToDate
<1>. QED  BY <1>6, <1>7

\* To read an entry loads its tree and keeps the pointers in order.
LEMMA LoadsTree ==
  ASSUME session \in Sessions, session.format = "ttree", FilesOpen, NEW c \in AvailableCategories,
         NEW info, LookedUp(c, info), NEW n, NEW request,
         NEW t, t = TreeOf(c, n), t \in DOMAIN session.files
  PROVE  /\ LookedUp(c, LoadBranches(c, info, n, request))
         /\ LoadBranches(c, info, n, request).tree = t
         /\ \A i \in DOMAIN StoredClasses(c) :
              /\ UpToDate(c, info, i)
              /\ Creatable(StoredClasses(c)[i])
              /\ Wanted(request, StoredClasses(c)[i]) \/ t = info.tree
              => UpToDate(c, LoadBranches(c, info, n, request), i)
<1>. DEFINE m == Len(StoredClasses(c))
            r == info.tree
            change == t # r
            reload == change \/ n = Offset(c, t)
            kept(p) == [k \in DOMAIN p |-> IF change /\ p[k] # 0 THEN Stale ELSE p[k]]
            b(i) == IF i > Len(info.stored)
                    THEN IF reload THEN [k \in DOMAIN info.branches[i] |-> t] ELSE info.branches[i]
                    ELSE LET x == info.stored[i]
                         IN  IF Wanted(request, x) /\ Creatable(x) /\ reload
                             THEN ResetBranches(c, t, x, info.branches[i])
                             ELSE kept(info.branches[i])
            new == LoadBranches(c, info, n, request)
<1>1. m \in Nat /\ DOMAIN StoredClasses(c) = 1 .. m /\ info.stored = StoredClasses(c)
      /\ r \in DOMAIN session.files /\ DOMAIN info.branches = 1 .. m + 1
  BY ClassesAre DEF LookedUp
<1>2. new = [info EXCEPT !.tree = t, !.branches = [i \in DOMAIN info.branches |-> b(i)]]
  BY DEF LoadBranches
<1>3. new = [stored |-> StoredClasses(c), tree |-> t, branches |-> [i \in 1 .. m + 1 |-> b(i)]]
  <2>. HIDE DEF m, b, new
  <2>1. info = [stored |-> StoredClasses(c), tree |-> info.tree, branches |-> info.branches]
    BY DEF LookedUp
  <2>. QED  BY <1>1, <1>2, <2>1
<1>4. \A i \in 1 .. m + 1 : new.branches[i] = b(i)
  <2>. HIDE DEF m, b, new
  <2>. QED  BY <1>3
<1>5. m + 1 \in 1 .. m + 1 /\ m + 1 > m
  BY <1>1
<1>6. new.branches[m + 1] = [k \in DOMAIN ParamBranches(Version) |-> t]
  <2>1. info.branches[m + 1] = [k \in DOMAIN ParamBranches(Version) |-> r]
    BY DEF LookedUp
  <2>2. b(m + 1) = IF reload THEN [k \in DOMAIN info.branches[m + 1] |-> t] ELSE info.branches[m + 1]
    BY <1>1, <1>5
  <2>3. DOMAIN info.branches[m + 1] = DOMAIN ParamBranches(Version)
    BY <2>1
  <2>4. new.branches[m + 1] = b(m + 1)
    BY <1>4, <1>5
  <2>. HIDE DEF b, new, m
  <2>. QED  BY <2>1, <2>2, <2>3, <2>4
<1>7. ASSUME NEW i \in 1 .. m
      PROVE  /\ new.branches[i] \in {Pointers(c, t, StoredClasses(c)[i]), Dangling(c, t, StoredClasses(c)[i])}
             /\ /\ info.branches[i] = Pointers(c, r, StoredClasses(c)[i])
                /\ Creatable(StoredClasses(c)[i])
                /\ Wanted(request, StoredClasses(c)[i]) \/ t = r
                => new.branches[i] = Pointers(c, t, StoredClasses(c)[i])
  <2>. DEFINE x == StoredClasses(c)[i]
              old == info.branches[i]
  <2>1. i \in 1 .. m + 1 /\ ~(i > m)
    BY <1>1
  <2>2. b(i) = IF Wanted(request, x) /\ Creatable(x) /\ reload THEN ResetBranches(c, t, x, old) ELSE kept(old)
    BY <1>1, <2>1
  <2>3. new.branches[i] = b(i)
    BY <1>4, <2>1
  <2>4. old \in {Pointers(c, r, x), Dangling(c, r, x)}
    BY <1>1 DEF LookedUp
  <2>5. FileBranches(t, c) = FileBranches(r, c) /\ r # 0
    <3>1. FileBranches(t, c) = FileBranches(1, c)
      BY TreesHave, FilesAgree
    <3>2. FileBranches(r, c) = FileBranches(1, c)
      BY <1>1, TreesHave, FilesAgree
    <3>. QED  BY <1>1, <3>1, <3>2 DEF FilesOpen
  <2>. HIDE DEF x, old, b, new, m
  <2>6. ResetBranches(c, t, x, old) = Pointers(c, t, x)
    BY <2>4, <2>5, ResetLooksUp
  <2>7. kept(old) \in {Pointers(c, t, x), Dangling(c, t, x)}
    <3>1. CASE change
      <4>1. kept(old) = [k \in DOMAIN old |-> IF old[k] # 0 THEN Stale ELSE old[k]]
        BY <3>1
      <4>. QED  BY <2>4, <2>5, <4>1, KeptDangles
    <3>2. CASE ~change
      <4>1. old = [k \in DOMAIN old |-> old[k]]
        BY <2>4 DEF Pointers, Dangling
      <4>2. kept(old) = old
        BY <3>2, <4>1
      <4>. QED  BY <2>4, <3>2, <4>2
    <3>. QED  BY <3>1, <3>2
  <2>8. ASSUME old = Pointers(c, r, x), Creatable(x), Wanted(request, x) \/ t = r PROVE new.branches[i] = Pointers(c, t, x)
    <3>1. CASE Wanted(request, x) /\ reload
      BY <2>2, <2>3, <2>6, <2>8, <3>1
    <3>2. CASE ~(Wanted(request, x) /\ reload)
      <4>1. t = r
        BY <2>8, <3>2
      <4>2. old = [k \in DOMAIN old |-> old[k]]
        BY <2>8 DEF Pointers
      <4>3. kept(old) = old
        BY <4>1, <4>2
      <4>. HIDE DEF kept
      <4>. QED  BY <2>2, <2>3, <2>8, <3>2, <4>1, <4>3
    <3>. QED  BY <3>1, <3>2
  <2>9. b(i) \in {Pointers(c, t, x), Dangling(c, t, x)}
    <3>. HIDE DEF kept
    <3>. QED  BY <2>2, <2>6, <2>7
  <2>. HIDE DEF kept, reload, change
  <2>. QED  BY <2>3, <2>8, <2>9 DEF x, old
<1>8. DOMAIN new.branches = 1 .. m + 1 /\ new.tree = t
      /\ new = [stored |-> StoredClasses(c), tree |-> new.tree, branches |-> new.branches]
  <2>. HIDE DEF m, b, new
  <2>. QED  BY <1>3
<1>9. LookedUp(c, new)
  <2>. HIDE DEF new
  <2>. QED  BY <1>1, <1>6, <1>7, <1>8 DEF LookedUp
<1>10. ASSUME NEW i \in DOMAIN StoredClasses(c), UpToDate(c, info, i), Creatable(StoredClasses(c)[i]),
              Wanted(request, StoredClasses(c)[i]) \/ t = info.tree
       PROVE  UpToDate(c, new, i)
  <2>. HIDE DEF new
  <2>1. new.branches[i] = Pointers(c, t, StoredClasses(c)[i])
    BY <1>1, <1>7, <1>10 DEF UpToDate
  <2>. QED  BY <1>8, <2>1 DEF UpToDate
<1>. HIDE DEF new
<1>11. LookedUp(c, new) /\ new.tree = t
  BY <1>8, <1>9
<1>. QED  BY <1>10, <1>11 DEF new

\* Without a null pointer there is a branch for each name; and pointers are null,
\* of the tree, or dangle.
LEMMA PointersAre ==
  ASSUME NEW c, NEW t, t # 0, NEW x, NEW old \in {Pointers(c, t, x), Dangling(c, t, x)}
  PROVE  /\ 0 \notin Range(old) <=> Range(CollectionBranches(x)) \subseteq FileBranches(t, c)
         /\ Range(old) \subseteq {0, t, Stale}
<1>. DEFINE names == CollectionBranches(x)
<1>1. Pointers(c, t, x) = [k \in DOMAIN names |-> IF names[k] \in FileBranches(t, c) THEN t ELSE 0]
  BY DEF Pointers, GetBranch
<1>2. Dangling(c, t, x) = [k \in DOMAIN names |-> IF names[k] \in FileBranches(t, c) THEN Stale ELSE 0]
  BY DEF Dangling
<1>. HIDE DEF names
<1>3. PICK p : p \in {t, Stale} /\ old = [k \in DOMAIN names |-> IF names[k] \in FileBranches(t, c) THEN p ELSE 0]
  BY <1>1, <1>2
<1>4. p # 0
  BY <1>3 DEF Stale
<1>5. Range(old) = {IF names[k] \in FileBranches(t, c) THEN p ELSE 0 : k \in DOMAIN names}
  BY <1>3 DEF Range
<1>6. Range(names) = {names[k] : k \in DOMAIN names}
  BY DEF Range
<1>7. 0 \notin Range(old) <=> Range(names) \subseteq FileBranches(t, c)
  BY <1>4, <1>5, <1>6
<1>8. Range(old) \subseteq {0, t, Stale}
  BY <1>3, <1>5
<1>. QED  BY <1>7, <1>8 DEF names

\* When nothing of a deleted tree is read, a frame is that of one entry of the tree,
\* with the collections that the file allows to read and that were asked for.
LEMMA TreeFrameIs ==
  ASSUME session \in Sessions, FilesOpen, NEW c \in AvailableCategories,
         NEW info, LookedUp(c, info), NEW n, NEW request, NEW t, t = info.tree,
         \A s \in TreeFrame(c, info, n, request).sources : s[1] # Stale
  PROVE  TreeFrame(c, info, n, request) =
           [status |-> "frame", sources |-> { <<t, n - Offset(c, t)>> },
            colls |-> Abstract!Selected(request, Readable(t, c))]
<1>. DEFINE S == StoredClasses(c)
            m == Len(S)
            local == n - Offset(c, t)
            There(x) == Range(CollectionBranches(x)) \subseteq FileBranches(t, c)
            delivered == {i \in 1 .. m : Wanted(request, S[i]) /\ Creatable(S[i]) /\ 0 \notin Range(info.branches[i])}
            U == UNION {Range(info.branches[i]) : i \in delivered \cup {m + 1}}
            sources == {<<p, local>> : p \in U}
            names == {S[i].name : i \in delivered}
<1>1. m \in Nat /\ DOMAIN S = 1 .. m /\ info.stored = S
  BY ClassesAre DEF LookedUp
<1>2. TreeFrame(c, info, n, request) = [status |-> "frame", sources |-> sources, colls |-> names]
  BY <1>1 DEF TreeFrame
<1>3. t \in DOMAIN session.files /\ t # 0
  BY DEF LookedUp, FilesOpen
<1>4. ASSUME NEW i \in 1 .. m
      PROVE  /\ 0 \notin Range(info.branches[i]) <=> There(S[i])
             /\ Range(info.branches[i]) \subseteq {0, t, Stale}
  <2>1. info.branches[i] \in {Pointers(c, t, S[i]), Dangling(c, t, S[i])}
    BY <1>1 DEF LookedUp
  <2>. HIDE DEF S
  <2>. QED  BY <1>3, <2>1, PointersAre
<1>5. Range(info.branches[m + 1]) = {t}
  <2>1. info.branches[m + 1] = [k \in DOMAIN ParamBranches(Version) |-> t]
    BY DEF LookedUp
  <2>2. 1 \in DOMAIN ParamBranches(Version)
    BY DEF ParamBranches
  <2>. QED  BY <2>1, <2>2 DEF Range
<1>6. \A i \in delivered : i \in 1 .. m /\ 0 \notin Range(info.branches[i])
  OBVIOUS
<1>7. U \subseteq {t, Stale} /\ t \in U
  <2>. HIDE DEF delivered, m
  <2>. QED  BY <1>4, <1>5, <1>6
<1>. HIDE DEF U
<1>8. Stale \notin U
  <2>. SUFFICES ASSUME Stale \in U PROVE FALSE
    OBVIOUS
  <2>. HIDE DEF local
  <2>1. <<Stale, local>> \in sources
    OBVIOUS
  <2>2. TreeFrame(c, info, n, request).sources = sources
    BY <1>2
  <2>3. <<Stale, local>>[1] = Stale
    OBVIOUS
  <2>. HIDE DEF sources
  <2>. QED  BY <2>1, <2>2, <2>3
<1>9. sources = { <<t, local>> }
  <2>1. U = {t}
    BY <1>7, <1>8
  <2>. QED  BY <2>1
<1>10. names = Abstract!Selected(request, Readable(t, c))
  <2>. DEFINE ReadableOnes == {y \in Range(S) : Creatable(y) /\ There(y)}
  <2>1. Readable(t, c) = {x.name : x \in ReadableOnes}
    BY DEF Readable
  <2>2. Range(S) = {S[i] : i \in 1 .. m}
    BY <1>1 DEF Range
  <2>3. delivered = {i \in 1 .. m : Wanted(request, S[i]) /\ Creatable(S[i]) /\ There(S[i])}
    BY <1>4
  <2>4. \A x : Wanted(request, x) <=> request = {} \/ x.name \in request
    BY DEF Wanted
  <2>5. Abstract!Selected(request, Readable(t, c)) =
          IF request = {} THEN Readable(t, c) ELSE Readable(t, c) \cap request
    BY DEF Abstract!Selected
  <2>6. \A z : z \in Readable(t, c) <=> \E i \in 1 .. m : Creatable(S[i]) /\ There(S[i]) /\ z = S[i].name
    <3>. HIDE DEF There, S, m
    <3>. QED  BY <2>1, <2>2
  <2>7. \A z : z \in names <=> \E i \in 1 .. m : Wanted(request, S[i]) /\ Creatable(S[i]) /\ There(S[i]) /\ z = S[i].name
    <3>. HIDE DEF There, S, m
    <3>. QED  BY <2>3
  <2>. HIDE DEF names
  <2>8. \A z : z \in names <=> z \in Readable(t, c) /\ (request = {} \/ z \in request)
    <3>. HIDE DEF There, S, m
    <3>. QED  BY <2>4, <2>6, <2>7
  <2>. QED  BY <2>5, <2>8
<1>. HIDE DEF sources, names, local
<1>. QED  BY <1>2, <1>9, <1>10 DEF local

\* Files of RNTuples name the branches of relations.
LEMMA TupleBranches ==
  ASSUME session \in Sessions, session.format = "rntuple", FilesOpen, NEW x
  PROVE  BranchNames(4, x, GetRelationNames(x.type)) = CollectionBranches(x)
<1>1. 1 \in DOMAIN session.files
  BY DEF FilesOpen
<1>2. Version \in {3, 4}
  BY <1>1, FilesAssumption DEF Version, FileOf
<1>3. ~(4 <= 2) /\ ~(Version <= 2)
  BY <1>2
<1>. HIDE DEF Version
<1>. QED  BY <1>3 DEF CollectionBranches, BranchNames

\* A frame of an RNTuple is that of one entry, with the collections that the file
\* allows to read and that were asked for.
LEMMA TupleFrameIs ==
  ASSUME session \in Sessions, session.format = "rntuple", FilesOpen, NEW c, NEW n, NEW request,
         NEW k, k = ReaderIndex(c, n), NEW t, t = readers[c][k]
  PROVE  TupleFrame(c, StoredClasses(c), n, request) =
           [status |-> "frame", sources |-> { <<t, n - readerEntries[c][k]>> },
            colls |-> Abstract!Selected(request, Readable(t, c))]
<1>. DEFINE S == StoredClasses(c)
            There(x) == Range(CollectionBranches(x)) \subseteq FileBranches(t, c)
            names == {x.name : x \in {y \in Range(S) : Wanted(request, y) /\ Creatable(y) /\ There(y)}}
<1>1. \A y : Range(BranchNames(4, y, GetRelationNames(y.type))) \subseteq FileBranches(t, c) <=> There(y)
  BY TupleBranches
<1>2. TupleFrame(c, StoredClasses(c), n, request) =
        [status |-> "frame", sources |-> { <<t, n - readerEntries[c][k]>> }, colls |-> names]
  BY <1>1 DEF TupleFrame
<1>3. names = Abstract!Selected(request, Readable(t, c))
  <2>1. Readable(t, c) = {x.name : x \in {y \in Range(S) : Creatable(y) /\ There(y)}}
    BY DEF Readable
  <2>2. \A x : Wanted(request, x) <=> request = {} \/ x.name \in request
    BY DEF Wanted
  <2>3. Abstract!Selected(request, Readable(t, c)) =
          IF request = {} THEN Readable(t, c) ELSE Readable(t, c) \cap request
    BY DEF Abstract!Selected
  <2>. HIDE DEF There, S
  <2>. QED  BY <2>1, <2>2, <2>3
<1>. HIDE DEF names
<1>. QED  BY <1>2, <1>3

\* What the reader of ROOT files is asked for: any unsigned, or the next.
Asks(c, n, request) ==
  /\ request \in session.requests \/ request = {}
  /\ n \in 0 .. EntryRange - 1 \/ n = cursor[c]

\* The steps of this reader; nothing is done when the process ends in a call.
Reads(c, n, request) == ReadTree(c, n, request) \/ ReadTuple(c, n, request)
NoStep ==
  /\ UNCHANGED <<session, catVars, tupleVars, cursor, result>>
  /\ kind = "none" \/ UNCHANGED regVars
  /\ kind' = kind \/ kind' \in {"sio", "refused", "legacy"} \/ (kind \in {"root", "source"} /\ kind' = "source")
  /\ UNCHANGED crashed \/ kind' = "root"
  /\ kind = "root" /\ kind' # "root" => ~crashed
OpenStep(s) == s \in Sessions /\ s.format \in {"ttree", "rntuple"} /\ kind' = "root" /\ OpenFiles(s) /\ UNCHANGED regVars
ReadStep(c, n, request) == kind = "root" /\ Asks(c, n, request) /\ Reads(c, n, request) /\ kind' = kind /\ UNCHANGED regVars
LookStep(c) ==
  /\ kind = "root" /\ session.format = "ttree" /\ c \in AvailableCategories
  /\ SetCategory(c, InitCategory(c))
  /\ UNCHANGED <<regVars, session, tupleVars, cursor, result, kind>>
RootStep ==
  \/ NoStep
  \/ \E s : OpenStep(s)
  \/ \E c \in Categories : \E n, request : ReadStep(c, n, request)
  \/ tool = "opened" /\ LookStep(args.category)

\* An index is narrowed to an unsigned.
LEMMA NarrowedFits ==
  ASSUME NEW index \in Nat
  PROVE  Narrowed(index) \in 0 .. EntryRange - 1
<1>1. EntryRange \in Nat \ {0}
  BY EntryRangeAssumption
<1>2. \A x \in Nat, y \in Nat \ {0} : x % y \in 0 .. y - 1
  OBVIOUS
<1>. QED  BY <1>1, <1>2 DEF Narrowed

\* A step of the tool or of the application is one of these for the reader.
LEMMA RootSteps ==
  ASSUME [DumpNext]_<<readersVars, toolVars>>,
         tool = "reading" => args.category \in Categories,
         tool = "reading" /\ kind = "root" => toRead \in Seq(Nat)
  PROVE  RootStep
<1>. USE DEF rootVars, readVars, facadeVars
<1>1. CASE UNCHANGED <<readersVars, toolVars>>
  BY <1>1 DEF readersVars, RootStep, NoStep
<1>2. ASSUME NEW l \in Lists, MakeReader(l) PROVE RootStep
  <2>1. CASE CommonSuffix(l) = "root" /\ OpenFiles(RootSession(l)) /\ kind' = "root" /\ UNCHANGED <<regVars, sioVars>>
    <3>1. RootSession(l) \in Sessions
      BY <2>1, ListsAssumption
    <3>2. RootSession(l).format \in {"ttree", "rntuple"}
      BY DEF RootSession, RootFormat
    <3>. QED  BY <2>1, <3>1, <3>2 DEF RootStep, OpenStep
  <2>2. CASE kind = "none" /\ kind' \in {"sio", "refused"} /\ UNCHANGED rootVars
    BY <2>2 DEF RootStep, NoStep
  <2>. QED  BY <1>2, <2>1, <2>2 DEF MakeReader
<1>3. ASSUME NEW c \in Categories, NEW index, NEW n, NEW request,
             ReadRoot(c, index, n, request), Asks(c, n, request)
      PROVE  RootStep
  <2>1. kind = "root" /\ ReadEntry(c, n, request) /\ UNCHANGED <<kind, regVars>>
    BY <1>3 DEF ReadRoot
  <2>2. CASE Reads(c, n, request)
    BY <1>3, <2>1, <2>2 DEF RootStep, ReadStep
  <2>3. CASE CrashTree(c, n, request)
    BY <2>1, <2>3 DEF RootStep, NoStep, CrashTree
  <2>. QED  BY <2>1, <2>2, <2>3 DEF ReadEntry, Reads
<1>4. ASSUME NEW c, NEW index, NEW n, NEW names, ReadSio(c, index, n, names) PROVE RootStep
  BY <1>4 DEF ReadSio, RootStep, NoStep
<1>5. ASSUME ReadersNext PROVE RootStep
  <2>1. CASE LoadLibraries
    BY <2>1 DEF LoadLibraries, RootStep, NoStep
  <2>2. CASE WriteSio
    BY <2>2 DEF WriteSio, RootStep, NoStep
  <2>3. CASE \E l \in Lists : MakeReader(l)
    BY <1>2, <2>3
  <2>4. CASE \E c \in Categories : ReadFrame(c) \/ ReadNextFrame(c)
    <3>. DEFINE Following(c) == IF kind = "root" THEN cursor[c] ELSE nameCtr[c]
    <3>1. PICK c \in Categories : \E index, n : Read(c, index, n) /\ (n \in 0 .. EntryRange - 1 \/ n = Following(c))
      <4>1. \A index \in Numbers : Narrowed(index) \in 0 .. EntryRange - 1
        BY NumbersAssumption, NarrowedFits
      <4>. QED  BY <2>4, <4>1 DEF ReadFrame, ReadNextFrame
    <3>2. PICK index, n : Read(c, index, n) /\ (n \in 0 .. EntryRange - 1 \/ n = Following(c))
      BY <3>1
    <3>3. ASSUME NEW request \in session.requests, ReadRoot(c, index, n, request) PROVE RootStep
      <4>1. Asks(c, n, request)
        BY <3>2, <3>3 DEF ReadRoot, Asks
      <4>. QED  BY <1>3, <3>3, <4>1
    <3>. QED  BY <1>4, <3>2, <3>3 DEF Read
  <2>5. CASE ReadLegacy
    BY <2>5 DEF ReadLegacy, RootStep, NoStep
  <2>6. CASE RunSource
    <3>1. kind = "source" \/ (kind = "root" /\ ~crashed)
      BY <2>6 DEF RunSource
    <3>2. kind' = "source" /\ UNCHANGED rootVars
      BY <2>6 DEF RunSource
    <3>. QED  BY <3>1, <3>2 DEF RootStep, NoStep
  <2>. QED  BY <1>5, <2>1, <2>2, <2>3, <2>4, <2>5, <2>6 DEF ReadersNext
<1>6. CASE tool = "none" /\ ReadersNext /\ UNCHANGED toolVars
  BY <1>5, <1>6
<1>7. CASE \E arguments \in Arguments : ParseArgs(arguments)
  BY <1>7 DEF ParseArgs, readersVars, RootStep, NoStep
<1>8. CASE OpenReader
  BY <1>2, <1>8 DEF OpenReader
<1>9. CASE DumpEDMDefinition
  BY <1>9 DEF DumpEDMDefinition, readersVars, RootStep, NoStep
<1>10. CASE ListEntries
  <2>1. UNCHANGED <<regVars, session, tupleVars, cursor, result, crashed, kind>> /\ tool = "opened" /\ GetSizeStats
    BY <1>10 DEF ListEntries
  <2>2. CASE UNCHANGED catVars
    BY <2>1, <2>2 DEF RootStep, NoStep
  <2>3. CASE ~UNCHANGED catVars
    <3>1. LookStep(args.category)
      BY <2>1, <2>3 DEF GetSizeStats, StatsAsked, LookStep
    <3>. QED  BY <2>1, <3>1 DEF RootStep
  <2>. QED  BY <2>2, <2>3
<1>11. CASE PrintFrame
  <2>. DEFINE c == args.category
              index == Head(toRead)
              n == Narrowed(index)
  <2>1. tool = "reading" /\ toRead # <<>> /\ ReadAll(c, index, n)
    BY <1>11 DEF PrintFrame
  <2>2. c \in Categories
    BY <2>1
  <2>3. CASE ReadRoot(c, index, n, {})
    <3>1. toRead \in Seq(Nat)
      BY <2>1, <2>3 DEF ReadRoot
    <3>2. index \in Nat
      BY <2>1, <3>1
    <3>3. Asks(c, n, {})
      BY <3>2, NarrowedFits DEF Asks
    <3>. QED  BY <1>3, <2>2, <2>3, <3>3
  <2>4. CASE ReadSio(c, index, n, <<>>)
    BY <1>4, <2>4
  <2>. QED  BY <2>1, <2>3, <2>4 DEF ReadAll
<1>12. CASE EndLoop \/ CrashInStats
  BY <1>12 DEF EndLoop, CrashInStats, readersVars, RootStep, NoStep
<1>. QED  BY <1>1, <1>6, <1>7, <1>8, <1>9, <1>10, <1>11, <1>12 DEF DumpNext

\* What is in the files and where it is found depends on the files that are open
\* and on the relations that are known.
LEMMA SameFiles ==
  ASSUME UNCHANGED session
  PROVE  /\ Version' = Version
         /\ AvailableCategories' = AvailableCategories
         /\ \A c : StoredClasses(c)' = StoredClasses(c)
         /\ \A t, c : FileBranches(t, c)' = FileBranches(t, c)
<1>1. \A t : FileOf(t)' = FileOf(t)
  BY DEF FileOf
<1>2. Version' = Version /\ AvailableCategories' = AvailableCategories
  BY <1>1 DEF Version, AvailableCategories
<1>3. ASSUME NEW c PROVE StoredClasses(c)' = StoredClasses(c)
  BY <1>1, <1>2 DEF StoredClasses
<1>4. ASSUME NEW t, NEW c PROVE FileBranches(t, c)' = FileBranches(t, c)
  <2>1. FileBranches(t, c) = BranchesOf(FileOf(t).version, FileOf(t).info[c])
    BY DEF FileBranches, BranchesOf
  <2>2. FileBranches(t, c)' = BranchesOf(FileOf(t)'.version, FileOf(t)'.info[c])
    BY DEF FileBranches, BranchesOf
  <2>. QED  BY <1>1, <2>1, <2>2
<1>. QED  BY <1>2, <1>3, <1>4

\* So do the pointers.
LEMMA SamePointers ==
  ASSUME UNCHANGED <<session, relations>>, NEW c, NEW info
  PROVE  LookedUp(c, info)' <=> LookedUp(c, info)
<1>1. ASSUME NEW x PROVE CollectionBranches(x)' = CollectionBranches(x)
  BY SameFiles DEF CollectionBranches, GetRelationNames
<1>2. ASSUME NEW t, NEW x PROVE Pointers(c, t, x)' = Pointers(c, t, x)
  BY <1>1, SameFiles DEF Pointers, GetBranch
<1>3. ASSUME NEW t, NEW x PROVE Dangling(c, t, x)' = Dangling(c, t, x)
  BY <1>1, SameFiles DEF Dangling
<1>. QED  BY <1>2, <1>3, SameFiles DEF LookedUp

\* And what can be read, for the buffers that can be made.
LEMMA SameStored ==
  ASSUME UNCHANGED <<session, relations, creators>>, NEW c
  PROVE  StoredEntries(c)' = StoredEntries(c)
<1>1. ASSUME NEW x PROVE CollectionBranches(x)' = CollectionBranches(x) /\ Creatable(x)' = Creatable(x)
  BY SameFiles DEF CollectionBranches, GetRelationNames, Creatable, CreateBuffers
<1>2. ASSUME NEW t PROVE Readable(t, c)' = Readable(t, c)
  <2>. DEFINE y(x) == Creatable(x) /\ Range(CollectionBranches(x)) \subseteq FileBranches(t, c)
  <2>1. \A x : y(x)' <=> y(x)
    BY <1>1, SameFiles
  <2>. HIDE DEF y
  <2>2. Readable(t, c) = {x.name : x \in {z \in Range(StoredClasses(c)) : y(z)}}
    BY DEF Readable, y
  <2>3. Readable(t, c)' = {x.name : x \in {z \in Range(StoredClasses(c)') : y(z)'}}
    BY DEF Readable, y
  <2>. QED  BY <2>1, <2>2, <2>3, SameFiles
<1>3. ASSUME NEW t PROVE EntriesOfFile(t, c)' = EntriesOfFile(t, c)
  BY <1>2 DEF EntriesOfFile, FileOf
<1>4. StoredEntries(c) = IF session = Closed \/ c \notin AvailableCategories THEN <<>>
                         ELSE FlattenSeq([t \in DOMAIN session.files |-> EntriesOfFile(t, c)])
  BY DEF StoredEntries
<1>5. StoredEntries(c)' = IF session' = Closed \/ c \notin AvailableCategories' THEN <<>>
                          ELSE FlattenSeq([t \in DOMAIN session'.files |-> EntriesOfFile(t, c)'])
  BY DEF StoredEntries
<1>. QED  BY <1>3, <1>4, <1>5, SameFiles

-----------------------------------------------------------------------------

\* What is known of a category.
Info(c) == [stored |-> stored[c], tree |-> tree[c], branches |-> branches[c]]

\* A category of TTrees is as it was made, or it was looked at.
TreesLookedUp ==
  /\ stored = [c \in Categories |-> stored[c]]
  /\ tree = [c \in Categories |-> tree[c]]
  /\ branches = [c \in Categories |-> branches[c]]
  /\ \A c \in Categories : branches[c] # <<>> =>
       c \in AvailableCategories /\ session.format = "ttree" /\ LookedUp(c, Info(c))

\* The readers of RNTuples are those of the files.
TuplesAre(c) ==
  /\ readers[c] = ReaderFiles(session.files, c)
  /\ readerEntries[c] = Front(Accumulated(session.files, c))
  /\ totalEntries[c] = Last(Accumulated(session.files, c))
TuplesOpened ==
  session.format = "rntuple" => \A c \in Categories : c \in AvailableCategories => TuplesAre(c)

\* The inductive invariant of the readers of ROOT files.
ReadInv ==
  /\ SessionInv
  /\ kind = "none" => session = Closed
  /\ kind \in {"root", "source"} => session # Closed
  /\ session = Closed => result = NoResult /\ branches = [c \in Categories |-> <<>>]
                         /\ cursor = [c \in Categories |-> 0]
  /\ cursor \in [Categories -> Nat]
  /\ TreesLookedUp
  /\ TuplesOpened

\* An open session has its files.
LEMMA OpenSession ==
  ASSUME SessionInv, session # Closed
  PROVE  session \in Sessions /\ FilesOpen
  BY SessionFiles DEF SessionInv, FilesOpen, FileOf

\* A list of files is never that of no files.
LEMMA NeverClosed ==
  ASSUME NEW s \in Sessions
  PROVE  s # Closed
  BY FilesType DEF Closed

\* A category that has been looked at, or is looked at now, is in order.
LEMMA InitLooksUp ==
  ASSUME ReadInv, session.format = "ttree", NEW c \in Categories, c \in AvailableCategories
  PROVE  LookedUp(c, InitCategory(c))
<1>1. session # Closed
  BY DEF Closed
<1>2. session \in Sessions /\ FilesOpen
  BY <1>1, OpenSession DEF ReadInv
<1>3. CASE branches[c] = <<>>
  BY <1>2, <1>3, FirstLook DEF InitCategory
<1>4. CASE branches[c] # <<>>
  BY <1>4 DEF InitCategory, ReadInv, TreesLookedUp, Info
<1>. QED  BY <1>3, <1>4

\* To set a category that was looked up keeps the others.
LEMMA SetKeeps ==
  ASSUME TreesLookedUp, session.format = "ttree", NEW c \in Categories, c \in AvailableCategories,
         NEW info, LookedUp(c, info), SetCategory(c, info), UNCHANGED <<session, relations>>
  PROVE  TreesLookedUp'
<1>1. info = [stored |-> info.stored, tree |-> info.tree, branches |-> info.branches]
  BY DEF LookedUp
<1>2. stored' = [d \in Categories |-> IF d = c THEN info.stored ELSE stored[d]]
      /\ tree' = [d \in Categories |-> IF d = c THEN info.tree ELSE tree[d]]
      /\ branches' = [d \in Categories |-> IF d = c THEN info.branches ELSE branches[d]]
  BY DEF SetCategory, TreesLookedUp
<1>3. ASSUME NEW d \in Categories, branches'[d] # <<>>
      PROVE  d \in AvailableCategories' /\ session'.format = "ttree" /\ LookedUp(d, Info(d))'
  <2>1. PICK i : i = Info(d)' /\ i = (IF d = c THEN info ELSE Info(d))
    BY <1>1, <1>2 DEF Info
  <2>2. d \in AvailableCategories /\ LookedUp(d, i)
    <3>1. CASE d = c
      BY <2>1, <3>1
    <3>2. CASE d # c
      BY <1>2, <1>3, <2>1, <3>2 DEF TreesLookedUp
    <3>. QED  BY <3>1, <3>2
  <2>3. LookedUp(d, i)'
    BY <2>2, SamePointers
  <2>4. LookedUp(d, Info(d))'
    BY <2>1, <2>3 DEF LookedUp
  <2>. QED  BY <2>2, <2>4, SameFiles
<1>4. stored' = [d \in Categories |-> stored'[d]] /\ tree' = [d \in Categories |-> tree'[d]]
      /\ branches' = [d \in Categories |-> branches'[d]]
  BY <1>2
<1>. QED  BY <1>3, <1>4 DEF TreesLookedUp

\* Nothing else changes them.
LEMMA LookedUpKept ==
  ASSUME TreesLookedUp, UNCHANGED <<branches, tree, session, relations>>,
         UNCHANGED stored \/ (session.format # "ttree" /\ stored' = [c \in Categories |-> stored'[c]])
  PROVE  TreesLookedUp'
<1>1. ASSUME NEW d \in Categories, branches'[d] # <<>>
      PROVE  d \in AvailableCategories' /\ session'.format = "ttree" /\ LookedUp(d, Info(d))'
  <2>1. d \in AvailableCategories /\ session.format = "ttree" /\ LookedUp(d, Info(d))
    BY <1>1 DEF TreesLookedUp
  <2>2. PICK i : i = Info(d)' /\ i = Info(d)
    BY <2>1 DEF Info
  <2>3. LookedUp(d, i)'
    BY <2>1, <2>2, SamePointers
  <2>4. LookedUp(d, Info(d))'
    BY <2>2, <2>3 DEF LookedUp
  <2>. QED  BY <2>1, <2>4, SameFiles
<1>. QED  BY <1>1 DEF TreesLookedUp

\* It holds at first, when nothing is open.
LEMMA ReadInvInit == ToolInit => ReadInv
<1>. SUFFICES ASSUME ToolInit PROVE ReadInv
  OBVIOUS
<1>1. SessionInv
  BY SessionInit
<1>2. kind = "none" /\ session = Closed /\ result = NoResult /\ branches = [c \in Categories |-> <<>>]
      /\ cursor = [c \in Categories |-> 0] /\ stored = [c \in Categories |-> <<>>] /\ tree = [c \in Categories |-> 0]
  BY DEF ToolInit, MCInit, Init, ReadInit
<1>3. TreesLookedUp
  BY <1>2 DEF TreesLookedUp
<1>4. TuplesOpened
  BY <1>2 DEF TuplesOpened, Closed
<1>. QED  BY <1>1, <1>2, <1>3, <1>4 DEF ReadInv

\* The totals of RNTuples are kept with the files that are open.
LEMMA TuplesKept ==
  ASSUME TuplesOpened, UNCHANGED <<session, tupleVars>>
  PROVE  TuplesOpened'
  BY SameFiles DEF TuplesOpened, TuplesAre, tupleVars

\* A step of another part of the program keeps it.
LEMMA NothingRead ==
  ASSUME ReadInv, SessionInv', NoStep
  PROVE  ReadInv'
<1>1. UNCHANGED <<session, result, cursor, catVars, tupleVars>>
  BY DEF NoStep, readVars
<1>2. TuplesOpened'
  BY <1>1, TuplesKept DEF ReadInv
<1>3. TreesLookedUp'
  <2>1. CASE kind = "none"
    <3>1. session' = Closed /\ \A c \in Categories : branches'[c] = <<>>
      BY <1>1, <2>1 DEF ReadInv, catVars
    <3>. QED  BY <1>1, <3>1 DEF TreesLookedUp, catVars, ReadInv
  <2>2. CASE UNCHANGED regVars
    BY <1>1, <2>2, LookedUpKept DEF ReadInv, regVars, catVars
  <2>. QED  BY <2>1, <2>2 DEF NoStep
<1>4. /\ kind' = "none" => kind = "none"
      /\ kind' \in {"root", "source"} => kind \in {"root", "source"}
  BY DEF NoStep
<1>5. UNCHANGED <<session, result, cursor, branches>>
  BY <1>1 DEF catVars
<1>. QED  BY <1>2, <1>3, <1>4, <1>5 DEF ReadInv

\* To open files finds their readers, and looks at no category.
LEMMA FilesOpened ==
  ASSUME ReadInv, SessionInv', NEW s, OpenStep(s)
  PROVE  ReadInv'
<1>1. s \in Sessions /\ session = Closed /\ session' = s /\ kind' = "root" /\ UNCHANGED <<catVars, cursor, result, regVars>>
  BY DEF OpenStep, OpenFiles
<1>2. session' # Closed
  BY <1>1, NeverClosed
<1>3. UNCHANGED <<branches, cursor, result, stored, tree>> /\ \A c \in Categories : branches'[c] = <<>>
  BY <1>1 DEF catVars, ReadInv
<1>4. TreesLookedUp'
  BY <1>3 DEF TreesLookedUp, ReadInv
<1>5. TuplesOpened'
  <2>. SUFFICES ASSUME session'.format = "rntuple", NEW c \in Categories, c \in AvailableCategories' PROVE TuplesAre(c)'
    BY DEF TuplesOpened
  <2>1. c \in DOMAIN Files[s.files[1]].info
    BY <1>1 DEF AvailableCategories, FileOf
  <2>. DEFINE A == Accumulated(s.files, c)
  <2>2. readers'[c] = ReaderFiles(s.files, c) /\ totalEntries'[c] = Last(A) /\ readerEntries'[c] = Front(A)
    <3>. HIDE DEF A
    <3>1. s.format = "rntuple"
      BY <1>1
    <3>. QED  BY <2>1, <3>1 DEF OpenStep, OpenFiles, A
  <2>. QED  BY <1>1, <2>2 DEF TuplesAre
<1>. QED  BY <1>1, <1>2, <1>3, <1>4, <1>5 DEF ReadInv

\* The tool looks at a category.
LEMMA CategoryLooked ==
  ASSUME ReadInv, SessionInv', NEW c \in Categories, LookStep(c)
  PROVE  ReadInv'
<1>1. UNCHANGED <<regVars, session, tupleVars, cursor, result, kind>> /\ session.format = "ttree" /\ c \in AvailableCategories
      /\ SetCategory(c, InitCategory(c)) /\ kind = "root"
  BY DEF LookStep
<1>2. LookedUp(c, InitCategory(c))
  BY <1>1, InitLooksUp
<1>3. TreesLookedUp'
  <2>. DEFINE i == InitCategory(c)
  <2>. HIDE DEF i
  <2>1. LookedUp(c, i) /\ SetCategory(c, i)
    BY <1>1, <1>2 DEF i
  <2>2. PICK j : j = i
    OBVIOUS
  <2>. QED  BY <1>1, <2>1, <2>2, SetKeeps DEF regVars, ReadInv
<1>4. TuplesOpened'
  BY <1>1, TuplesKept DEF ReadInv
<1>5. session' # Closed
  BY <1>1 DEF ReadInv
<1>. QED  BY <1>1, <1>3, <1>4, <1>5 DEF ReadInv

\* An entry that there is is in a tree.
LEMMA TreeThere ==
  ASSUME ReadInv, session.format = "ttree", NEW c \in AvailableCategories, NEW n \in Nat, n < GetEntries(c)
  PROVE  TreeOf(c, n) \in DOMAIN session.files
<1>1. session # Closed
  BY DEF Closed
<1>2. session \in Sessions /\ FilesOpen
  BY <1>1, OpenSession DEF ReadInv
<1>3. PICK g : StoredIs(c, g)
  BY <1>1, <1>2, StoredSomewhere
<1>. QED  BY <1>1, <1>2, <1>3, TreeAt

\* A read sets the cursor to a number, and keeps the categories in order.
LEMMA EntryRead ==
  ASSUME ReadInv, SessionInv', NEW c \in Categories, NEW n \in Nat, NEW request, ReadStep(c, n, request)
  PROVE  ReadInv'
<1>1. UNCHANGED <<session, kind, regVars, tupleVars>> /\ kind = "root" /\ session # Closed /\ Reads(c, n, request)
  BY DEF ReadStep, Reads, ReadTree, ReadTuple, ReadInv
<1>2. UNCHANGED relations
  BY <1>1 DEF regVars
<1>3. session \in Sessions /\ FilesOpen
  BY <1>1, OpenSession DEF ReadInv
<1>4. TuplesOpened'
  BY <1>1, TuplesKept DEF ReadInv
<1>5. TreesLookedUp' /\ cursor' \in [Categories -> Nat]
  <2>1. CASE ReadTree(c, n, request)
    <3>1. session.format = "ttree"
      BY <2>1 DEF ReadTree
    <3>2. CASE c \notin AvailableCategories /\ UNCHANGED <<catVars, cursor>>
      BY <1>1, <1>2, <3>2, LookedUpKept DEF catVars, ReadInv
    <3>3. ASSUME NEW i, LookedUp(c, i), SetCategory(c, i), c \in AvailableCategories PROVE TreesLookedUp'
      BY <1>1, <1>2, <3>1, <3>3, SetKeeps DEF ReadInv
    <3>4. CASE c \in AvailableCategories /\ SetCategory(c, InitCategory(c)) /\ cursor' = [cursor EXCEPT ![c] = n]
      <4>1. PICK i : i = InitCategory(c)
        OBVIOUS
      <4>2. LookedUp(c, i) /\ SetCategory(c, i)
        BY <3>1, <3>4, <4>1, InitLooksUp
      <4>. QED  BY <3>3, <3>4, <4>2 DEF ReadInv
    <3>5. CASE /\ c \in AvailableCategories /\ n < GetEntries(c)
               /\ SetCategory(c, LoadBranches(c, InitCategory(c), n, request))
               /\ cursor' = [cursor EXCEPT ![c] = n + 1]
      <4>1. PICK j : j = InitCategory(c)
        OBVIOUS
      <4>2. LookedUp(c, j)
        BY <3>1, <3>5, <4>1, InitLooksUp
      <4>3. PICK t : t = TreeOf(c, n)
        OBVIOUS
      <4>4. t \in DOMAIN session.files
        BY <3>1, <3>5, <4>3, TreeThere
      <4>5. LookedUp(c, LoadBranches(c, j, n, request))
        BY <1>3, <3>1, <3>5, <4>2, <4>3, <4>4, LoadsTree
      <4>6. PICK i : i = LoadBranches(c, j, n, request)
        OBVIOUS
      <4>7. LookedUp(c, i) /\ SetCategory(c, i)
        BY <3>5, <4>1, <4>5, <4>6
      <4>. QED  BY <3>3, <3>5, <4>7 DEF ReadInv
    <3>. QED  BY <2>1, <3>2, <3>4, <3>5 DEF ReadTree
  <2>2. CASE ReadTuple(c, n, request)
    <3>1. session.format # "ttree" /\ UNCHANGED <<branches, tree>>
      BY <2>2 DEF ReadTuple
    <3>2. UNCHANGED stored \/ stored' = [stored EXCEPT ![c] = StoredClasses(c)]
      BY <2>2 DEF ReadTuple
    <3>3. stored' = [d \in Categories |-> stored'[d]]
      BY <3>2 DEF ReadInv, TreesLookedUp
    <3>4. cursor' = cursor \/ cursor' = [cursor EXCEPT ![c] = n + 1]
      BY <2>2 DEF ReadTuple
    <3>. QED  BY <1>1, <1>2, <3>1, <3>3, <3>4, LookedUpKept DEF ReadInv
  <2>. QED  BY <1>1, <2>1, <2>2 DEF Reads
<1>. QED  BY <1>1, <1>4, <1>5 DEF ReadInv

\* The inductive invariant of the tool, as long as it uses its reader.
ToolInv ==
  /\ tool = "none" \/ args \in Arguments
  /\ tool \in {"parsed", "opened"} => args.entries.form # "other"
  /\ tool = "parsed" => kind = "none"
  /\ tool \in {"opened", "reading"} => kind \in {"root", "sio"}
  /\ tool = "reading" /\ kind = "root" => toRead \in Seq(Nat)

\* Numbers that go up by one.
LEMMA Upwards ==
  ASSUME NEW first \in Nat, NEW k \in Nat
  PROVE  [i \in 1 .. k |-> first + i - 1] \in Seq(Nat)
<1>1. \A i \in 1 .. k : first + i - 1 \in Nat
  OBVIOUS
<1>. QED  BY <1>1

\* The numbers of the command line are natural numbers.
LEMMA ArgumentNumbers ==
  ASSUME NEW s \in Seq(0 .. SizeRange - 1)
  PROVE  s \in Seq(Nat) /\ Len(s) \in Nat /\ \A i \in 1 .. Len(s) : s[i] \in Nat /\ s[i] < SizeRange
<1>1. SizeRange \in Nat
  BY ArgumentsAssumption
<1>. DEFINE S == 0 .. SizeRange - 1
<1>2. Len(s) \in Nat /\ s = [i \in 1 .. Len(s) |-> s[i]] /\ \A i \in 1 .. Len(s) : s[i] \in S
  <2>. HIDE DEF S
  <2>1. s \in Seq(S)
    BY DEF S
  <2>. QED  BY <2>1
<1>3. \A x \in 0 .. SizeRange - 1 : x \in Nat /\ x < SizeRange
  BY <1>1
<1>4. s \in [1 .. Len(s) -> Nat]
  BY <1>2, <1>3
<1>. QED  BY <1>2, <1>3, <1>4

\* What the arguments ask for are natural numbers.
LEMMA ArgumentsListed ==
  ASSUME NEW a \in Arguments, a.entries.form # "other", Entries(a.category) \in Nat
  PROVE  FullEntryList(ParseEventRange(a.entries), a.category) \in Seq(Nat)
<1>. DEFINE numbers == a.entries.numbers
            form == a.entries.form
            events == ParseEventRange(a.entries)
            k == Entries(a.category)
<1>1. numbers \in Seq(0 .. SizeRange - 1) /\ SizeRange \in Nat \ {0} /\ form \in {"all", "list", "range"}
      /\ (form = "range" => Len(numbers) = 2)
  BY ArgumentsAssumption
<1>2. FullEntryList(events, a.category) = IF events = <<Tombstone>> THEN [i \in 1 .. k |-> i - 1] ELSE events
  BY DEF FullEntryList
<1>. HIDE DEF k
<1>3. [i \in 1 .. k |-> i - 1] \in Seq(Nat)
  <2>1. k \in Nat
    BY DEF k
  <2>2. \A i \in 1 .. k : i - 1 \in Nat
    BY <2>1
  <2>. QED  BY <2>1, <2>2
<1>4. CASE form = "all"
  BY <1>2, <1>3, <1>4 DEF ParseEventRange
<1>5. CASE form = "list"
  <2>1. events = numbers
    BY <1>5 DEF ParseEventRange
  <2>. HIDE DEF events, numbers
  <2>. QED  BY <1>1, <1>2, <1>3, <2>1, ArgumentNumbers DEF events
<1>6. CASE form = "range"
  <2>1. numbers[1] \in Nat /\ numbers[2] \in Nat /\ numbers[1] < SizeRange
    <3>1. Len(numbers) = 2 /\ 1 \in 1 .. 2 /\ 2 \in 1 .. 2
      BY <1>1, <1>6
    <3>2. \A i \in 1 .. Len(numbers) : numbers[i] \in Nat /\ numbers[i] < SizeRange
      BY <1>1, ArgumentNumbers
    <3>. HIDE DEF numbers
    <3>. QED  BY <3>1, <3>2
  <2>. DEFINE r == RangeLength(numbers[1], numbers[2])
              first == numbers[1]
  <2>2. r \in Nat
    <3>1. numbers[2] + SizeRange - numbers[1] + 1 \in Nat /\ SizeRange \in Nat \ {0}
      <4>. HIDE DEF numbers
      <4>. QED  BY <1>1, <2>1
    <3>2. \A x \in Nat, y \in Nat \ {0} : x % y \in Nat
      OBVIOUS
    <3>. QED  BY <3>1, <3>2 DEF RangeLength
  <2>3. events = [i \in 1 .. r |-> first + i - 1]
    BY <1>6 DEF ParseEventRange
  <2>. HIDE DEF r, first, events
  <2>4. first \in Nat
    BY <2>1 DEF first
  <2>. QED  BY <1>2, <1>3, <2>2, <2>3, <2>4, Upwards DEF events
<1>. QED  BY <1>1, <1>4, <1>5, <1>6

\* At first the tool has no arguments.
LEMMA ToolInvInit == ToolInit => ToolInv
  BY DEF ToolInit, ToolInv

\* The numbers that a reader is asked for are natural numbers.
LEMMA NumbersAsked ==
  ASSUME ReadInv, NEW c \in Categories, NEW n, NEW request, ReadStep(c, n, request)
  PROVE  n \in Nat /\ (n \in 0 .. EntryRange - 1 \/ n = cursor[c]) /\ request \in session.requests
<1>1. kind = "root" /\ Asks(c, n, request) /\ session # Closed
  BY DEF ReadStep, ReadInv
<1>2. n \in 0 .. EntryRange - 1 \/ n = cursor[c]
  BY <1>1 DEF Asks
<1>3. n \in Nat
  <2>1. \A x \in 0 .. EntryRange - 1 : x \in Nat
    BY EntryRangeAssumption
  <2>. QED  BY <1>2, <2>1 DEF ReadInv
<1>4. request \in session.requests
  BY <1>1, RequestsAssumption, OpenSession DEF Asks, ReadInv
<1>. QED  BY <1>2, <1>3, <1>4

\* Every step of the tool, and of an application that reads, keeps it.
LEMMA ToolPreserved ==
  ASSUME ReadInv, ToolInv, [DumpNext]_<<readersVars, toolVars>>
  PROVE  ToolInv'
<1>. USE DEF rootVars, facadeVars, readVars
<1>1. CASE UNCHANGED <<readersVars, toolVars>>
  <2>1. UNCHANGED <<tool, args, kind, toRead>>
    BY <1>1 DEF readersVars, toolVars
  <2>. QED  BY <2>1 DEF ToolInv
<1>2. CASE tool = "none" /\ ReadersNext /\ UNCHANGED toolVars
  BY <1>2 DEF toolVars, ToolInv
<1>3. CASE \E arguments \in Arguments : ParseArgs(arguments)
  <2>1. PICK arguments \in Arguments : ParseArgs(arguments)
    BY <1>3
  <2>2. UNCHANGED kind /\ kind = "none" /\ args' = arguments /\ tool' \in {"failed", "aborted", "parsed"}
        /\ (tool' = "parsed" => CanParse(arguments.entries))
    BY <2>1 DEF ParseArgs, readersVars
  <2>. QED  BY <2>2 DEF ToolInv, CanParse
<1>4. CASE OpenReader
  <2>1. PICK l \in Lists : MakeReader(l)
    BY <1>4 DEF OpenReader
  <2>2. tool = "parsed" /\ tool' = (IF kind' = "refused" THEN "aborted" ELSE "opened") /\ UNCHANGED args
    BY <1>4 DEF OpenReader
  <2>3. kind' \in {"root", "sio", "refused"}
    BY <2>1 DEF MakeReader
  <2>. QED  BY <2>2, <2>3 DEF ToolInv
<1>5. CASE DumpEDMDefinition
  BY <1>5 DEF DumpEDMDefinition, readersVars, ToolInv
<1>6. CASE ListEntries
  <2>1. tool = "opened" /\ tool' = "reading" /\ UNCHANGED <<kind, args>>
        /\ toRead' = FullEntryList(ParseEventRange(args.entries), args.category)
    BY <1>6 DEF ListEntries
  <2>2. args \in Arguments /\ args.entries.form # "other" /\ args.category \in Categories
    BY <2>1, ArgumentsAssumption DEF ToolInv
  <2>3. ASSUME kind = "root" PROVE toRead' \in Seq(Nat)
    <3>1. Entries(args.category) \in Nat
      BY <2>2, <2>3, CountedAreStored DEF Entries, ReadInv
    <3>. QED  BY <2>1, <2>2, <3>1, ArgumentsListed
  <2>4. PICK e : e = toRead'
    OBVIOUS
  <2>. QED  BY <2>1, <2>2, <2>3, <2>4 DEF ToolInv
<1>7. CASE PrintFrame
  <2>1. tool = "reading" /\ toRead # <<>> /\ UNCHANGED <<args, kind>>
    BY <1>7 DEF PrintFrame, ReadAll, ReadRoot, ReadSio
  <2>2. tool' \in {"aborted", "failed", "reading"} /\ toRead' \in {toRead, Tail(toRead)}
    BY <1>7 DEF PrintFrame
  <2>3. toRead \in Seq(Nat) => Tail(toRead) \in Seq(Nat)
    BY <2>1
  <2>. QED  BY <2>1, <2>2, <2>3 DEF ToolInv
<1>8. CASE EndLoop \/ CrashInStats
  BY <1>8 DEF EndLoop, CrashInStats, readersVars, ToolInv
<1>. QED  BY <1>1, <1>2, <1>3, <1>4, <1>5, <1>6, <1>7, <1>8 DEF DumpNext

\* Every step keeps the invariant of the readers, and is one of the steps above to them.
LEMMA ReadPreserved ==
  ASSUME ReadInv, ToolInv, [DumpNext]_<<readersVars, toolVars>>
  PROVE  ReadInv' /\ RootStep
<1>1. SessionInv'
  BY SessionPreserved DEF ReadInv
<1>2. /\ tool \in {"opened", "reading"} => args.category \in Categories
      /\ tool = "reading" /\ kind = "root" => toRead \in Seq(Nat)
  BY ArgumentsAssumption DEF ToolInv
<1>3. RootStep
  BY <1>2, RootSteps
<1>4. CASE NoStep
  BY <1>1, <1>3, <1>4, NothingRead
<1>5. ASSUME NEW s, OpenStep(s) PROVE ReadInv'
  BY <1>1, <1>5, FilesOpened
<1>6. ASSUME NEW c \in Categories, NEW n, NEW request, ReadStep(c, n, request) PROVE ReadInv'
  <2>1. n \in Nat
    BY <1>6, NumbersAsked
  <2>. QED  BY <1>1, <1>6, <2>1, EntryRead
<1>7. CASE tool = "opened" /\ LookStep(args.category)
  <2>1. PICK c \in Categories : c = args.category
    BY <1>2, <1>7
  <2>2. LookStep(c)
    BY <1>7, <2>1
  <2>. QED  BY <1>1, <1>3, <2>2, CategoryLooked
<1>. QED  BY <1>3, <1>4, <1>5, <1>6, <1>7 DEF RootStep

\* The entries of all categories, which the abstract reader has.
AllStored == [c \in Categories |-> StoredEntries(c)]

\* A frame of an entry that there is, as the abstract reader gives it.
FrameOf(c, n, request) ==
  [status |-> "frame", sources |-> {StoredEntries(c)[n + 1].at},
   colls |-> Abstract!Selected(request, StoredEntries(c)[n + 1].colls)]

\* A frame of a chain is that of the stored entry, if no deleted branch is read.
LEMMA TreeFrameStored ==
  ASSUME ReadInv, session.format = "ttree", NEW c \in AvailableCategories, c \in Categories,
         NEW n \in Nat, n < GetEntries(c), NEW request,
         NEW info, info = LoadBranches(c, InitCategory(c), n, request),
         \A s \in TreeFrame(c, info, n, request).sources : s[1] # Stale
  PROVE  TreeFrame(c, info, n, request) = FrameOf(c, n, request)
<1>1. session # Closed
  BY DEF Closed
<1>2. session \in Sessions /\ FilesOpen
  BY <1>1, OpenSession DEF ReadInv
<1>3. PICK j : j = InitCategory(c) /\ LookedUp(c, j)
  BY InitLooksUp
<1>4. PICK t : t = TreeOf(c, n)
  OBVIOUS
<1>5. t \in DOMAIN session.files
  BY <1>4, TreeThere
<1>6. LookedUp(c, info) /\ info.tree = t
  <2>1. LookedUp(c, LoadBranches(c, j, n, request)) /\ LoadBranches(c, j, n, request).tree = t
    BY <1>2, <1>3, <1>4, <1>5, LoadsTree
  <2>. QED  BY <1>3, <2>1
<1>7. TreeFrame(c, info, n, request) =
        [status |-> "frame", sources |-> { <<t, n - Offset(c, t)>> },
         colls |-> Abstract!Selected(request, Readable(t, c))]
  BY <1>2, <1>6, TreeFrameIs
<1>8. PICK g : StoredIs(c, g)
  BY <1>1, <1>2, StoredSomewhere
<1>9. StoredEntries(c)[n + 1] = [at |-> <<t, n - Offset(c, t)>>, colls |-> Readable(t, c)]
  BY <1>1, <1>2, <1>4, <1>8, TreeAt
<1>10. StoredEntries(c)[n + 1].at = <<t, n - Offset(c, t)>> /\ StoredEntries(c)[n + 1].colls = Readable(t, c)
  BY <1>9
<1>. QED  BY <1>7, <1>10 DEF FrameOf

\* A frame of RNTuples is that of the stored entry.
LEMMA TupleFrameStored ==
  ASSUME ReadInv, session.format = "rntuple", NEW c \in AvailableCategories, c \in Categories,
         NEW n \in Nat, n < totalEntries[c], NEW request
  PROVE  TupleFrame(c, StoredClasses(c), n, request) = FrameOf(c, n, request)
<1>1. session # Closed
  BY DEF Closed
<1>2. session \in Sessions /\ FilesOpen
  BY <1>1, OpenSession DEF ReadInv
<1>3. PICK g : StoredIs(c, g)
  BY <1>1, <1>2, StoredSomewhere
<1>4. TuplesAre(c)
  BY DEF ReadInv, TuplesOpened
<1>5. PICK k, t : k = ReaderIndex(c, n) /\ t = readers[c][k]
  OBVIOUS
<1>6. StoredEntries(c)[n + 1] = [at |-> <<t, n - readerEntries[c][k]>>, colls |-> Readable(t, c)]
  <2>1. readers[c] = ReaderFiles(session.files, c) /\ readerEntries[c] = Front(Accumulated(session.files, c))
        /\ n < Last(Accumulated(session.files, c))
    BY <1>4 DEF TuplesAre
  <2>. QED  BY <1>2, <1>3, <1>5, <2>1, TupleAt
<1>7. TupleFrame(c, StoredClasses(c), n, request) =
        [status |-> "frame", sources |-> { <<t, n - readerEntries[c][k]>> },
         colls |-> Abstract!Selected(request, Readable(t, c))]
  BY <1>2, <1>5, TupleFrameIs
<1>8. StoredEntries(c)[n + 1].at = <<t, n - readerEntries[c][k]>> /\ StoredEntries(c)[n + 1].colls = Readable(t, c)
  BY <1>6
<1>. QED  BY <1>7, <1>8 DEF FrameOf

\* What a call gives and where it leaves the reader, as the abstract reader has it.
Gives(c, n, request, m) ==
  \/ n < m /\ result' = FrameOf(c, n, request) /\ cursor' = [cursor EXCEPT ![c] = n + 1]
  \/ n >= m /\ result' = Null /\ cursor' \in {cursor, [cursor EXCEPT ![c] = n]}
  \/ n < m /\ request # {} /\ result' = Thrown /\ cursor' \in {cursor, [cursor EXCEPT ![c] = n]}

\* Every call gives and leaves what the abstract reader has, if no deleted branch is read.
LEMMA ReadGives ==
  ASSUME ReadInv, NEW c \in Categories, NEW n \in Nat, NEW request, ReadStep(c, n, request), NoStaleBranchRead'
  PROVE  Gives(c, n, request, Len(StoredEntries(c)))
<1>1. session # Closed /\ Reads(c, n, request)
  BY DEF ReadStep, ReadInv
<1>2. GetEntries(c) = Len(StoredEntries(c)) /\ GetEntries(c) \in Nat
  BY CountedAreStored DEF ReadInv, EntriesCounted
<1>3. \A classes : Missing(request, classes) => request # {}
  BY DEF Missing
<1>4. CASE c \notin AvailableCategories
  <2>1. Len(StoredEntries(c)) = 0
    BY <1>4 DEF StoredEntries
  <2>2. result' = Null /\ UNCHANGED cursor
    BY <1>1, <1>4 DEF Reads, ReadTree, ReadTuple
  <2>. QED  BY <2>1, <2>2 DEF Gives
<1>5. CASE c \in AvailableCategories /\ ReadTree(c, n, request)
  <2>1. session.format = "ttree"
    BY <1>5 DEF ReadTree
  <2>2. CASE n >= GetEntries(c) /\ result' = Null /\ cursor' = [cursor EXCEPT ![c] = n]
    BY <1>2, <2>2 DEF Gives
  <2>3. CASE n < GetEntries(c) /\ Missing(request, InitCategory(c).stored) /\ result' = Thrown
             /\ cursor' = [cursor EXCEPT ![c] = n]
    BY <1>2, <1>3, <2>3 DEF Gives
  <2>4. CASE n < GetEntries(c) /\ result' = TreeFrame(c, LoadBranches(c, InitCategory(c), n, request), n, request)
             /\ cursor' = [cursor EXCEPT ![c] = n + 1]
    <3>1. PICK info : info = LoadBranches(c, InitCategory(c), n, request)
      OBVIOUS
    <3>2. \A s \in TreeFrame(c, info, n, request).sources : s[1] # Stale
      BY <2>4, <3>1 DEF NoStaleBranchRead
    <3>3. TreeFrame(c, info, n, request) = FrameOf(c, n, request)
      BY <1>5, <2>1, <2>4, <3>1, <3>2, TreeFrameStored
    <3>. QED  BY <1>2, <2>4, <3>1, <3>3 DEF Gives
  <2>. QED  BY <1>5, <2>2, <2>3, <2>4 DEF ReadTree
<1>6. CASE c \in AvailableCategories /\ ReadTuple(c, n, request)
  <2>1. session.format = "rntuple" /\ stored' = [stored EXCEPT ![c] = StoredClasses(c)]
    BY <1>6 DEF ReadTuple
  <2>2. totalEntries[c] = GetEntries(c)
    BY <1>1, <1>6, <2>1 DEF GetEntries
  <2>3. stored'[c] = StoredClasses(c)
    BY <2>1 DEF ReadInv, TreesLookedUp
  <2>4. CASE n >= totalEntries[c] /\ result' = Null /\ UNCHANGED cursor
    BY <1>2, <2>2, <2>4 DEF Gives
  <2>5. CASE n < totalEntries[c] /\ Missing(request, stored'[c]) /\ result' = Thrown /\ UNCHANGED cursor
    BY <1>2, <1>3, <2>2, <2>5 DEF Gives
  <2>6. CASE n < totalEntries[c] /\ cursor' = [cursor EXCEPT ![c] = n + 1] /\ result' = TupleFrame(c, stored'[c], n, request)
    <3>1. TupleFrame(c, StoredClasses(c), n, request) = FrameOf(c, n, request)
      BY <1>6, <2>1, <2>6, TupleFrameStored
    <3>. QED  BY <1>2, <2>2, <2>3, <2>6, <3>1 DEF Gives
  <2>. QED  BY <1>6, <2>4, <2>5, <2>6 DEF ReadTuple
<1>. QED  BY <1>1, <1>4, <1>5, <1>6 DEF Reads

\* The names of all collections of the files.
AllNamed ==
  UNION {{x.name : x \in Range(Files[p[1]].info[p[2]])} :
           p \in {q \in (DOMAIN Files) \X Categories : q[2] \in DOMAIN Files[q[1]].info}}
Stores == [at : Seq(Nat), colls : SUBSET AllNamed]

\* What is stored has the names that are in the files.
LEMMA ClassesNamed ==
  ASSUME session \in Sessions, NEW c \in Categories, c \in AvailableCategories
  PROVE  \A y \in Range(StoredClasses(c)) : y.name \in AllNamed
<1>. DEFINE f == session.files[1]
            colls == Files[f].info[c]
<1>1. f \in DOMAIN Files /\ c \in DOMAIN Files[f].info
  BY FilesType DEF AvailableCategories, FileOf
<1>2. \A x \in Range(colls) : x = [name |-> x.name, type |-> x.type, schema |-> x.schema,
                                  subset |-> x.subset, parts |-> x.parts]
  BY <1>1, FilesType
<1>3. {x.name : x \in Range(colls)} \subseteq AllNamed
  <2>1. <<f, c>> \in {q \in (DOMAIN Files) \X Categories : q[2] \in DOMAIN Files[q[1]].info}
    BY <1>1
  <2>2. {x.name : x \in Range(Files[<<f, c>>[1]].info[<<f, c>>[2]])} \subseteq AllNamed
    BY <2>1 DEF AllNamed
  <2>. QED  BY <2>2
<1>4. FileOf(1).info[c] = colls
  BY DEF FileOf
<1>. HIDE DEF colls
<1>5. ASSUME NEW y \in Range(StoredClasses(c)) PROVE \E x \in Range(colls) : y.name = x.name
  <2>1. PICK i \in DOMAIN colls : y = [colls[i] EXCEPT !.schema = SchemaVersion(Version, colls[i])]
    BY <1>4 DEF StoredClasses, Range
  <2>2. PICK x : x = colls[i]
    OBVIOUS
  <2>3. x \in Range(colls)
    BY <2>2 DEF Range
  <2>4. PICK v : v = SchemaVersion(Version, colls[i])
    OBVIOUS
  <2>5. y = [x EXCEPT !.schema = v]
    BY <2>1, <2>2, <2>4
  <2>6. x = [name |-> x.name, type |-> x.type, schema |-> x.schema, subset |-> x.subset, parts |-> x.parts]
    BY <1>2, <2>3
  <2>7. y.name = x.name
    BY <2>5, <2>6
  <2>. QED  BY <2>3, <2>7
<1>. QED  BY <1>3, <1>5

\* And so has what can be read.
LEMMA ReadableNamed ==
  ASSUME session \in Sessions, NEW c \in Categories, c \in AvailableCategories, NEW t
  PROVE  Readable(t, c) \subseteq AllNamed
<1>1. \A z \in Readable(t, c) : \E y \in Range(StoredClasses(c)) : z = y.name
  BY DEF Readable
<1>. QED  BY <1>1, ClassesNamed

\* The entries of all categories are places in the files with such names.
LEMMA StoredType ==
  ASSUME session # Closed, session \in Sessions, FilesOpen
  PROVE  AllStored \in [Categories -> Seq(Stores)]
<1>. SUFFICES ASSUME NEW c \in Categories PROVE StoredEntries(c) \in Seq(Stores)
  BY DEF AllStored
<1>1. CASE c \notin AvailableCategories
  <2>1. StoredEntries(c) = <<>>
    BY <1>1 DEF StoredEntries
  <2>. QED  BY <2>1
<1>2. CASE c \in AvailableCategories
  <2>1. ASSUME NEW t \in 1 .. Len(session.files) PROVE EntriesOfFile(t, c) \in Seq(Stores)
    <3>. DEFINE E(l) == [at |-> <<t, l - 1>>, colls |-> Readable(t, c)]
    <3>1. PICK k \in Nat : EntriesOfFile(t, c) = [l \in 1 .. k |-> E(l)]
      BY FileEntries
    <3>2. ASSUME NEW l \in 1 .. k PROVE E(l) \in Stores
      <4>1. t \in Nat /\ l - 1 \in Nat
        BY DEF FilesOpen
      <4>2. <<t, l - 1>> \in Seq(Nat)
        BY <4>1
      <4>3. Readable(t, c) \subseteq AllNamed
        BY <1>2, ReadableNamed
      <4>. QED  BY <4>2, <4>3 DEF Stores
    <3>. HIDE DEF E
    <3>. QED  BY <3>1, <3>2
  <2>. QED  BY <1>2, <2>1, StoredAt
<1>. QED  BY <1>1, <1>2

\* At first nothing is stored for a reader.
LEMMA ClosedEmpty ==
  ASSUME session = Closed
  PROVE  AllStored = [c \in Categories |-> <<>>]
  BY DEF AllStored, StoredEntries

\* The first state is one of the abstract reader.
LEMMA AbstractInit == ToolInit => Abstract!Init
<1>. SUFFICES ASSUME ToolInit PROVE Abstract!Init
  OBVIOUS
<1>1. session = Closed /\ cursor = [c \in Categories |-> 0] /\ result = NoResult
  BY DEF ToolInit, MCInit, Init, ReadInit
<1>2. AllStored = [c \in Categories |-> <<>>]
  BY <1>1, ClosedEmpty
<1>. QED  BY <1>1, <1>2 DEF Abstract!Init, Abstract!NoResult, NoResult, AllStored

\* To open files opens the abstract reader.
LEMMA AbstractOpen ==
  ASSUME ReadInv, NEW s, OpenStep(s)
  PROVE  Abstract!Open
<1>1. s \in Sessions /\ session = Closed /\ session' = s /\ UNCHANGED <<cursor, result>>
  BY DEF OpenStep, OpenFiles
<1>2. AllStored = [c \in Categories |-> <<>>] /\ result = NoResult
  BY <1>1, ClosedEmpty DEF ReadInv
<1>3. AllStored' \in [Categories -> Seq(Stores)]
  <2>1. (session # Closed)'
    BY <1>1, NeverClosed DEF Closed
  <2>2. (session \in Sessions)'
    BY <1>1
  <2>3. FilesOpen'
    BY <1>1, SessionFiles DEF FilesOpen, FileOf
  <2>4. (AllStored \in [Categories -> Seq(Stores)])'
    BY <2>1, <2>2, <2>3, StoredType, PTL
  <2>. QED  BY <2>4
<1>. QED  BY <1>1, <1>2, <1>3 DEF Abstract!Open, Abstract!NoResult, NoResult, AllStored, Stores, AllNamed

\* To read an entry reads it from the abstract reader.
LEMMA AbstractRead ==
  ASSUME ReadInv, ToolInv, NEW c \in Categories, NEW n, NEW request, ReadStep(c, n, request), NoStaleBranchRead'
  PROVE  (Abstract!ReadNextEntry \/ Abstract!ReadEntry) /\ AllStored' = AllStored
<1>1. n \in Nat /\ (n \in 0 .. EntryRange - 1 \/ n = cursor[c]) /\ request \in session.requests
  BY NumbersAsked
<1>2. Gives(c, n, request, Len(StoredEntries(c)))
  BY <1>1, ReadGives
<1>3. UNCHANGED <<session, regVars>> /\ session \in Sessions
  BY OpenSession DEF ReadStep, Reads, ReadTree, ReadTuple, ReadInv
<1>4. AllStored' = AllStored
  BY <1>3, SameStored DEF AllStored, regVars
<1>5. AllStored[c] = StoredEntries(c)
  BY DEF AllStored
<1>6. n < Len(StoredEntries(c)) => Abstract!FrameOf(StoredEntries(c)[n + 1], request) = FrameOf(c, n, request)
  BY DEF Abstract!FrameOf, FrameOf
<1>7. Abstract!Null = Null /\ Abstract!Thrown = Thrown
  BY DEF Abstract!Null, Null, Abstract!Thrown, Thrown, Abstract!NoResult, NoResult
<1>8. request \in UNION {s.requests : s \in Sessions}
  BY <1>1, <1>3
<1>9. Abstract!Read(c, n)
  <2>. DEFINE R == UNION {s.requests : s \in Sessions}
              m == Len(StoredEntries(c))
              e == StoredEntries(c)[n + 1]
  <2>1. CASE n < m /\ result' = FrameOf(c, n, request) /\ cursor' = [cursor EXCEPT ![c] = n + 1]
    <3>1. \E r \in R : result' = Abstract!FrameOf(e, r)
      BY <1>6, <1>8, <2>1
    <3>. QED  BY <1>5, <2>1, <3>1 DEF Abstract!Read, AllStored
  <2>2. CASE n >= m /\ result' = Null /\ cursor' \in {cursor, [cursor EXCEPT ![c] = n]}
    BY <1>5, <1>7, <2>2 DEF Abstract!Read, AllStored
  <2>3. CASE n < m /\ request # {} /\ result' = Thrown /\ cursor' \in {cursor, [cursor EXCEPT ![c] = n]}
    <3>1. \E r \in R : r # {}
      BY <1>8, <2>3
    <3>. QED  BY <1>5, <1>7, <2>3, <3>1 DEF Abstract!Read, AllStored
  <2>. QED  BY <1>2, <2>1, <2>2, <2>3 DEF Gives
<1>. QED  BY <1>1, <1>4, <1>9 DEF Abstract!ReadNextEntry, Abstract!ReadEntry

\* Every step is one of the abstract reader, or changes nothing of it.
LEMMA AbstractStep ==
  ASSUME ReadInv, ToolInv, [DumpNext]_<<readersVars, toolVars>>, NoStaleBranchRead'
  PROVE  [Abstract!Next]_Abstract!vars
<1>1. RootStep
  BY ReadPreserved
<1>2. ASSUME AllStored' = AllStored, UNCHANGED <<cursor, result>> PROVE UNCHANGED Abstract!vars
  BY <1>2 DEF Abstract!vars, AllStored
<1>3. CASE NoStep
  <2>1. UNCHANGED <<session, cursor, result>>
    BY <1>3 DEF NoStep, readVars
  <2>2. AllStored' = AllStored
    <3>1. CASE kind = "none"
      <4>1. session = Closed /\ session' = Closed
        BY <2>1, <3>1 DEF ReadInv
      <4>. QED  BY <4>1 DEF AllStored, StoredEntries
    <3>2. CASE UNCHANGED regVars
      BY <2>1, <3>2, SameStored DEF AllStored, regVars
    <3>. QED  BY <1>3, <3>1, <3>2 DEF NoStep
  <2>. QED  BY <1>2, <2>1, <2>2
<1>4. ASSUME NEW s, OpenStep(s) PROVE Abstract!Next
  BY <1>4, AbstractOpen DEF Abstract!Next
<1>5. ASSUME NEW c \in Categories, NEW n, NEW request, ReadStep(c, n, request) PROVE Abstract!Next
  <2>1. (Abstract!ReadNextEntry \/ Abstract!ReadEntry) /\ AllStored' = AllStored
    BY <1>5, AbstractRead
  <2>. QED  BY <2>1 DEF Abstract!Next, AllStored
<1>6. CASE LookStep(args.category)
  <2>1. UNCHANGED <<session, cursor, result, regVars>>
    BY <1>6 DEF LookStep
  <2>2. AllStored' = AllStored
    BY <2>1, SameStored DEF AllStored, regVars
  <2>. QED  BY <1>2, <2>1, <2>2
<1>. QED  BY <1>1, <1>3, <1>4, <1>5, <1>6 DEF RootStep

\* For any files, requests and order of calls, the readers of ROOT files implement the
\* abstract reader, as long as no branch of a deleted tree is read.
THEOREM RootReadersImplement == DumpSpec /\ []NoStaleBranchRead => ReadsEntries
<1>1. ToolInit => ReadInv /\ ToolInv
  BY ReadInvInit, ToolInvInit
<1>2. ReadInv /\ ToolInv /\ [DumpNext]_<<readersVars, toolVars>> => ReadInv' /\ ToolInv'
  BY ReadPreserved, ToolPreserved
<1>3. ReadInv /\ ToolInv /\ [DumpNext]_<<readersVars, toolVars>> /\ NoStaleBranchRead' => [Abstract!Next]_Abstract!vars
  BY AbstractStep
<1>. QED  BY <1>1, <1>2, <1>3, AbstractInit, PTL DEF DumpSpec, ReadsEntries, Abstract!Spec

-----------------------------------------------------------------------------
\* A chain of TTrees is read in whole, or asked for what no file has.
WholeChains ==
  \A s \in Sessions : s.format = "ttree" /\ Len(s.files) > 1 =>
    \A request \in s.requests : request \subseteq AllNamed => request = {}

\* Then all pointers that can be read through are of the tree that is loaded.
FreshInv ==
  /\ \A c \in Categories : branches[c] # <<>> => Fresh(c, Info(c))
  /\ NoStaleBranchRead

\* Only the collections that can be made are read, through such pointers.
LEMMA FrameIsFresh ==
  ASSUME session \in Sessions, FilesOpen, NEW c \in AvailableCategories,
         NEW info, LookedUp(c, info), Fresh(c, info), NEW n, NEW request
  PROVE  \A s \in TreeFrame(c, info, n, request).sources : s[1] # Stale
<1>. DEFINE S == StoredClasses(c)
            m == Len(S)
            t == info.tree
            local == n - Offset(c, t)
            delivered == {i \in 1 .. m : Wanted(request, S[i]) /\ Creatable(S[i]) /\ 0 \notin Range(info.branches[i])}
            U == UNION {Range(info.branches[i]) : i \in delivered \cup {m + 1}}
<1>1. m \in Nat /\ DOMAIN S = 1 .. m /\ info.stored = S
  BY ClassesAre DEF LookedUp
<1>2. TreeFrame(c, info, n, request).sources = {<<p, local>> : p \in U}
  BY <1>1 DEF TreeFrame
<1>3. t \in Nat
  BY DEF LookedUp, FilesOpen
<1>4. ASSUME NEW i \in delivered PROVE Range(info.branches[i]) \subseteq {0, t}
  <2>1. info.branches[i] = Pointers(c, t, S[i])
    BY <1>1, <1>4 DEF Fresh, UpToDate
  <2>2. \A k \in DOMAIN Pointers(c, t, S[i]) : Pointers(c, t, S[i])[k] \in {0, t}
    BY DEF Pointers, GetBranch
  <2>. HIDE DEF S, t
  <2>. QED  BY <2>1, <2>2 DEF Range
<1>5. Range(info.branches[m + 1]) \subseteq {0, t}
  BY DEF LookedUp, Range
<1>6. U \subseteq {0, t}
  <2>. HIDE DEF delivered, m, t
  <2>. QED  BY <1>4, <1>5
<1>7. Stale \notin {0, t}
  BY <1>3 DEF Stale
<1>. HIDE DEF U
<1>. QED  BY <1>2, <1>6, <1>7

\* What is asked for of a chain, and is there, is all there is.
LEMMA AllWanted ==
  ASSUME WholeChains, session \in Sessions, session.format = "ttree", NEW c \in Categories, c \in AvailableCategories,
         NEW request \in session.requests, ~Missing(request, StoredClasses(c))
  PROVE  request = {} \/ DOMAIN session.files = {1}
<1>1. request \subseteq AllNamed
  <2>1. request \subseteq {StoredClasses(c)[i].name : i \in DOMAIN StoredClasses(c)}
    BY DEF Missing
  <2>2. \A i \in DOMAIN StoredClasses(c) : StoredClasses(c)[i] \in Range(StoredClasses(c))
    BY DEF Range
  <2>. QED  BY <2>1, <2>2, ClassesNamed
<1>2. session.files # <<>> /\ session.files \in Seq(DOMAIN Files)
  BY FilesType
<1>3. Len(session.files) \in Nat \ {0} /\ DOMAIN session.files = 1 .. Len(session.files)
  BY <1>2
<1>. QED  BY <1>1, <1>3 DEF WholeChains

\* The pointers of a category stay so when the libraries and the files do.
LEMMA SameFresh ==
  ASSUME UNCHANGED <<session, relations, creators>>, NEW c, NEW info, Fresh(c, info)
  PROVE  Fresh(c, info)'
<1>1. ASSUME NEW x PROVE CollectionBranches(x)' = CollectionBranches(x) /\ Creatable(x)' = Creatable(x)
  BY SameFiles DEF CollectionBranches, GetRelationNames, Creatable, CreateBuffers
<1>2. ASSUME NEW t, NEW x PROVE Pointers(c, t, x)' = Pointers(c, t, x)
  BY <1>1, SameFiles DEF Pointers, GetBranch
<1>. QED  BY <1>1, <1>2, SameFiles DEF Fresh, UpToDate

\* A category is fresh when it is looked at.
LEMMA InitFresh ==
  ASSUME ReadInv, FreshInv, session.format = "ttree", NEW c \in Categories, c \in AvailableCategories
  PROVE  Fresh(c, InitCategory(c))
<1>1. session # Closed
  BY DEF Closed
<1>2. session \in Sessions /\ FilesOpen
  BY <1>1, OpenSession DEF ReadInv
<1>3. CASE branches[c] = <<>>
  BY <1>2, <1>3, FirstLook DEF InitCategory, Fresh
<1>4. CASE branches[c] # <<>>
  BY <1>4 DEF InitCategory, FreshInv, Info
<1>. QED  BY <1>3, <1>4

\* What is known of the categories stays, if it is not set.
LEMMA InfoKept ==
  ASSUME FreshInv, UNCHANGED <<session, relations, creators, stored, tree, branches>>
  PROVE  \A d \in Categories : branches'[d] # <<>> => Fresh(d, Info(d))'
<1>. SUFFICES ASSUME NEW d \in Categories, branches'[d] # <<>> PROVE Fresh(d, Info(d))'
  OBVIOUS
<1>1. PICK i : i = Info(d)' /\ i = Info(d)
  BY DEF Info
<1>2. Fresh(d, i)'
  BY <1>1, SameFresh DEF FreshInv
<1>. QED  BY <1>1, <1>2 DEF Fresh, UpToDate

\* An entry that there is is in an RNTuple.
LEMMA TupleThere ==
  ASSUME ReadInv, session.format = "rntuple", NEW c \in AvailableCategories, c \in Categories,
         NEW n \in Nat, n < totalEntries[c]
  PROVE  readers[c][ReaderIndex(c, n)] \in DOMAIN session.files
<1>1. session # Closed
  BY DEF Closed
<1>2. session \in Sessions /\ FilesOpen
  BY <1>1, OpenSession DEF ReadInv
<1>3. PICK g : StoredIs(c, g)
  BY <1>1, <1>2, StoredSomewhere
<1>4. TuplesAre(c)
  BY DEF ReadInv, TuplesOpened
<1>5. PICK k, t : k = ReaderIndex(c, n) /\ t = readers[c][k]
  OBVIOUS
<1>6. readers[c] = ReaderFiles(session.files, c) /\ readerEntries[c] = Front(Accumulated(session.files, c))
      /\ n < Last(Accumulated(session.files, c))
  BY <1>4 DEF TuplesAre
<1>. QED  BY <1>2, <1>3, <1>5, <1>6, TupleAt

\* To set one category leaves the others as they are.
LEMMA SetFresh ==
  ASSUME ReadInv, FreshInv, NEW c \in Categories, NEW info, SetCategory(c, info), LookedUp(c, info), Fresh(c, info),
         UNCHANGED <<session, relations, creators>>
  PROVE  \A d \in Categories : branches'[d] # <<>> => Fresh(d, Info(d))'
<1>1. info = [stored |-> info.stored, tree |-> info.tree, branches |-> info.branches]
  BY DEF LookedUp
<1>2. stored' = [d \in Categories |-> IF d = c THEN info.stored ELSE stored[d]]
      /\ tree' = [d \in Categories |-> IF d = c THEN info.tree ELSE tree[d]]
      /\ branches' = [d \in Categories |-> IF d = c THEN info.branches ELSE branches[d]]
  BY DEF SetCategory, ReadInv, TreesLookedUp
<1>. SUFFICES ASSUME NEW d \in Categories, branches'[d] # <<>> PROVE Fresh(d, Info(d))'
  OBVIOUS
<1>3. PICK i : i = Info(d)' /\ i = (IF d = c THEN info ELSE Info(d))
  BY <1>1, <1>2 DEF Info
<1>4. Fresh(d, i)
  BY <1>2, <1>3 DEF FreshInv
<1>5. Fresh(d, i)'
  BY <1>4, SameFresh
<1>. QED  BY <1>3, <1>5 DEF Fresh, UpToDate

\* A read of a chain in whole leaves no pointer behind.
LEMMA LoadFresh ==
  ASSUME WholeChains, ReadInv, FreshInv, session.format = "ttree", NEW c \in Categories, c \in AvailableCategories,
         NEW n \in Nat, n < GetEntries(c), NEW request \in session.requests, ~Missing(request, StoredClasses(c)),
         NEW info, info = LoadBranches(c, InitCategory(c), n, request)
  PROVE  LookedUp(c, info) /\ Fresh(c, info)
<1>1. session # Closed
  BY DEF Closed
<1>2. session \in Sessions /\ FilesOpen
  BY <1>1, OpenSession DEF ReadInv
<1>3. PICK j : j = InitCategory(c)
  OBVIOUS
<1>4. LookedUp(c, j) /\ Fresh(c, j)
  BY <1>3, InitLooksUp, InitFresh
<1>5. PICK t : t = TreeOf(c, n)
  OBVIOUS
<1>6. t \in DOMAIN session.files
  BY <1>5, TreeThere
<1>7. request = {} \/ t = j.tree
  <2>1. j.tree \in DOMAIN session.files
    BY <1>4 DEF LookedUp
  <2>. QED  BY <1>2, <1>6, <2>1, AllWanted
<1>8. \A x : Wanted(request, x) \/ t = j.tree
  BY <1>7 DEF Wanted
<1>9. /\ LookedUp(c, info)
      /\ \A i \in DOMAIN StoredClasses(c) :
           /\ UpToDate(c, j, i)
           /\ Creatable(StoredClasses(c)[i])
           /\ Wanted(request, StoredClasses(c)[i]) \/ t = j.tree
           => UpToDate(c, info, i)
  BY <1>2, <1>3, <1>4, <1>5, <1>6, LoadsTree
<1>. QED  BY <1>4, <1>8, <1>9 DEF Fresh

\* A read keeps the pointers fresh.
LEMMA ReadFresh ==
  ASSUME WholeChains, ReadInv, ToolInv, FreshInv, NEW c \in Categories, NEW n, NEW request, ReadStep(c, n, request)
  PROVE  FreshInv'
<1>1. UNCHANGED <<session, regVars>> /\ kind = "root" /\ session # Closed /\ Reads(c, n, request)
  BY DEF ReadStep, Reads, ReadTree, ReadTuple, ReadInv
<1>2. UNCHANGED <<session, relations, creators>>
  BY <1>1 DEF regVars
<1>3. session \in Sessions /\ FilesOpen
  BY <1>1, OpenSession DEF ReadInv
<1>4. n \in Nat /\ request \in session.requests
  BY NumbersAsked
<1>5. result' \in {Null, Thrown} => NoStaleBranchRead'
  BY DEF NoStaleBranchRead, Null, Thrown, NoResult
<1>6. ASSUME UNCHANGED catVars PROVE \A d \in Categories : branches'[d] # <<>> => Fresh(d, Info(d))'
  BY <1>2, <1>6, InfoKept DEF catVars
<1>7. CASE c \notin AvailableCategories
  <2>1. result' = Null /\ UNCHANGED catVars
    BY <1>1, <1>7 DEF Reads, ReadTree, ReadTuple, catVars
  <2>. QED  BY <1>5, <1>6, <2>1 DEF FreshInv
<1>8. CASE c \in AvailableCategories /\ ReadTree(c, n, request)
  <2>1. session.format = "ttree"
    BY <1>8 DEF ReadTree
  <2>2. PICK j : j = InitCategory(c) /\ LookedUp(c, j) /\ Fresh(c, j)
    BY <1>8, <2>1, InitLooksUp, InitFresh
  <2>3. CASE SetCategory(c, InitCategory(c)) /\ result' \in {Null, Thrown}
    <3>1. SetCategory(c, j)
      BY <2>2, <2>3
    <3>. QED  BY <1>2, <1>5, <2>2, <2>3, <3>1, SetFresh DEF FreshInv
  <2>4. CASE /\ n < GetEntries(c) /\ ~Missing(request, InitCategory(c).stored)
             /\ SetCategory(c, LoadBranches(c, InitCategory(c), n, request))
             /\ result' = TreeFrame(c, LoadBranches(c, InitCategory(c), n, request), n, request)
    <3>1. PICK info : info = LoadBranches(c, InitCategory(c), n, request)
      OBVIOUS
    <3>2. ~Missing(request, StoredClasses(c))
      BY <2>2, <2>4 DEF LookedUp
    <3>3. LookedUp(c, info) /\ Fresh(c, info)
      BY <1>4, <1>8, <2>1, <2>4, <3>1, <3>2, LoadFresh
    <3>4. SetCategory(c, info) /\ result' = TreeFrame(c, info, n, request)
      BY <2>4, <3>1
    <3>5. \A s \in TreeFrame(c, info, n, request).sources : s[1] # Stale
      BY <1>3, <1>8, <3>3, FrameIsFresh
    <3>6. NoStaleBranchRead'
      BY <3>4, <3>5 DEF NoStaleBranchRead
    <3>. QED  BY <1>2, <3>3, <3>4, <3>6, SetFresh DEF FreshInv
  <2>. QED  BY <1>8, <2>3, <2>4 DEF ReadTree
<1>9. CASE c \in AvailableCategories /\ ReadTuple(c, n, request)
  <2>1. session.format = "rntuple" /\ UNCHANGED branches
    BY <1>9 DEF ReadTuple
  <2>2. \A d \in Categories : branches'[d] = <<>>
    BY <2>1 DEF ReadInv, TreesLookedUp
  <2>3. NoStaleBranchRead'
    <3>1. CASE result' \in {Null, Thrown}
      BY <1>5, <3>1
    <3>2. CASE n < totalEntries[c] /\ stored' = [stored EXCEPT ![c] = StoredClasses(c)]
               /\ result' = TupleFrame(c, stored'[c], n, request)
      <4>1. stored'[c] = StoredClasses(c)
        BY <3>2 DEF ReadInv, TreesLookedUp
      <4>2. result'.sources = { <<readers[c][ReaderIndex(c, n)], n - readerEntries[c][ReaderIndex(c, n)]>> }
        BY <3>2, <4>1 DEF TupleFrame
      <4>3. readers[c][ReaderIndex(c, n)] \in DOMAIN session.files
        BY <1>4, <1>9, <2>1, <3>2, TupleThere
      <4>4. readers[c][ReaderIndex(c, n)] # Stale
        BY <1>3, <4>3 DEF FilesOpen, Stale
      <4>. QED  BY <4>2, <4>4 DEF NoStaleBranchRead
    <3>. QED  BY <1>9, <3>1, <3>2 DEF ReadTuple
  <2>. QED  BY <2>2, <2>3 DEF FreshInv
<1>. QED  BY <1>1, <1>7, <1>8, <1>9 DEF Reads

\* At first no pointer is kept and nothing was read.
LEMMA FreshInit == ToolInit => FreshInv
<1>. SUFFICES ASSUME ToolInit PROVE FreshInv
  OBVIOUS
<1>1. \A c \in Categories : branches[c] = <<>>
  BY DEF ToolInit, MCInit, Init, ReadInit
<1>2. result = NoResult
  BY DEF ToolInit, MCInit, Init, ReadInit
<1>. QED  BY <1>1, <1>2 DEF FreshInv, NoStaleBranchRead, NoResult

\* Every step keeps the pointers fresh.
LEMMA FreshPreserved ==
  ASSUME WholeChains, ReadInv, ToolInv, FreshInv, [DumpNext]_<<readersVars, toolVars>>
  PROVE  FreshInv'
<1>1. RootStep
  BY ReadPreserved
<1>2. ASSUME UNCHANGED result PROVE NoStaleBranchRead'
  BY <1>2 DEF FreshInv, NoStaleBranchRead
<1>3. CASE NoStep
  <2>1. UNCHANGED <<session, catVars, result>>
    BY <1>3 DEF NoStep, readVars
  <2>2. CASE kind = "none"
    <3>1. \A c \in Categories : branches'[c] = <<>>
      BY <2>1, <2>2 DEF ReadInv, catVars
    <3>. QED  BY <1>2, <2>1, <3>1 DEF FreshInv
  <2>3. CASE UNCHANGED regVars
    BY <1>2, <2>1, <2>3, InfoKept DEF FreshInv, catVars, regVars
  <2>. QED  BY <1>3, <2>2, <2>3 DEF NoStep
<1>4. ASSUME NEW s, OpenStep(s) PROVE FreshInv'
  <2>1. session = Closed /\ UNCHANGED <<catVars, result>>
    BY <1>4 DEF OpenStep, OpenFiles
  <2>2. \A c \in Categories : branches'[c] = <<>>
    BY <2>1 DEF ReadInv, catVars
  <2>. QED  BY <1>2, <2>1, <2>2 DEF FreshInv
<1>5. ASSUME NEW c \in Categories, NEW n, NEW request, ReadStep(c, n, request) PROVE FreshInv'
  BY <1>5, ReadFresh
<1>6. CASE tool = "opened" /\ LookStep(args.category)
  <2>1. PICK c \in Categories : c = args.category
    BY <1>6, ArgumentsAssumption DEF ToolInv
  <2>2. LookStep(c)
    BY <1>6, <2>1
  <2>3. UNCHANGED <<regVars, session, result>> /\ session.format = "ttree" /\ c \in AvailableCategories
        /\ SetCategory(c, InitCategory(c))
    BY <2>2 DEF LookStep
  <2>4. PICK i : i = InitCategory(c) /\ LookedUp(c, i) /\ Fresh(c, i)
    BY <2>3, InitLooksUp, InitFresh
  <2>5. SetCategory(c, i)
    BY <2>3, <2>4
  <2>. QED  BY <1>2, <2>3, <2>4, <2>5, SetFresh DEF FreshInv, regVars
<1>. QED  BY <1>1, <1>3, <1>4, <1>5, <1>6 DEF RootStep

\* Where chains of TTrees are read in whole, no branch of a deleted tree is read: the
\* pointers are looked up again for every collection whenever a tree is loaded.
THEOREM WholeChainsReadFresh == WholeChains /\ DumpSpec => []NoStaleBranchRead
<1>. SUFFICES ASSUME WholeChains PROVE DumpSpec => []NoStaleBranchRead
  OBVIOUS
<1>1. ToolInit => ReadInv /\ ToolInv /\ FreshInv
  BY ReadInvInit, ToolInvInit, FreshInit
<1>2. ReadInv /\ ToolInv /\ FreshInv /\ [DumpNext]_<<readersVars, toolVars>> => ReadInv' /\ ToolInv' /\ FreshInv'
  BY ReadPreserved, ToolPreserved, FreshPreserved
<1>3. FreshInv => NoStaleBranchRead
  BY DEF FreshInv
<1>. QED  BY <1>1, <1>2, <1>3, PTL DEF DumpSpec

\* For any files, requests and order of calls, the readers of ROOT files implement the
\* abstract reader where chains of TTrees are read in whole.
THEOREM WholeChainsImplement == WholeChains /\ DumpSpec => ReadsEntries
  BY RootReadersImplement, WholeChainsReadFresh, PTL

-----------------------------------------------------------------------------
\* Entries are those of one range.
In(e, r) == r.first <= e /\ e < r.last
Interval == [first : Nat, last : Nat]
Apart(r, q) == r.last <= q.first \/ q.last <= r.first

\* The ranges that SetNSlots makes follow one another up to the number of events.
LEMMA RangesCover ==
  ASSUME NEW events \in Nat, NEW slots \in Nat \ {0}, slots <= events
  PROVE  LET r == Source!Ranges(events, slots)
         IN  /\ DOMAIN r = 1 .. slots
             /\ r \in Seq(Interval)
             /\ \A i \in 1 .. slots : r[i].last <= events
             /\ \A i, j \in 1 .. slots : i # j => Apart(r[i], r[j])
             /\ \A e \in 0 .. events - 1 : \E i \in 1 .. slots : In(e, r[i])
<1>. DEFINE q == events \div slots
            r == Source!Ranges(events, slots)
<1>1. q \in Nat /\ q >= 1 /\ q * slots <= events
  OBVIOUS
<1>2. r = [i \in 1 .. slots |->
         [first |-> q * (i - 1), last |-> IF i = slots THEN events ELSE q * i]]
  BY DEF Source!Ranges
<1>. HIDE DEF q, r
<1>3. \A i, j \in Nat : i <= j => q * i <= q * j
  BY <1>1
<1>4. \A i \in Nat : q * i \in Nat
  BY <1>1
<1>5. \A i \in 1 .. slots : i \in Nat /\ i - 1 \in Nat /\ r[i].first = q * (i - 1) /\ r[i].last = IF i = slots THEN events ELSE q * i
  BY <1>2
<1>6. r \in Seq(Interval)
  <2>1. \A i \in 1 .. slots : r[i] \in Interval
    <3>. SUFFICES ASSUME NEW i \in 1 .. slots PROVE r[i] \in Interval
      OBVIOUS
    <3>1. q * (i - 1) \in Nat /\ q * i \in Nat
      BY <1>4, <1>5
    <3>2. r[i] = [first |-> q * (i - 1), last |-> IF i = slots THEN events ELSE q * i]
      BY <1>2
    <3>. QED  BY <3>1, <3>2 DEF Interval
  <2>. QED  BY <1>2, <2>1
<1>7. \A i \in 1 .. slots : r[i].last <= events /\ q * i <= r[i].last
  BY <1>1, <1>3, <1>4, <1>5
<1>8. \A i, j \in 1 .. slots : i < j => r[i].last <= r[j].first
  <2>. SUFFICES ASSUME NEW i \in 1 .. slots, NEW j \in 1 .. slots, i < j PROVE r[i].last <= r[j].first
    OBVIOUS
  <2>1. i # slots /\ i <= j - 1 /\ i \in Nat /\ j - 1 \in Nat
    OBVIOUS
  <2>. QED  BY <1>3, <1>5, <2>1
<1>9. \A e \in 0 .. events - 1 : \E i \in 1 .. slots : In(e, r[i])
  <2>. SUFFICES ASSUME NEW e \in 0 .. events - 1 PROVE \E i \in 1 .. slots : In(e, r[i])
    OBVIOUS
  <2>1. CASE q * (slots - 1) <= e
    <3>1. slots \in 1 .. slots /\ r[slots].first = q * (slots - 1) /\ r[slots].last = events
      BY <1>5
    <3>. QED  BY <2>1, <3>1 DEF In
  <2>2. CASE e < q * (slots - 1)
    <3>. DEFINE d == e \div q
    <3>1. d \in Nat /\ q * d <= e /\ e < q * (d + 1)
      BY <1>1
    <3>. HIDE DEF d
    <3>2. d < slots - 1
      <4>1. SUFFICES ASSUME slots - 1 <= d PROVE FALSE
        BY <3>1
      <4>2. slots - 1 \in Nat /\ q * (slots - 1) \in Nat /\ q * d \in Nat
        BY <1>4, <3>1
      <4>3. q * (slots - 1) <= q * d
        BY <1>3, <3>1, <4>1, <4>2
      <4>. QED  BY <2>2, <3>1, <4>2, <4>3
    <3>3. d + 1 \in 1 .. slots /\ (d + 1) - 1 = d /\ d + 1 # slots
      BY <3>1, <3>2
    <3>. QED  BY <1>5, <3>1, <3>3 DEF In
  <2>. QED  BY <1>4, <2>1, <2>2
<1>10. \A i, j \in 1 .. slots : i # j => Apart(r[i], r[j])
  BY <1>8 DEF Apart
<1>. QED  BY <1>2, <1>6, <1>7, <1>9, <1>10 DEF r

Ready == phase \in {"slots", "loop"}

\* The types of the source: what there is before and after the slots are made.
SourceTypes ==
  /\ phase \in {"new", "input", "slots", "loop", "failed"}
  /\ nEvents \in Nat
  /\ rangesAvailable \in Seq(Interval)
  /\ work \subseteq Interval
  /\ activeCollections \in Seq(Columns)
  /\ Ready => nSlots \in Nat \ {0} /\ slotWork \in [1 .. nSlots -> Interval]
  /\ ~Ready => /\ rangesAll = <<>> /\ rangesAvailable = <<>> /\ work = {}
               /\ slotWork = <<>> /\ seen = <<>> /\ frames = <<>> /\ activeCollections = <<>>
  /\ phase = "slots" => work = {} /\ (\A s \in 1 .. nSlots : slotWork[s] = Source!Idle) /\ seen = <<>>

\* The entries that are still to do, in the ranges that are available, handed out
\* or worked on.
Todo(e) ==
  \/ \E i \in DOMAIN rangesAvailable : In(e, rangesAvailable[i])
  \/ \E r \in work : In(e, r)
  \/ \E s \in DOMAIN slotWork : In(e, slotWork[s])

\* Two ranges have no entry in common.
RangesApart ==
  /\ \A i, j \in DOMAIN rangesAvailable : i # j => Apart(rangesAvailable[i], rangesAvailable[j])
  /\ \A r, q \in work : r # q => Apart(r, q)
  /\ \A s, t \in DOMAIN slotWork : s # t => Apart(slotWork[s], slotWork[t])
  /\ \A i \in DOMAIN rangesAvailable, r \in work : Apart(rangesAvailable[i], r)
  /\ \A i \in DOMAIN rangesAvailable, s \in DOMAIN slotWork : Apart(rangesAvailable[i], slotWork[s])
  /\ \A r \in work, s \in DOMAIN slotWork : Apart(r, slotWork[s])

\* They end at the number of events.
RangesEnd ==
  /\ \A i \in DOMAIN rangesAvailable : rangesAvailable[i].last <= nEvents
  /\ \A r \in work : r.last <= nEvents
  /\ \A s \in DOMAIN slotWork : slotWork[s].last <= nEvents

\* An entry was seen once, or it is still to do.
SeenOrTodo ==
  /\ DOMAIN seen \subseteq 0 .. nEvents - 1
  /\ \A e \in DOMAIN seen : seen[e] = 1 /\ ~Todo(e)
  /\ Ready => \A e \in 0 .. nEvents - 1 : e \in DOMAIN seen \/ Todo(e)

\* The columns and the frames of the slots.
Active(c) == \E i \in DOMAIN activeCollections : activeCollections[i] = c

SlotsFilled ==
  Ready =>
    /\ frames = [s \in 1 .. nSlots |-> frames[s]]
    /\ \A c \in Columns : collections[c] = [s \in 1 .. nSlots |-> collections[c][s]]
    /\ phase = "slots" => \A c \in Columns, s \in 1 .. nSlots : collections[c][s] = Source!NoEntry /\ frames[s] = Source!NoEntry
    /\ \A c \in Columns, s \in 1 .. nSlots : Active(c) => collections[c][s] = frames[s]

SourceInv == SourceTypes /\ RangesApart /\ RangesEnd /\ SeenOrTodo /\ SlotsFilled
-----------------------------------------------------------------------------
\* There is no event loop at first.
LEMMA SourceInit == Source!Init => SourceInv
  BY DEF Source!Init, SourceInv, SourceTypes, RangesApart, RangesEnd, SeenOrTodo, SlotsFilled, Todo, Ready

\* A data source starts with all its events to do, or with the limit.
LEMMA SetupInputSafe ==
  ASSUME SourceInv, Entries(Event) \in Nat, NEW limit \in Limits, Source!SetupInput(limit)
  PROVE  SourceInv'
<1>1. phase = "new" /\ phase' \in {"input", "failed"} /\ nEvents' \in Nat
  BY SourceAssumption DEF Source!SetupInput, Source!Smaller, SourceInv, SourceTypes
<1>2. /\ rangesAll' = <<>> /\ rangesAvailable' = <<>> /\ work' = {} /\ activeCollections' = <<>>
      /\ slotWork' = <<>> /\ seen' = <<>> /\ frames' = <<>>
  BY <1>1 DEF Source!SetupInput, SourceInv, SourceTypes, Ready
<1>. QED
  BY <1>1, <1>2 DEF SourceInv, SourceTypes, RangesApart, RangesEnd, SeenOrTodo, SlotsFilled, Todo, Ready

\* A column has a place for each slot.
LEMMA GetColumnReadersSafe ==
  ASSUME SourceInv, NEW c \in Columns, Source!GetColumnReaders(c)
  PROVE  SourceInv'
<1>1. phase = "slots" /\ activeCollections' \in Seq(Columns)
  BY DEF Source!GetColumnReaders, SourceInv, SourceTypes
<1>2. UNCHANGED <<phase, nEvents, nSlots, rangesAll, rangesAvailable, frames, collections, work, slotWork, seen>>
  BY DEF Source!GetColumnReaders
<1>3. SourceTypes'
  BY <1>1, <1>2 DEF SourceInv, SourceTypes, Ready
<1>4. RangesApart' /\ RangesEnd'
  BY <1>2 DEF SourceInv, RangesApart, RangesEnd
<1>5. SeenOrTodo'
  BY <1>2 DEF SourceInv, SeenOrTodo, Todo, Ready
<1>6. SlotsFilled'
  BY <1>1, <1>2 DEF SourceInv, SlotsFilled, Ready
<1>. QED  BY <1>3, <1>4, <1>5, <1>6 DEF SourceInv

\* The ranges that are made cover the events once.
LEMMA SetNSlotsSafe ==
  ASSUME SourceInv, NEW n \in SlotNumbers, Source!SetNSlots(n)
  PROVE  SourceInv'
<1>1. /\ phase = "input" /\ nEvents \in Nat /\ n \in Nat \ {0}
      /\ rangesAll = <<>> /\ rangesAvailable = <<>> /\ work = {} /\ activeCollections = <<>>
      /\ slotWork = <<>> /\ seen = <<>> /\ frames = <<>>
  BY SourceAssumption DEF Source!SetNSlots, SourceInv, SourceTypes, Ready
<1>2. nSlots' = n /\ UNCHANGED <<nEvents, activeCollections, work, seen>>
  BY DEF Source!SetNSlots
<1>3. CASE phase' = "failed" /\ UNCHANGED <<rangesAll, rangesAvailable, frames, slotWork>>
  BY <1>1, <1>2, <1>3 DEF SourceInv, SourceTypes, RangesApart, RangesEnd, SeenOrTodo, SlotsFilled, Todo, Ready
<1>4. CASE ~ (phase' = "failed" /\ UNCHANGED <<rangesAll, rangesAvailable, frames, slotWork>>)
  <2>. DEFINE r == Source!Ranges(nEvents, n)
  <2>1. /\ n <= nEvents /\ phase' = "slots" /\ rangesAvailable' = <<>> \o r
        /\ frames' = [s \in 1 .. n |-> Source!NoEntry]
        /\ collections' = [c \in Columns |-> [s \in 1 .. n |-> Source!NoEntry]]
        /\ slotWork' = [s \in 1 .. n |-> Source!Idle]
    BY <1>1, <1>4 DEF Source!SetNSlots
  <2>2. /\ DOMAIN r = 1 .. n /\ r \in Seq(Interval)
        /\ \A i \in 1 .. n : r[i].last <= nEvents
        /\ \A i, j \in 1 .. n : i # j => Apart(r[i], r[j])
        /\ \A e \in 0 .. nEvents - 1 : \E i \in 1 .. n : In(e, r[i])
    BY <1>1, <2>1, RangesCover
  <2>. HIDE DEF r
  <2>3. rangesAvailable' = r
    BY <2>1, <2>2
  <2>4. Source!Idle \in Interval /\ Source!Idle.last = 0 /\ Source!Idle.first = 0
    BY DEF Source!Idle, Interval
  <2>5. SourceTypes'
    BY <1>1, <1>2, <2>1, <2>2, <2>3, <2>4 DEF SourceTypes, Ready
  <2>6. \A i \in DOMAIN r : r[i] \in Interval /\ r[i].first \in Nat
    <3>1. \A i \in DOMAIN r : r[i] \in Interval
      <4>1. r \in Seq(Interval)
        BY <2>2
      <4>. QED  BY ONLY <4>1
    <3>. QED  BY <3>1 DEF Interval
  <2>7. RangesApart'
    <3>1. \A i, j \in DOMAIN r : i # j => Apart(r[i], r[j])
      BY <2>2
    <3>2. Apart(Source!Idle, Source!Idle) /\ \A i \in DOMAIN r : Apart(r[i], Source!Idle)
      BY <2>4, <2>6 DEF Apart
    <3>3. DOMAIN slotWork' = 1 .. n /\ (\A k \in 1 .. n : slotWork'[k] = Source!Idle) /\ work' = {}
      BY <1>1, <1>2, <2>1
    <3>. QED  BY <2>3, <3>1, <3>2, <3>3 DEF RangesApart
  <2>8. RangesEnd'
    BY <1>1, <1>2, <2>1, <2>2, <2>3, <2>4 DEF RangesEnd
  <2>9. SeenOrTodo'
    <3>1. \A e \in 0 .. nEvents - 1 : Todo(e)'
      BY <2>2, <2>3 DEF Todo
    <3>. QED  BY <1>1, <1>2, <3>1 DEF SeenOrTodo
  <2>10. SlotsFilled'
    BY <1>2, <2>1 DEF SlotsFilled
  <2>. QED  BY <2>5, <2>7, <2>8, <2>9, <2>10 DEF SourceInv
<1>. QED  BY <1>3, <1>4

\* Handing ranges out leaves every event in one place.
LEMMA GetEntryRangesSafe ==
  ASSUME SourceInv, Source!GetEntryRanges
  PROVE  SourceInv'
<1>. DEFINE a == rangesAvailable
            k == Source!Smaller(nSlots, Len(a))
<1>1. /\ Ready /\ work = {} /\ (\A s \in DOMAIN slotWork : slotWork[s] = Source!Idle) /\ phase' = "loop"
      /\ work' = {Source!ToProcess[i] : i \in DOMAIN Source!ToProcess} /\ rangesAvailable' = Source!LeftAvailable
      /\ UNCHANGED <<nEvents, nSlots, rangesAll, activeCollections, frames, collections, slotWork, seen>>
  BY DEF Source!GetEntryRanges, Source!ToSet, Ready
<1>2. /\ nSlots \in Nat \ {0} /\ slotWork \in [1 .. nSlots -> Interval] /\ a \in Seq(Interval)
      /\ DOMAIN a = 1 .. Len(a) /\ Len(a) \in Nat
  BY <1>1 DEF SourceInv, SourceTypes
<1>3. k \in Nat /\ k <= Len(a) /\ k <= nSlots
  BY <1>2 DEF Source!Smaller
<1>4. DOMAIN Source!ToProcess = 1 .. k /\ \A i \in 1 .. k : Source!ToProcess[i] = a[i]
  <2>1. Source!ToProcess = SubSeq(a, 1, k)
    BY DEF Source!ToProcess
  <2>. HIDE DEF k
  <2>. QED  BY <1>2, <1>3, <2>1
<1>5. work' = {a[i] : i \in 1 .. k}
  BY <1>1, <1>4
<1>6. /\ rangesAvailable' \in Seq(Interval)
      /\ DOMAIN rangesAvailable' = 1 .. Len(a) - k
      /\ \A i \in 1 .. Len(a) - k : i + k \in 1 .. Len(a) /\ rangesAvailable'[i] = a[i + k]
  <2>1. CASE Len(a) > nSlots
    <3>1. k = nSlots /\ rangesAvailable' = SubSeq(a, nSlots + 1, Len(a))
      BY <1>1, <1>2, <2>1 DEF Source!LeftAvailable, Source!Smaller
    <3>. HIDE DEF k, a
    <3>. QED  BY <1>2, <2>1, <3>1, SMTT(30)
  <2>2. CASE ~ (Len(a) > nSlots)
    <3>1. k = Len(a) /\ rangesAvailable' = <<>>
      BY <1>1, <1>2, <2>2 DEF Source!LeftAvailable, Source!Smaller
    <3>. HIDE DEF k, a
    <3>. QED  BY <1>2, <2>2, <3>1
  <2>. QED  BY <2>1, <2>2
<1>. HIDE DEF k
<1>7. \A i \in 1 .. k : i \in DOMAIN a /\ a[i] \in Interval
  BY <1>2, <1>3
<1>8. SourceTypes'
  <2>1. work' \subseteq Interval
    BY <1>5, <1>7
  <2>. QED  BY <1>1, <1>2, <1>6, <2>1 DEF SourceInv, SourceTypes, Ready
<1>9. RangesApart'
  <2>1. \A i, j \in DOMAIN a : i # j => Apart(a[i], a[j])
    BY DEF SourceInv, RangesApart
  <2>2. \A i \in DOMAIN a, s \in DOMAIN slotWork : Apart(a[i], slotWork[s])
    BY DEF SourceInv, RangesApart
  <2>3. \A s, t \in DOMAIN slotWork : s # t => Apart(slotWork[s], slotWork[t])
    BY DEF SourceInv, RangesApart
  <2>. HIDE DEF a
  <2>4. \A i, j \in DOMAIN rangesAvailable' : i # j => Apart(rangesAvailable'[i], rangesAvailable'[j])
    <3>1. \A i, j \in 1 .. Len(a) - k : i + k \in DOMAIN a /\ j + k \in DOMAIN a /\ (i # j => i + k # j + k)
      BY <1>2, <1>3
    <3>. QED  BY <1>6, <2>1, <3>1
  <2>5. \A r, q \in work' : r # q => Apart(r, q)
    BY <1>5, <1>7, <2>1
  <2>6. \A i \in DOMAIN rangesAvailable', r \in work' : Apart(rangesAvailable'[i], r)
    <3>1. \A i \in 1 .. Len(a) - k, j \in 1 .. k : Apart(a[i + k], a[j])
      <4>1. \A i \in 1 .. Len(a) - k, j \in 1 .. k : i + k \in DOMAIN a /\ j \in DOMAIN a /\ i + k # j
        BY <1>2, <1>3
      <4>. QED  BY <2>1, <4>1
    <3>. QED  BY <1>5, <1>6, <3>1
  <2>7. \A i \in DOMAIN rangesAvailable', s \in DOMAIN slotWork : Apart(rangesAvailable'[i], slotWork[s])
    BY <1>2, <1>6, <2>2
  <2>8. \A r \in work', s \in DOMAIN slotWork : Apart(r, slotWork[s])
    BY <1>5, <1>7, <2>2
  <2>. QED  BY <1>1, <2>3, <2>4, <2>5, <2>6, <2>7, <2>8 DEF RangesApart
<1>10. RangesEnd'
  <2>1. \A i \in DOMAIN a : a[i].last <= nEvents
    BY DEF SourceInv, RangesEnd
  <2>2. \A s \in DOMAIN slotWork : slotWork[s].last <= nEvents
    BY DEF SourceInv, RangesEnd
  <2>. HIDE DEF a
  <2>. QED  BY <1>1, <1>2, <1>5, <1>6, <1>7, <2>1, <2>2 DEF RangesEnd
<1>11. SeenOrTodo'
  <2>1. ASSUME NEW e PROVE Todo(e)' <=> Todo(e)
    <3>1. (\E i \in DOMAIN a : In(e, a[i])) <=>
            (\E i \in 1 .. Len(a) - k : In(e, a[i + k])) \/ \E i \in 1 .. k : In(e, a[i])
      <4>1. \A i \in DOMAIN a : i \notin 1 .. k => i - k \in 1 .. Len(a) - k /\ (i - k) + k = i
        BY <1>2, <1>3
      <4>. HIDE DEF a
      <4>. QED  BY <1>2, <1>6, <1>7, <4>1
    <3>2. (\E i \in DOMAIN rangesAvailable' : In(e, rangesAvailable'[i])) <=> \E i \in 1 .. Len(a) - k : In(e, a[i + k])
      BY <1>6
    <3>3. (\E r \in work' : In(e, r)) <=> \E i \in 1 .. k : In(e, a[i])
      BY <1>5
    <3>. QED  BY <1>1, <3>1, <3>2, <3>3 DEF Todo
  <2>. QED  BY <1>1, <2>1 DEF SourceInv, SeenOrTodo, Ready
<1>12. SlotsFilled'
  BY <1>1 DEF SourceInv, SlotsFilled, Ready, Active
<1>. QED  BY <1>8, <1>9, <1>10, <1>11, <1>12 DEF SourceInv

\* A slot takes a range over from the work that is left.
LEMMA InitSlotSafe ==
  ASSUME SourceInv, NEW s \in DOMAIN slotWork, NEW r \in work, Source!InitSlot(s, r)
  PROVE  SourceInv'
<1>1. /\ slotWork[s] = Source!Idle /\ work' = work \ {r} /\ slotWork' = [slotWork EXCEPT ![s] = r]
      /\ UNCHANGED <<phase, nEvents, nSlots, rangesAll, rangesAvailable, activeCollections, frames, collections, seen>>
  BY DEF Source!InitSlot
<1>2. phase = "loop"
  BY DEF SourceInv, SourceTypes, Ready
<1>3. nSlots \in Nat \ {0} /\ slotWork \in [1 .. nSlots -> Interval] /\ r \in Interval
  BY <1>2 DEF SourceInv, SourceTypes, Ready
<1>4. DOMAIN slotWork' = DOMAIN slotWork /\ \A t \in DOMAIN slotWork : slotWork'[t] = IF t = s THEN r ELSE slotWork[t]
  BY <1>1, <1>3
<1>5. SourceTypes'
  BY <1>1, <1>2, <1>3 DEF SourceInv, SourceTypes, Ready
<1>6. RangesApart'
  <2>1. \A q, p : Apart(q, p) <=> Apart(p, q)
    BY DEF Apart
  <2>. QED  BY <1>1, <1>4, <2>1 DEF SourceInv, RangesApart
<1>7. RangesEnd'
  BY <1>1, <1>4 DEF SourceInv, RangesEnd
<1>8. SeenOrTodo'
  <2>1. ASSUME NEW e \in Nat PROVE Todo(e)' <=> Todo(e)
    <3>1. ~ In(e, slotWork[s])
      BY <1>1 DEF In, Source!Idle
    <3>. QED  BY <1>1, <1>4, <3>1 DEF Todo
  <2>2. \A e \in DOMAIN seen : e \in Nat
    BY DEF SourceInv, SeenOrTodo
  <2>. QED  BY <1>1, <2>1, <2>2 DEF SourceInv, SeenOrTodo, Ready
<1>9. SlotsFilled'
  BY <1>1, <1>2 DEF SourceInv, SlotsFilled, Ready, Active
<1>. QED  BY <1>5, <1>6, <1>7, <1>8, <1>9 DEF SourceInv

\* The entry that a slot reads was to do and has been seen, and all its columns are of this entry.
LEMMA SetEntrySafe ==
  ASSUME SourceInv, NEW s \in DOMAIN slotWork, Source!SetEntry(s)
  PROVE  SourceInv'
<1>. DEFINE r == slotWork[s]
            next == IF r.first + 1 = r.last THEN Source!Idle ELSE [r EXCEPT !.first = r.first + 1]
<1>1. PICK entry \in Nat : entry = r.first
  <2>1. Ready /\ slotWork \in [1 .. nSlots -> Interval]
    BY DEF SourceInv, SourceTypes
  <2>. QED  BY <2>1 DEF Interval
<1>2. /\ entry < r.last /\ frames' = [frames EXCEPT ![s] = <<entry>>]
      /\ collections' = Source!Filled(s, entry) /\ seen' = Source!Seen(entry)
      /\ slotWork' = [slotWork EXCEPT ![s] = next]
      /\ UNCHANGED <<phase, nEvents, nSlots, rangesAll, rangesAvailable, activeCollections, work>>
  BY <1>1 DEF Source!SetEntry
<1>3. phase = "loop" /\ nSlots \in Nat \ {0} /\ slotWork \in [1 .. nSlots -> Interval] /\ r \in Interval
  <2>1. Ready /\ nSlots \in Nat \ {0} /\ slotWork \in [1 .. nSlots -> Interval]
    BY DEF SourceInv, SourceTypes
  <2>2. phase # "slots"
    BY <1>1, <1>2, <2>1 DEF SourceInv, SourceTypes, Source!Idle
  <2>. QED  BY <2>1, <2>2 DEF Ready
<1>4. entry \in Nat /\ r.last \in Nat /\ next \in Interval
  BY <1>1, <1>3 DEF Interval, Source!Idle
<1>5. /\ next.first \in Nat /\ next.last \in Nat
      /\ \/ next = Source!Idle /\ next.first = 0 /\ next.last = 0 /\ r.last = entry + 1
         \/ next.first = entry + 1 /\ next.last = r.last /\ entry + 1 # r.last
  BY <1>1, <1>3, <1>4 DEF Interval, Source!Idle
<1>. HIDE DEF next
<1>6. \A q \in Interval : (Apart(r, q) => Apart(next, q)) /\ (Apart(q, r) => Apart(q, next))
  <2>. SUFFICES ASSUME NEW q \in Interval
                PROVE  (Apart(r, q) => Apart(next, q)) /\ (Apart(q, r) => Apart(q, next))
    OBVIOUS
  <2>1. q.first \in Nat /\ q.last \in Nat
    BY DEF Interval
  <2>. HIDE DEF r
  <2>. QED  BY <1>1, <1>4, <1>5, <2>1 DEF Apart
<1>7. \A e \in Nat : In(e, r) <=> e = entry \/ In(e, next)
  <2>. HIDE DEF r
  <2>. QED  BY <1>1, <1>2, <1>4, <1>5 DEF In
<1>8. ~In(entry, next)
  BY <1>4, <1>5 DEF In
<1>9. DOMAIN slotWork' = DOMAIN slotWork /\ \A t \in DOMAIN slotWork : slotWork'[t] = IF t = s THEN next ELSE slotWork[t]
  BY <1>1, <1>2, <1>3
<1>10. SourceTypes'
  BY <1>1, <1>2, <1>3, <1>4 DEF SourceInv, SourceTypes, Ready
<1>11. /\ \A i \in DOMAIN rangesAvailable : rangesAvailable[i] \in Interval
       /\ \A q \in work : q \in Interval
       /\ \A t \in DOMAIN slotWork : slotWork[t] \in Interval
  BY <1>3 DEF SourceInv, SourceTypes
<1>12. RangesApart'
  BY <1>1, <1>2, <1>6, <1>9, <1>11 DEF SourceInv, RangesApart
<1>13. RangesEnd'
  BY <1>1, <1>2, <1>4, <1>5, <1>9, <1>11 DEF SourceInv, RangesEnd, SourceTypes, Source!Idle
<1>14. \A e \in Nat : Todo(e) <=> e = entry \/ Todo(e)'
  BY <1>1, <1>2, <1>7, <1>9 DEF Todo
<1>15. ~Todo(entry)'
  <2>1. ~ \E i \in DOMAIN rangesAvailable : In(entry, rangesAvailable[i])
    BY <1>1, <1>2, <1>4, <1>11 DEF SourceInv, RangesApart, Apart, In, Interval
  <2>2. ~ \E q \in work : In(entry, q)
    BY <1>1, <1>2, <1>4, <1>11 DEF SourceInv, RangesApart, Apart, In, Interval
  <2>3. ~ \E t \in DOMAIN slotWork : t # s /\ In(entry, slotWork[t])
    BY <1>1, <1>2, <1>4, <1>11 DEF SourceInv, RangesApart, Apart, In, Interval
  <2>4. ~ \E t \in DOMAIN slotWork' : In(entry, slotWork'[t])
    BY <1>8, <1>9, <2>3
  <2>5. rangesAvailable' = rangesAvailable /\ work' = work
    BY <1>1, <1>2
  <2>. QED  BY <2>1, <2>2, <2>4, <2>5 DEF Todo
<1>16. SeenOrTodo'
  <2>1. entry \notin DOMAIN seen /\ entry \in 0 .. nEvents - 1
    <3>1. Todo(entry)
      BY <1>4, <1>14
    <3>2. r.last <= nEvents
      BY DEF SourceInv, RangesEnd
    <3>. QED  BY <1>1, <1>2, <1>4, <3>1, <3>2 DEF SourceInv, SeenOrTodo, SourceTypes
  <2>2. DOMAIN seen' = DOMAIN seen \cup {entry} /\ \A e \in DOMAIN seen' : seen'[e] = IF e = entry THEN 1 ELSE seen[e]
    BY <1>1, <1>2, <2>1 DEF Source!Seen
  <2>3. \A e \in DOMAIN seen : e \in Nat /\ seen[e] = 1 /\ ~Todo(e)
    BY DEF SourceInv, SeenOrTodo
  <2>4. \A e \in 0 .. nEvents - 1 : e \in DOMAIN seen \/ Todo(e)
    BY <1>3 DEF SourceInv, SeenOrTodo, Ready
  <2>5. DOMAIN seen \subseteq 0 .. nEvents - 1
    BY DEF SourceInv, SeenOrTodo
  <2>6. \A e \in DOMAIN seen' : seen'[e] = 1 /\ ~Todo(e)'
    <3>. SUFFICES ASSUME NEW e \in DOMAIN seen' PROVE seen'[e] = 1 /\ ~Todo(e)'
      OBVIOUS
    <3>1. CASE e = entry
      BY <1>15, <2>2, <3>1
    <3>2. CASE e # entry
      BY <1>14, <2>2, <2>3, <3>2
    <3>. QED  BY <3>1, <3>2
  <2>7. \A e \in 0 .. nEvents - 1 : e \in DOMAIN seen' \/ Todo(e)'
    BY <1>14, <2>2, <2>4
  <2>. QED  BY <1>1, <1>2, <2>1, <2>2, <2>5, <2>6, <2>7 DEF SeenOrTodo
<1>17. SlotsFilled'
  <2>1. /\ frames = [t \in 1 .. nSlots |-> frames[t]]
        /\ \A c \in Columns : collections[c] = [t \in 1 .. nSlots |-> collections[c][t]]
        /\ \A c \in Columns, t \in 1 .. nSlots : Active(c) => collections[c][t] = frames[t]
    BY <1>3 DEF SourceInv, SlotsFilled, Ready
  <2>2. frames' = [t \in 1 .. nSlots |-> IF t = s THEN <<entry>> ELSE frames[t]]
    BY <1>1, <1>2, <2>1
  <2>3. ASSUME NEW c \in Columns
        PROVE  collections'[c] = [t \in 1 .. nSlots |-> IF Active(c) /\ t = s THEN <<entry>> ELSE collections[c][t]]
    <3>1. Source!Contains(activeCollections, c) <=> Active(c)
      BY DEF Source!Contains, Active, SourceInv, SourceTypes
    <3>2. collections'[c] = IF Active(c) THEN [collections[c] EXCEPT ![s] = <<entry>>] ELSE collections[c]
      BY <1>1, <1>2, <3>1 DEF Source!Filled
    <3>. QED  BY <2>1, <3>2
  <2>4. \A c : Active(c)' <=> Active(c)
    BY <1>1, <1>2 DEF Active
  <2>5. \A t \in 1 .. nSlots : frames'[t] = IF t = s THEN <<entry>> ELSE frames[t]
    BY <2>2
  <2>6. \A c \in Columns, t \in 1 .. nSlots : collections'[c][t] = IF Active(c) /\ t = s THEN <<entry>> ELSE collections[c][t]
    BY <2>3
  <2>7. frames' = [t \in 1 .. nSlots |-> frames'[t]] /\ \A c \in Columns : collections'[c] = [t \in 1 .. nSlots |-> collections'[c][t]]
    BY <2>2, <2>3
  <2>8. \A c \in Columns, t \in 1 .. nSlots : Active(c) => collections'[c][t] = frames'[t]
    BY <2>1, <2>5, <2>6
  <2>. QED  BY <1>1, <1>2, <1>3, <2>4, <2>7, <2>8 DEF SlotsFilled
<1>. QED  BY <1>10, <1>12, <1>13, <1>16, <1>17 DEF SourceInv

\* Every step keeps the invariant of the event loop.
LEMMA SourcePreserved ==
  ASSUME SourceInv, SessionInv, [DumpNext]_<<readersVars, toolVars>>
  PROVE  SourceInv'
<1>1. CASE UNCHANGED sourceVars
  BY <1>1 DEF sourceVars, SourceInv, SourceTypes, RangesApart, RangesEnd, SeenOrTodo, SlotsFilled, Todo, Ready, Active
<1>2. CASE kind \in {"root", "source"} /\ Source!Next
  <2>1. Entries(Event) \in Nat
    BY <1>2, CountedAreStored, SourceAssumption DEF Entries
  <2>. QED
    BY <1>2, <2>1, SetupInputSafe, SetNSlotsSafe, GetColumnReadersSafe, GetEntryRangesSafe, InitSlotSafe, SetEntrySafe
       DEF Source!Next
<1>. QED  BY <1>1, <1>2, SourceStep

\* The invariant of the event loop always holds.
LEMMA SourceSafe == DumpSpec => []SourceInv
<1>1. ToolInit => SourceInv
  BY SourceInit DEF ToolInit, MCInit
<1>. QED  BY <1>1, SessionInit, SourcePreserved, SessionPreserved, PTL DEF DumpSpec

\* For any number of files, events, slots and columns: an event loop sees no entry
\* twice, and once it is over every entry.
THEOREM SeenOnce == DumpSpec => []EachEventOnce
<1>1. SourceInv => EachEventOnce
  <2>. SUFFICES ASSUME SourceInv PROVE EachEventOnce
    OBVIOUS
  <2>1. DOMAIN seen \subseteq 0 .. nEvents - 1 /\ \A e \in DOMAIN seen : seen[e] = 1
    BY DEF SourceInv, SeenOrTodo
  <2>2. ASSUME phase = "loop", work = {}, rangesAvailable = <<>>, \A s \in DOMAIN slotWork : slotWork[s] = Source!Idle
        PROVE  DOMAIN seen = 0 .. nEvents - 1
    <3>1. \A e \in Nat : ~Todo(e)
      BY <2>2 DEF Todo, In, Source!Idle
    <3>2. \A e \in 0 .. nEvents - 1 : e \in Nat
      BY DEF SourceInv, SourceTypes
    <3>. QED  BY <2>1, <2>2, <3>1, <3>2 DEF SourceInv, SeenOrTodo, Ready
  <2>. QED  BY <2>1, <2>2 DEF EachEventOnce, Source!EachEventOnce
<1>. QED  BY <1>1, SourceSafe, PTL

\* For any columns and slots: a slot never works on a collection of another entry.
THEOREM ColumnsUpToDate == DumpSpec => []ColumnsFollowFrame
<1>1. SourceInv => ColumnsFollowFrame
  <2>. SUFFICES ASSUME SourceInv, NEW c \in Source!ToSet(activeCollections), NEW s \in DOMAIN frames
                PROVE  collections[c][s] = frames[s]
    BY DEF ColumnsFollowFrame, Source!ColumnsFollowFrame
  <2>1. Active(c) /\ c \in Columns
    BY DEF Source!ToSet, Active, SourceInv, SourceTypes
  <2>2. Ready
    BY DEF SourceInv, SourceTypes
  <2>3. s \in 1 .. nSlots
    BY <2>2 DEF SourceInv, SlotsFilled
  <2>. QED  BY <2>1, <2>2, <2>3 DEF SourceInv, SlotsFilled
<1>. QED  BY <1>1, SourceSafe, PTL
-----------------------------------------------------------------------------
\* Of the registries a step changes nothing, or it loads a library.
LEMMA RegistryStep ==
  ASSUME [DumpNext]_<<readersVars, toolVars>>
  PROVE  UNCHANGED regVars \/ LoadLibrary
<1>. USE DEF rootVars
<1>1. CASE UNCHANGED <<readersVars, toolVars>>
  BY <1>1 DEF readersVars
<1>2. ASSUME NEW l \in Lists, MakeReader(l) PROVE UNCHANGED regVars
  BY <1>2 DEF MakeReader
<1>3. ASSUME NEW c, NEW index, NEW n, NEW request, ReadRoot(c, index, n, request) PROVE UNCHANGED regVars
  BY <1>3 DEF ReadRoot
<1>4. ASSUME NEW c, NEW index, NEW n, NEW names, ReadSio(c, index, n, names) PROVE UNCHANGED regVars
  BY <1>4 DEF ReadSio
<1>5. ASSUME ReadersNext PROVE UNCHANGED regVars \/ LoadLibrary
  <2>1. CASE LoadLibraries
    BY <2>1 DEF LoadLibraries
  <2>2. CASE WriteSio
    BY <2>2 DEF WriteSio
  <2>3. CASE \E l \in Lists : MakeReader(l)
    BY <1>2, <2>3
  <2>4. CASE \E c \in Categories : ReadFrame(c) \/ ReadNextFrame(c)
    BY <1>3, <1>4, <2>4 DEF ReadFrame, ReadNextFrame, Read
  <2>5. CASE ReadLegacy
    BY <2>5 DEF ReadLegacy
  <2>6. CASE RunSource
    BY <2>6 DEF RunSource
  <2>. QED  BY <1>5, <2>1, <2>2, <2>3, <2>4, <2>5, <2>6 DEF ReadersNext
<1>6. CASE tool = "none" /\ ReadersNext /\ UNCHANGED toolVars
  BY <1>5, <1>6
<1>7. CASE \E arguments \in Arguments : ParseArgs(arguments)
  BY <1>7 DEF ParseArgs, readersVars
<1>8. CASE OpenReader
  BY <1>2, <1>8 DEF OpenReader
<1>9. CASE DumpEDMDefinition
  BY <1>9 DEF DumpEDMDefinition, readersVars
<1>10. CASE ListEntries
  BY <1>10 DEF ListEntries
<1>11. CASE PrintFrame
  BY <1>3, <1>4, <1>11 DEF PrintFrame, ReadAll
<1>12. CASE EndLoop \/ CrashInStats
  BY <1>12 DEF EndLoop, CrashInStats, readersVars
<1>. QED  BY <1>1, <1>6, <1>7, <1>8, <1>9, <1>10, <1>11, <1>12 DEF DumpNext

\* The names of the definitions differ, each has the version of its library, and
\* the indices are those of the names.
DefinitionsInv ==
  /\ definitions \in Seq([name : {Libraries[l].model : l \in DOMAIN Libraries}, from : DOMAIN Libraries])
  /\ \A i, j \in DOMAIN definitions : definitions[i].name = definitions[j].name => i = j
  /\ \A i \in DOMAIN definitions : definitions[i].name \in DOMAIN versions
  /\ \A i \in DOMAIN definitions : versions[definitions[i].name] = Libraries[definitions[i].from].version
  /\ \A n \in DOMAIN versions : \E i \in DOMAIN definitions : definitions[i].name = n
  /\ \A l \in DOMAIN indices : indices[l] \in DOMAIN definitions /\ definitions[indices[l]].name = Libraries[l].model

\* No definition is registered at first.
LEMMA DefinitionsInit == RegInit => DefinitionsInv
  BY DEF RegInit, DefinitionsInv

\* A library adds its definition with its version, or finds one of its name.
LEMMA DefinitionsLoaded ==
  ASSUME DefinitionsInv, NEW l \in DOMAIN Libraries, RegisterDatamodel(l)
  PROVE  DefinitionsInv'
<1>. DEFINE lib == Libraries[l]
            D == [name : {Libraries[m].model : m \in DOMAIN Libraries}, from : DOMAIN Libraries]
            known == {i \in DOMAIN definitions : definitions[i].name = lib.model}
<1>1. definitions \in Seq(D) /\ DOMAIN definitions = 1 .. Len(definitions) /\ Len(definitions) \in Nat
  BY DEF DefinitionsInv
<1>2. versions' = Emplace(versions, lib.model, lib.version)
  BY DEF RegisterDatamodel, RegisterVersion
<1>3. CASE known = {}
  <2>. DEFINE d == [name |-> lib.model, from |-> l]
  <2>1. definitions' = Append(definitions, d) /\ indices' = Put(indices, l, Len(definitions) + 1)
    BY <1>3 DEF RegisterDatamodel
  <2>2. lib.model \notin DOMAIN versions
    BY <1>3 DEF DefinitionsInv
  <2>3. DOMAIN versions' = DOMAIN versions \cup {lib.model} /\ versions'[lib.model] = lib.version
        /\ \A n \in DOMAIN versions : versions'[n] = versions[n]
    BY <1>2, <2>2 DEF Emplace, Put
  <2>4. d \in D /\ d.name = lib.model /\ Libraries[d.from].version = lib.version
    OBVIOUS
  <2>. HIDE DEF d, D, lib
  <2>5. /\ definitions' \in Seq(D) /\ DOMAIN definitions' = DOMAIN definitions \cup {Len(definitions) + 1}
        /\ definitions'[Len(definitions) + 1] = d /\ \A i \in DOMAIN definitions : definitions'[i] = definitions[i]
    BY <1>1, <2>1, <2>4
  <2>6. Len(definitions) + 1 \notin DOMAIN definitions
    BY <1>1
  <2>7. \A i, j \in DOMAIN definitions' : definitions'[i].name = definitions'[j].name => i = j
    BY <1>3, <2>4, <2>5, <2>6 DEF DefinitionsInv
  <2>8. \A i \in DOMAIN definitions' : definitions'[i].name \in DOMAIN versions'
                                        /\ versions'[definitions'[i].name] = Libraries[definitions'[i].from].version
    BY <2>3, <2>4, <2>5 DEF DefinitionsInv
  <2>9. \A n \in DOMAIN versions' : \E i \in DOMAIN definitions' : definitions'[i].name = n
    BY <2>3, <2>4, <2>5 DEF DefinitionsInv
  <2>10. \A m \in DOMAIN indices' : indices'[m] \in DOMAIN definitions' /\ definitions'[indices'[m]].name = Libraries[m].model
    <3>1. DOMAIN indices' = DOMAIN indices \cup {l} /\ \A m \in DOMAIN indices' :
            indices'[m] = IF m = l THEN Len(definitions) + 1 ELSE indices[m]
      BY <2>1 DEF Put
    <3>. QED  BY <2>4, <2>5, <3>1 DEF DefinitionsInv, lib
  <2>. QED  BY <2>5, <2>7, <2>8, <2>9, <2>10 DEF DefinitionsInv, D
<1>4. CASE known # {}
  <2>1. PICK i \in known : indices' = Put(indices, l, i) /\ definitions' = definitions
    BY <1>4 DEF RegisterDatamodel
  <2>2. versions' = versions
    BY <1>2, <2>1 DEF DefinitionsInv, Emplace
  <2>3. DOMAIN indices' = DOMAIN indices \cup {l} /\ \A m \in DOMAIN indices' : indices'[m] = IF m = l THEN i ELSE indices[m]
    BY <2>1 DEF Put
  <2>. QED  BY <2>1, <2>2, <2>3 DEF DefinitionsInv
<1>. QED  BY <1>3, <1>4

\* Every step keeps the invariant of the definitions.
LEMMA DefinitionsPreserved ==
  ASSUME DefinitionsInv, [DumpNext]_<<readersVars, toolVars>>
  PROVE  DefinitionsInv'
<1>1. CASE UNCHANGED regVars
  BY <1>1 DEF regVars, DefinitionsInv
<1>2. CASE LoadLibrary
  <2>1. PICK l \in DOMAIN Libraries : LoadDatamodel(l) \/ LoadEvolutions(l)
    BY <1>2 DEF LoadLibrary
  <2>2. CASE LoadDatamodel(l)
    BY <2>2, DefinitionsLoaded DEF LoadDatamodel
  <2>3. CASE LoadEvolutions(l)
    BY <2>3 DEF LoadEvolutions, DefinitionsInv
  <2>. QED  BY <2>1, <2>2, <2>3
<1>. QED  BY <1>1, <1>2, RegistryStep

\* For any libraries in any order: what is written next to a definition fits it.
THEOREM DefinitionsHaveTheirVersions == DumpSpec => []DefinitionMatchesVersion
<1>1. ToolInit => DefinitionsInv
  BY DefinitionsInit DEF ToolInit, MCInit, Init
<1>2. DefinitionsInv => DefinitionMatchesVersion
  <2>. SUFFICES ASSUME DefinitionsInv, NEW l \in DOMAIN indices
                PROVE  LET name == GetDatamodelName(indices[l])
                       IN  /\ name = Libraries[l].model
                           /\ GetDatamodelVersion(name) = Libraries[GetDatamodelDefinition(name).from].version
    BY DEF DefinitionMatchesVersion
  <2>. DEFINE i == indices[l]
              name == definitions[i].name
  <2>1. i \in DOMAIN definitions /\ name = Libraries[l].model /\ DOMAIN definitions = 1 .. Len(definitions)
    BY DEF DefinitionsInv
  <2>2. GetDatamodelName(i) = name
    BY <2>1 DEF GetDatamodelName
  <2>3. SelectInSeq(definitions, LAMBDA d : d.name = name) = i
    <3>1. {k \in 1 .. Len(definitions) : definitions[k].name = name} = {i}
      BY <2>1 DEF DefinitionsInv
    <3>2. Min({i}) = i
      BY <2>1 DEF Min
    <3>. QED  BY <3>1, <3>2 DEF SelectInSeq
  <2>4. GetDatamodelDefinition(name) = definitions[i]
    BY <2>3 DEF GetDatamodelDefinition
  <2>5. GetDatamodelVersion(name) = Libraries[definitions[i].from].version
    BY <2>1 DEF DefinitionsInv, GetDatamodelVersion, At
  <2>. QED  BY <2>1, <2>2, <2>4, <2>5
<1>3. DumpSpec => []DefinitionsInv
  BY <1>1, DefinitionsPreserved, PTL DEF DumpSpec
<1>. QED  BY <1>2, <1>3, PTL
-----------------------------------------------------------------------------
\* What can be registered for a version, and a type with the version that it has.
Functions == {None, NoOp} \cup DOMAIN Libraries
IndexOf(index, schema) ==
  /\ index = [current |-> schema, funcs |-> index.funcs]
  /\ index.funcs \in Seq(Functions)
  /\ Len(index.funcs) \in {0, schema}

\* Each of some versions has the function, and the others keep theirs.
HasRegistered(r, index, fromVersions, schema, func) ==
  /\ IndexOf(r, schema) /\ Len(r.funcs) = schema
  /\ \A v \in 1 .. schema : v \in fromVersions => r.funcs[v] = func
  /\ \A v \in 1 .. schema : v \notin fromVersions /\ Len(index.funcs) # 0 => r.funcs[v] = index.funcs[v]

\* What a registration changes in the entry of a type.
LEMMA Registered ==
  ASSUME NEW schema \in Nat \ {0}, NEW index, IndexOf(index, schema), NEW fromVersions,
         NEW func \in Functions, NEW priority,
         NEW r, r = RegisterEvolutionFunc(index, fromVersions, schema, func, priority)
  PROVE  HasRegistered(r, index, fromVersions, schema, func)
<1>. DEFINE m == Resized(index.funcs, schema, None)
<1>1. index.funcs \in Seq(Functions) /\ None \in Functions /\ Len(index.funcs) \in Nat
  BY DEF IndexOf, Functions
<1>2. m \in Seq(Functions) /\ Len(m) = schema
  BY <1>1 DEF Resized, IndexOf
<1>3. Len(index.funcs) # 0 => \A v \in 1 .. schema : m[v] = index.funcs[v]
  BY <1>1 DEF Resized, IndexOf
<1>4. r = [current |-> schema, funcs |-> [v \in 1 .. schema |-> IF v \in fromVersions THEN func ELSE m[v]]]
  <2>1. DOMAIN m = 1 .. schema
    BY <1>2
  <2>2. index = [current |-> schema, funcs |-> index.funcs]
    BY DEF IndexOf
  <2>3. r = [index EXCEPT !.funcs = [v \in DOMAIN m |-> IF v \in fromVersions THEN func ELSE m[v]]]
    BY DEF RegisterEvolutionFunc
  <2>. HIDE DEF m
  <2>. DEFINE new == [v \in 1 .. schema |-> IF v \in fromVersions THEN func ELSE m[v]]
  <2>4. r = [index EXCEPT !.funcs = new]
    BY <2>1, <2>3
  <2>. HIDE DEF new
  <2>5. r = [current |-> schema, funcs |-> new]
    BY <2>2, <2>4
  <2>. QED  BY <2>5 DEF new
<1>. HIDE DEF m
<1>5. \A v \in 1 .. schema : m[v] \in Functions
  BY <1>2
<1>6. r.funcs = [v \in 1 .. schema |-> IF v \in fromVersions THEN func ELSE m[v]] /\ r.current = schema
  BY <1>4
<1>7. r.funcs \in Seq(Functions) /\ Len(r.funcs) = schema
  BY <1>5, <1>6
<1>8. r = [current |-> schema, funcs |-> r.funcs]
  BY <1>4, <1>6
<1>. QED  BY <1>3, <1>6, <1>7, <1>8 DEF IndexOf, HasRegistered

\* The names that types have, and those that they had.
NewNames == UNION {Libraries[l].types : l \in DOMAIN Libraries}
OldNames == UNION {DOMAIN Libraries[l].renamed : l \in DOMAIN Libraries}

\* What is made for a stored type: the buffers of its version, or for an old name the
\* first ones of a type that is registered, too.
Makes(t, schema) ==
  {BuffersOf(t, schema)} \cup {FirstOf(u) : u \in {x \in DOMAIN creators \cap NewNames : t \in OldNames}}

\* Each type goes by the version that its class has, and those that can be made
\* have a function for each version up to it.
EvolutionInv ==
  /\ \A t \in DOMAIN evolution : \E l \in DOMAIN Libraries :
       /\ t \in RegisteredTypes(l)
       /\ IndexOf(evolution[t], Libraries[l].schema)
       /\ Len(evolution[t].funcs) = Libraries[l].schema
  /\ \A t \in DOMAIN creators : \E l \in DOMAIN Libraries :
       /\ t \in GeneratedTypes(Libraries[l])
       /\ creators[t] \in [1 .. Libraries[l].schema -> Makes(t, Libraries[l].schema)]
       /\ t \in DOMAIN evolution
       /\ \A v \in 1 .. Libraries[l].schema : evolution[t].funcs[v] # None

\* No evolution function is registered at first.
LEMMA EvolutionInit == RegInit => EvolutionInv
  BY DEF RegInit, EvolutionInv

\* What is there of a type that a library registers fits the version of the library.
LEMMA IndexFits ==
  ASSUME EvolutionInv, NEW l \in DOMAIN Libraries, NEW t \in RegisteredTypes(l)
  PROVE  /\ Libraries[l].schema \in Nat \ {0}
         /\ IndexOf(At(evolution, t, NewIndex(Libraries[l].schema)), Libraries[l].schema)
         /\ t \in DOMAIN evolution => Len(evolution[t].funcs) = Libraries[l].schema
<1>1. Libraries[l].schema \in Nat \ {0}
  BY RegistriesAssumption
<1>2. CASE t \in DOMAIN evolution
  <2>1. PICK m \in DOMAIN Libraries : /\ t \in RegisteredTypes(m)
                                      /\ IndexOf(evolution[t], Libraries[m].schema)
                                      /\ Len(evolution[t].funcs) = Libraries[m].schema
    BY <1>2 DEF EvolutionInv
  <2>2. Libraries[m].schema = Libraries[l].schema
    BY <2>1, TypesAssumption
  <2>. QED  BY <1>1, <1>2, <2>1, <2>2 DEF At
<1>3. CASE t \notin DOMAIN evolution
  BY <1>1, <1>3 DEF At, NewIndex, IndexOf
<1>. QED  BY <1>2, <1>3

\* To register a function for the last version of a type, or one for a version that is there.
LEMMA FuncRegistered ==
  ASSUME NEW S, NEW versionMap \in Seq(S), NEW n \in Nat \ {0}, Len(versionMap) \in {0, n}, NEW func \in S,
         NEW version \in 1 .. n, version = n \/ Len(versionMap) = n
  PROVE  RegisterCreationFunc(versionMap, version, func) \in [1 .. n -> S]
<1>1. CASE Len(versionMap) = n
  <2>1. versionMap \in [1 .. n -> S]
    BY <1>1
  <2>2. RegisterCreationFunc(versionMap, version, func) = [versionMap EXCEPT ![version] = func]
    BY <1>1 DEF RegisterCreationFunc
  <2>. QED  BY <2>1, <2>2
<1>2. CASE Len(versionMap) = 0 /\ version = n
  <2>1. versionMap = <<>>
    BY <1>2
  <2>2. RegisterCreationFunc(versionMap, version, func) = <<>> \o [i \in 1 .. n |-> func]
    BY <1>2, <2>1 DEF RegisterCreationFunc, Resized
  <2>3. [i \in 1 .. n |-> func] \in Seq(S)
    OBVIOUS
  <2>4. <<>> \o [i \in 1 .. n |-> func] = [i \in 1 .. n |-> func]
    BY <2>3
  <2>. QED  BY <2>2, <2>4
<1>. QED  BY <1>1, <1>2

\* A datamodel library gives its types functions for every version up to its own.
LEMMA CollectionsRegistered ==
  ASSUME EvolutionInv, NEW l \in DOMAIN Libraries, RegisterCollections(Libraries[l])
  PROVE  EvolutionInv'
<1>. DEFINE lib == Libraries[l]
            n == lib.schema
            G == GeneratedTypes(lib)
            r(t) == AutoGenerated(At(evolution, t, NewIndex(n)), n)
<1>1. /\ DOMAIN creators' = DOMAIN creators \cup G
      /\ \A t \in G : creators'[t] = RegisterCreationFuncs(At(creators, t, <<>>), lib, t)
      /\ \A t \in DOMAIN creators \ G : creators'[t] = creators[t]
  BY DEF RegisterCollections
<1>2. /\ DOMAIN evolution' = DOMAIN evolution \cup G
      /\ \A t \in G : evolution'[t] = r(t)
      /\ \A t \in DOMAIN evolution \ G : evolution'[t] = evolution[t]
  BY DEF RegisterCollections
<1>. HIDE DEF r
<1>3. ASSUME NEW t \in G
      PROVE  IndexOf(r(t), n) /\ Len(r(t).funcs) = n /\ \A v \in 1 .. n : r(t).funcs[v] = NoOp
  <2>1. n \in Nat \ {0} /\ IndexOf(At(evolution, t, NewIndex(n)), n) /\ NoOp \in Functions
    BY IndexFits DEF RegisteredTypes, Functions
  <2>2. r(t) = RegisterEvolutionFunc(At(evolution, t, NewIndex(n)), 1 .. n, n, NoOp, "AutoGenerated")
    BY DEF r, AutoGenerated
  <2>3. HasRegistered(r(t), At(evolution, t, NewIndex(n)), 1 .. n, n, NoOp)
    <3>1. n \in Nat \ {0} /\ NoOp \in Functions
      BY <2>1
    <3>. HIDE DEF n
    <3>. QED  BY <2>1, <2>2, <3>1, Registered, Zenon
  <2>. HIDE DEF n
  <2>. QED  BY <2>3 DEF HasRegistered
<1>. DEFINE M(t, k) == {BuffersOf(t, k)} \cup {FirstOf(u) : u \in {x \in DOMAIN creators' \cap NewNames : t \in OldNames}}
<1>4. \A t, k : Makes(t, k) \subseteq M(t, k) /\ M(t, k) = Makes(t, k)'
  BY <1>1 DEF Makes
<1>5. ASSUME NEW t \in G PROVE creators'[t] \in [1 .. n -> M(t, n)]
  <2>. DEFINE S == M(t, n)
              versionMap == At(creators, t, <<>>)
              own == RegisterCreationFunc(versionMap, n, BuffersOf(t, n))
  <2>1. n \in Nat \ {0} /\ n \in 1 .. n
    BY RegistriesAssumption
  <2>2. versionMap \in Seq(S) /\ Len(versionMap) \in {0, n}
    <3>1. CASE t \in DOMAIN creators
      <4>1. PICK m \in DOMAIN Libraries : /\ t \in GeneratedTypes(Libraries[m])
                                          /\ creators[t] \in [1 .. Libraries[m].schema -> Makes(t, Libraries[m].schema)]
        BY <3>1 DEF EvolutionInv
      <4>2. Libraries[m].schema = n
        BY <4>1, TypesAssumption DEF RegisteredTypes
      <4>3. creators[t] \in [1 .. n -> Makes(t, n)] /\ Makes(t, n) \subseteq S
        BY <1>4, <4>1, <4>2
      <4>4. versionMap = creators[t]
        BY <3>1 DEF At
      <4>. HIDE DEF S, n, versionMap
      <4>5. creators[t] \in [1 .. n -> S]
        BY <4>3
      <4>. QED  BY <2>1, <4>4, <4>5
    <3>2. CASE t \notin DOMAIN creators
      <4>1. versionMap = <<>>
        BY <3>2 DEF At
      <4>. HIDE DEF versionMap, S
      <4>. QED  BY <4>1
    <3>. QED  BY <3>1, <3>2
  <2>3. BuffersOf(t, n) \in S
    OBVIOUS
  <2>4. own \in [1 .. n -> S]
    <3>. DEFINE b == BuffersOf(t, n)
    <3>1. b \in S
      BY <2>3
    <3>. HIDE DEF S, n, versionMap, b
    <3>2. RegisterCreationFunc(versionMap, n, b) \in [1 .. n -> S]
      BY <2>1, <2>2, <3>1, FuncRegistered
    <3>. QED  BY <3>2 DEF b, n
  <2>5. creators'[t] = IF t \notin DOMAIN lib.renamed THEN own
                       ELSE RegisterCreationFunc(own, lib.renamed[t].from, FirstOf(lib.renamed[t].to))
    BY <1>1 DEF RegisterCreationFuncs
  <2>6. CASE t \in DOMAIN lib.renamed
    <3>. DEFINE from == lib.renamed[t].from
                to == lib.renamed[t].to
                b == FirstOf(to)
    <3>1. from \in 1 .. n - 1 /\ to \in lib.types
      BY <2>6, RegistriesAssumption
    <3>2. b \in S
      <4>1. to \in DOMAIN creators' /\ to \in NewNames /\ t \in OldNames
        BY <1>1, <2>6, <3>1 DEF NewNames, OldNames, GeneratedTypes
      <4>. QED  BY <4>1
    <3>3. creators'[t] = RegisterCreationFunc(own, from, b)
      BY <2>5, <2>6
    <3>. HIDE DEF S, n, own, from, b
    <3>4. own \in Seq(S) /\ Len(own) = n /\ from \in 1 .. n
      BY <2>1, <2>4, <3>1
    <3>5. RegisterCreationFunc(own, from, b) \in [1 .. n -> S]
      BY <2>1, <3>2, <3>4, FuncRegistered
    <3>. QED  BY <3>3, <3>5 DEF S, n
  <2>. HIDE DEF own
  <2>. QED  BY <2>4, <2>5, <2>6
<1>. HIDE DEF M
<1>6. NoOp # None
  BY DEF NoOp, None
<1>7. \A t \in DOMAIN evolution' : \E m \in DOMAIN Libraries :
        /\ t \in RegisteredTypes(m)
        /\ IndexOf(evolution'[t], Libraries[m].schema)
        /\ Len(evolution'[t].funcs) = Libraries[m].schema
  <2>. SUFFICES ASSUME NEW t \in DOMAIN evolution'
                PROVE  \E m \in DOMAIN Libraries : /\ t \in RegisteredTypes(m)
                                                   /\ IndexOf(evolution'[t], Libraries[m].schema)
                                                   /\ Len(evolution'[t].funcs) = Libraries[m].schema
    OBVIOUS
  <2>1. CASE t \in G
    BY <1>2, <1>3, <2>1 DEF RegisteredTypes
  <2>2. CASE t \notin G
    BY <1>2, <2>2 DEF EvolutionInv
  <2>. QED  BY <2>1, <2>2
<1>8. \A t \in DOMAIN creators' : \E m \in DOMAIN Libraries :
        /\ t \in GeneratedTypes(Libraries[m])
        /\ creators'[t] \in [1 .. Libraries[m].schema -> Makes(t, Libraries[m].schema)']
        /\ t \in DOMAIN evolution'
        /\ \A v \in 1 .. Libraries[m].schema : evolution'[t].funcs[v] # None
  <2>. SUFFICES ASSUME NEW t \in DOMAIN creators'
                PROVE  \E m \in DOMAIN Libraries :
                         /\ t \in GeneratedTypes(Libraries[m])
                         /\ creators'[t] \in [1 .. Libraries[m].schema -> Makes(t, Libraries[m].schema)']
                         /\ t \in DOMAIN evolution'
                         /\ \A v \in 1 .. Libraries[m].schema : evolution'[t].funcs[v] # None
    OBVIOUS
  <2>1. CASE t \in G
    <3>1. t \in DOMAIN evolution' /\ evolution'[t] = r(t)
      BY <1>2, <2>1
    <3>2. \A v \in 1 .. n : r(t).funcs[v] = NoOp
      BY <1>3, <2>1
    <3>3. \A v \in 1 .. n : evolution'[t].funcs[v] # None
      BY <1>6, <3>1, <3>2
    <3>4. creators'[t] \in [1 .. n -> Makes(t, n)']
      BY <1>4, <1>5, <2>1
    <3>. WITNESS l \in DOMAIN Libraries
    <3>. HIDE DEF n
    <3>. QED  BY <2>1, <3>1, <3>3, <3>4 DEF n
  <2>2. CASE t \notin G
    <3>1. t \in DOMAIN creators /\ creators'[t] = creators[t]
      BY <1>1, <2>2
    <3>2. PICK m \in DOMAIN Libraries :
            /\ t \in GeneratedTypes(Libraries[m])
            /\ creators[t] \in [1 .. Libraries[m].schema -> Makes(t, Libraries[m].schema)]
            /\ t \in DOMAIN evolution
            /\ \A v \in 1 .. Libraries[m].schema : evolution[t].funcs[v] # None
      BY <3>1 DEF EvolutionInv
    <3>3. t \in DOMAIN evolution' /\ evolution'[t] = evolution[t]
      BY <1>2, <2>2, <3>2
    <3>4. Makes(t, Libraries[m].schema) \subseteq Makes(t, Libraries[m].schema)'
      BY <1>4
    <3>5. creators'[t] \in [1 .. Libraries[m].schema -> Makes(t, Libraries[m].schema)']
      BY <3>1, <3>2, <3>4
    <3>. QED  BY <3>2, <3>3, <3>5
  <2>. QED  BY <2>1, <2>2
<1>. QED  BY <1>7, <1>8 DEF EvolutionInv

\* A library of a user replaces functions and removes none.
LEMMA EvolutionsLoaded ==
  ASSUME EvolutionInv, NEW l \in DOMAIN Libraries, LoadEvolutions(l)
  PROVE  EvolutionInv'
<1>. DEFINE lib == Libraries[l]
            n == lib.schema
            froms(t) == {e.from : e \in {x \in lib.evolves : x.type = t}}
            r(t) == RegisterEvolutionFunc(At(evolution, t, NewIndex(n)), froms(t), n, l, "UserDefined")
<1>1. /\ DOMAIN evolution' = DOMAIN evolution \cup {e.type : e \in lib.evolves}
      /\ \A t \in DOMAIN evolution' : evolution'[t] = IF froms(t) = {} THEN evolution[t] ELSE r(t)
      /\ UNCHANGED creators /\ \A t, k : Makes(t, k)' = Makes(t, k)
  BY DEF LoadEvolutions, Makes
<1>2. \A t : froms(t) = {} <=> t \notin {e.type : e \in lib.evolves}
  OBVIOUS
<1>. HIDE DEF r, froms
<1>3. ASSUME NEW t, froms(t) # {}
      PROVE  /\ t \in RegisteredTypes(l) /\ IndexOf(r(t), n) /\ Len(r(t).funcs) = n
             /\ t \in DOMAIN evolution =>
                  \A v \in 1 .. n : r(t).funcs[v] = l \/ r(t).funcs[v] = evolution[t].funcs[v]
  <2>1. t \in RegisteredTypes(l) /\ l \in Functions
    BY <1>2, <1>3 DEF RegisteredTypes, Functions
  <2>2. /\ n \in Nat \ {0} /\ IndexOf(At(evolution, t, NewIndex(n)), n)
        /\ t \in DOMAIN evolution => At(evolution, t, NewIndex(n)) = evolution[t] /\ Len(evolution[t].funcs) = n
    BY <2>1, IndexFits DEF At
  <2>3. r(t) = RegisterEvolutionFunc(At(evolution, t, NewIndex(n)), froms(t), n, l, "UserDefined")
    BY DEF r
  <2>4. HasRegistered(r(t), At(evolution, t, NewIndex(n)), froms(t), n, l)
    <3>1. n \in Nat \ {0}
      BY <2>2
    <3>. HIDE DEF n
    <3>. QED  BY <2>1, <2>2, <2>3, <3>1, Registered, Zenon
  <2>. HIDE DEF n
  <2>. QED  BY <2>1, <2>2, <2>4 DEF HasRegistered
<1>4. l # None
  BY TypesAssumption
<1>5. \A t \in DOMAIN evolution' : \E m \in DOMAIN Libraries :
        /\ t \in RegisteredTypes(m)
        /\ IndexOf(evolution'[t], Libraries[m].schema)
        /\ Len(evolution'[t].funcs) = Libraries[m].schema
  <2>. SUFFICES ASSUME NEW t \in DOMAIN evolution'
                PROVE  \E m \in DOMAIN Libraries : /\ t \in RegisteredTypes(m)
                                                   /\ IndexOf(evolution'[t], Libraries[m].schema)
                                                   /\ Len(evolution'[t].funcs) = Libraries[m].schema
    OBVIOUS
  <2>1. CASE froms(t) # {}
    BY <1>1, <1>3, <2>1
  <2>2. CASE froms(t) = {}
    BY <1>1, <1>2, <2>2 DEF EvolutionInv
  <2>. QED  BY <2>1, <2>2
<1>6. \A t \in DOMAIN creators' : \E m \in DOMAIN Libraries :
        /\ t \in GeneratedTypes(Libraries[m])
        /\ creators'[t] \in [1 .. Libraries[m].schema -> Makes(t, Libraries[m].schema)']
        /\ t \in DOMAIN evolution'
        /\ \A v \in 1 .. Libraries[m].schema : evolution'[t].funcs[v] # None
  <2>. SUFFICES ASSUME NEW t \in DOMAIN creators
                PROVE  \E m \in DOMAIN Libraries :
                         /\ t \in GeneratedTypes(Libraries[m])
                         /\ creators[t] \in [1 .. Libraries[m].schema -> Makes(t, Libraries[m].schema)]
                         /\ t \in DOMAIN evolution'
                         /\ \A v \in 1 .. Libraries[m].schema : evolution'[t].funcs[v] # None
    BY <1>1
  <2>1. PICK m \in DOMAIN Libraries :
          /\ t \in GeneratedTypes(Libraries[m])
          /\ creators[t] \in [1 .. Libraries[m].schema -> Makes(t, Libraries[m].schema)]
          /\ t \in DOMAIN evolution
          /\ \A v \in 1 .. Libraries[m].schema : evolution[t].funcs[v] # None
    BY DEF EvolutionInv
  <2>2. CASE froms(t) # {}
    <3>1. Libraries[m].schema = n
      BY <1>3, <2>1, <2>2, TypesAssumption DEF RegisteredTypes
    <3>2. evolution'[t] = r(t)
      BY <1>1, <2>1, <2>2
    <3>. HIDE DEF n
    <3>. QED  BY <1>1, <1>3, <1>4, <2>1, <2>2, <3>1, <3>2
  <2>3. CASE froms(t) = {}
    BY <1>1, <2>1, <2>3
  <2>. QED  BY <2>2, <2>3
<1>. QED  BY <1>5, <1>6 DEF EvolutionInv

\* Every step keeps the invariant of the evolution functions.
LEMMA EvolutionPreserved ==
  ASSUME EvolutionInv, [DumpNext]_<<readersVars, toolVars>>
  PROVE  EvolutionInv'
<1>1. CASE UNCHANGED regVars
  BY <1>1 DEF regVars, EvolutionInv, Makes
<1>2. CASE LoadLibrary
  BY <1>2, CollectionsRegistered, EvolutionsLoaded DEF LoadLibrary, LoadDatamodel
<1>. QED  BY <1>1, <1>2, RegistryStep

\* For any libraries in any order: what can be made of an old version can be
\* brought to the current one.
THEOREM MadeCanEvolve == DumpSpec => []ReadableEvolves
<1>1. ToolInit => EvolutionInv
  BY EvolutionInit DEF ToolInit, MCInit, Init
<1>2. EvolutionInv => ReadableEvolves
  <2>. SUFFICES ASSUME EvolutionInv, NEW t \in DOMAIN creators, NEW v \in DOMAIN creators[t], NEW b, b = CreateBuffers(t, v)
                PROVE  b # NoBuffers /\ EvolveBuffers(v, b.type) # None /\ b.schema = evolution[b.type].current
    BY DEF ReadableEvolves
  <2>1. PICK l \in DOMAIN Libraries :
          /\ t \in GeneratedTypes(Libraries[l])
          /\ creators[t] \in [1 .. Libraries[l].schema -> Makes(t, Libraries[l].schema)]
          /\ t \in DOMAIN evolution
          /\ \A k \in 1 .. Libraries[l].schema : evolution[t].funcs[k] # None
    BY DEF EvolutionInv
  <2>2. Libraries[l].schema \in Nat \ {0} /\ v \in 1 .. Libraries[l].schema /\ creators[t][v] \in Makes(t, Libraries[l].schema)
    BY <2>1, RegistriesAssumption
  <2>3. ASSUME NEW u, NEW m \in DOMAIN Libraries, u \in DOMAIN evolution, u \in GeneratedTypes(Libraries[m]),
               \A k \in 1 .. Libraries[m].schema : evolution[u].funcs[k] # None,
               b = BuffersOf(u, Libraries[m].schema)
        PROVE  b # NoBuffers /\ EvolveBuffers(v, b.type) # None /\ b.schema = evolution[b.type].current
    <3>1. Libraries[m].schema \in Nat \ {0} /\ b.type = u /\ b.schema = Libraries[m].schema
      BY <2>3, RegistriesAssumption DEF BuffersOf
    <3>2. IndexOf(evolution[u], Libraries[m].schema) /\ Len(evolution[u].funcs) = Libraries[m].schema
      BY <2>3, IndexFits DEF RegisteredTypes, At
    <3>3. evolution[u].current = Libraries[m].schema
      BY <3>2 DEF IndexOf
    <3>4. b # NoBuffers
      BY <3>1 DEF NoBuffers, BuffersOf
    <3>5. EvolveBuffers(v, u) # None
      BY <2>2, <2>3, <3>1, <3>2, <3>3 DEF EvolveBuffers, NoOp, None
    <3>. QED  BY <3>1, <3>3, <3>4, <3>5
  <2>. DEFINE made == creators[t][v]
  <2>4. /\ made # NoBuffers /\ made = FirstOf(made.type) =>
             b = IF 1 \in DOMAIN At(creators, made.type, <<>>) THEN creators[made.type][1] ELSE NoBuffers
        /\ ~(made # NoBuffers /\ made = FirstOf(made.type)) => b = made
    BY DEF CreateBuffers, At
  <2>5. CASE made = BuffersOf(t, Libraries[l].schema)
    <3>1. made.type = t /\ made.schema # 0 /\ FirstOf(t).schema = 0
      BY <2>2, <2>5 DEF BuffersOf, FirstOf
    <3>2. b = made
      <4>. HIDE DEF made
      <4>. QED  BY <2>4, <3>1
    <3>. QED  BY <2>1, <2>3, <2>5, <3>2
  <2>6. ASSUME NEW u \in DOMAIN creators \cap NewNames, made = FirstOf(u)
        PROVE  b # NoBuffers /\ EvolveBuffers(v, b.type) # None /\ b.schema = evolution[b.type].current
    <3>1. PICK m \in DOMAIN Libraries :
            /\ u \in GeneratedTypes(Libraries[m])
            /\ creators[u] \in [1 .. Libraries[m].schema -> Makes(u, Libraries[m].schema)]
            /\ u \in DOMAIN evolution
            /\ \A k \in 1 .. Libraries[m].schema : evolution[u].funcs[k] # None
      BY DEF EvolutionInv
    <3>2. u # None /\ u \notin OldNames
      BY <2>6, RegistriesAssumption, TypesAssumption DEF NewNames, OldNames
    <3>3. made.type = u /\ made # NoBuffers
      BY <2>6, <3>2 DEF FirstOf, BuffersOf, NoBuffers
    <3>4. 1 \in 1 .. Libraries[m].schema
      BY RegistriesAssumption
    <3>5. creators[u][1] = BuffersOf(u, Libraries[m].schema)
      BY <3>1, <3>2, <3>4 DEF Makes
    <3>6. 1 \in DOMAIN At(creators, u, <<>>)
      BY <3>1, <3>4 DEF At
    <3>7. b = creators[u][1]
      <4>. HIDE DEF made
      <4>. QED  BY <2>4, <2>6, <3>3, <3>6
    <3>. QED  BY <2>3, <3>1, <3>5, <3>7
  <2>. HIDE DEF made
  <2>7. made = BuffersOf(t, Libraries[l].schema) \/ \E u \in DOMAIN creators \cap NewNames : made = FirstOf(u)
    BY <2>2 DEF Makes, made
  <2>. QED  BY <2>5, <2>6, <2>7
<1>3. DumpSpec => []EvolutionInv
  BY <1>1, EvolutionPreserved, PTL DEF DumpSpec
<1>. QED  BY <1>2, <1>3, PTL
=============================================================================
