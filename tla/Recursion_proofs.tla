--------------------------- MODULE Recursion_proofs ---------------------------
(***************************************************************************)
(* Functions that are defined by recursion over the natural numbers, and   *)
(* what the other proofs need of them: Induction states induction for sets *)
(* of numbers; a recursive definition has a function (Recursion), and it   *)
(* is the only one (RunOfSteps); partial sums, sequences that are          *)
(* flattened, and the sequence of the elements of a set.                   *)
(***************************************************************************)
EXTENDS Integers, SequencesExt, TLAPS, FiniteSetTheorems, WellFoundedInduction

\* A number that is in a part of a sum has a place in the part.
LEMMA PlaceIn ==
  \A low, high, size, n \in Nat :
    high = low + size /\ low <= n /\ n < high => n - low + 1 \in 1 .. size /\ low + (n - low + 1) = n + 1
  OBVIOUS

\* And what has a place in a part is in the whole.
LEMMA BelowIn ==
  \A low, high, size, end \in Nat :
    high = low + size /\ high <= end => \A l \in 1 .. size : low + l \in 1 .. end
  OBVIOUS

\* Natural numbers are well-founded.
LEMMA LessWF ==
  \E R : IsWellFoundedOn(R, Nat) /\ \A i, j \in Nat : i < j => <<i, j>> \in R
<1>. DEFINE R == OpToRel(<, Nat)
<1>1. IsWellFoundedOn(R, Nat)
  BY NatLessThanWellFounded
<1>2. \A i, j \in Nat : i < j => <<i, j>> \in R
  BY DEF OpToRel
<1>. HIDE DEF R
<1>. QED  BY <1>1, <1>2

\* A set of natural numbers has a least element.
LEMMA Least ==
  ASSUME NEW T, T \subseteq Nat, T # {}
  PROVE  \E m \in T : \A n \in T : m <= n
<1>1. PICK R : IsWellFoundedOn(R, Nat) /\ \A i, j \in Nat : i < j => <<i, j>> \in R
  BY LessWF
<1>2. PICK x \in T : \A y \in T : ~ (<<y, x>> \in R)
  <2>1. IsWellFoundedOn(R, Nat)
    BY <1>1
  <2>. QED  BY ONLY <2>1, T \subseteq Nat, T # {}, WFMin, Zenon
<1>3. \A y \in T : ~ (y < x)
  BY <1>1, <1>2
<1>. QED  BY <1>3

\* Induction over the natural numbers, for a set of them.
LEMMA Induction ==
  ASSUME NEW S, 0 \in S, \A n \in Nat : n \in S => n + 1 \in S
  PROVE  Nat \subseteq S
<1>. SUFFICES ASSUME NEW k \in Nat, k \notin S PROVE FALSE
  OBVIOUS
<1>. DEFINE T == Nat \ S
<1>1. PICK m \in T : \A n \in T : m <= n
  <2>1. T \subseteq Nat /\ T # {}
    OBVIOUS
  <2>. HIDE DEF T
  <2>. QED  BY <2>1, Least
<1>2. m - 1 \in Nat /\ m - 1 \in S
  BY <1>1
<1>. QED  BY <1>2

\* F takes n steps in S.
IsStep(S, n, F) == F \in [S \X (1 .. n) -> S]

\* What is reached from b after each of the steps.
IsRun(S, b, n, F, f) ==
  f \in [0 .. n -> S] /\ f[0] = b /\ \A k \in 1 .. n : f[k] = F[<<f[k - 1], k>>]

\* A function can be defined by such steps.
LEMMA Recursion ==
  ASSUME NEW S, NEW b \in S, NEW n \in Nat, NEW F, IsStep(S, n, F)
  PROVE  \E f : IsRun(S, b, n, F, f)
<1>. USE DEF IsStep, IsRun
<1>. DEFINE Upto(m) == \E f \in [0 .. m -> S] : f[0] = b /\ \A k \in 1 .. m : f[k] = F[<<f[k - 1], k>>]
            T == {m \in Nat : m <= n => Upto(m)}
<1>1. 0 \in T
  <2>. DEFINE f == [k \in 0 .. 0 |-> b]
  <2>1. f \in [0 .. 0 -> S] /\ f[0] = b /\ \A k \in 1 .. 0 : f[k] = F[<<f[k - 1], k>>]
    OBVIOUS
  <2>. HIDE DEF f
  <2>. QED  BY <2>1
<1>2. ASSUME NEW m \in Nat, m \in T PROVE m + 1 \in T
  <2>1. SUFFICES ASSUME m + 1 <= n PROVE Upto(m + 1)
    OBVIOUS
  <2>2. PICK f \in [0 .. m -> S] : f[0] = b /\ \A k \in 1 .. m : f[k] = F[<<f[k - 1], k>>]
    BY <1>2, <2>1
  <2>. DEFINE g == [k \in 0 .. m + 1 |-> IF k = m + 1 THEN F[<<f[m], m + 1>>] ELSE f[k]]
  <2>3. F[<<f[m], m + 1>>] \in S
    BY <2>1, <2>2
  <2>4. g \in [0 .. m + 1 -> S] /\ g[0] = b
    BY <2>2, <2>3
  <2>5. ASSUME NEW k \in 1 .. m + 1 PROVE g[k] = F[<<g[k - 1], k>>]
    <3>1. k - 1 \in 0 .. m + 1 /\ k - 1 # m + 1 /\ k \in 0 .. m + 1
      OBVIOUS
    <3>2. g[k - 1] = f[k - 1]
      BY <3>1
    <3>3. CASE k = m + 1
      <4>1. g[k] = F[<<f[m], m + 1>>] /\ k - 1 = m
        BY <3>1, <3>3
      <4>. QED  BY <3>2, <3>3, <4>1
    <3>4. CASE k # m + 1
      BY <2>2, <3>1, <3>2, <3>4
    <3>. QED  BY <3>3, <3>4
  <2>. HIDE DEF g
  <2>. QED  BY <2>4, <2>5
<1>. HIDE DEF T
<1>3. n \in T
  BY <1>1, <1>2, Induction
<1>. QED  BY <1>3 DEF T

\* A function whose value at k comes from that at k - 1 by a step is such a run.
LEMMA RunOfSteps ==
  ASSUME NEW S, NEW b \in S, NEW n \in Nat, NEW F, IsStep(S, n, F),
         NEW g, g = [k \in 0 .. n |-> g[k]], g[0] = b,
         \A k \in 1 .. n : g[k - 1] \in S => g[k] = F[<<g[k - 1], k>>]
  PROVE  IsRun(S, b, n, F, g)
<1>. DEFINE T == {m \in Nat : m <= n => g[m] \in S}
<1>1. 0 \in T
  OBVIOUS
<1>2. ASSUME NEW m \in Nat, m \in T PROVE m + 1 \in T
  <2>1. SUFFICES ASSUME m + 1 <= n PROVE g[m + 1] \in S
    OBVIOUS
  <2>2. g[m] \in S /\ m + 1 \in 1 .. n /\ (m + 1) - 1 = m
    BY <1>2, <2>1
  <2>3. g[m + 1] = F[<<g[m], m + 1>>]
    BY <2>2
  <2>4. F[<<g[m], m + 1>>] \in S
    BY <2>2 DEF IsStep
  <2>. QED  BY <2>3, <2>4
<1>. HIDE DEF T
<1>3. Nat \subseteq T
  BY <1>1, <1>2, Induction
<1>4. \A k \in 0 .. n : g[k] \in S
  BY <1>3 DEF T
<1>5. g \in [0 .. n -> S]
  BY <1>4
<1>6. \A k \in 1 .. n : g[k] = F[<<g[k - 1], k>>]
  BY <1>4
<1>. QED  BY <1>5, <1>6 DEF IsRun

\* The partial sums of a sequence of numbers.
PartialSums(s, f) ==
  f \in [0 .. Len(s) -> Nat] /\ f[0] = 0 /\ \A k \in 1 .. Len(s) : f[k] = f[k - 1] + s[k]

\* Partial sums are numbers, as what is added is.
LEMMA SumsType ==
  ASSUME NEW s \in Seq(Nat), NEW g, PartialSums(s, g)
  PROVE  /\ Len(s) \in Nat /\ g[0] = 0
         /\ \A k \in 0 .. Len(s) : g[k] \in Nat
         /\ \A k \in 1 .. Len(s) : g[k] = g[k - 1] + s[k] /\ s[k] \in Nat
<1>1. Len(s) \in Nat /\ \A k \in 1 .. Len(s) : s[k] \in Nat
  OBVIOUS
<1>2. g \in [0 .. Len(s) -> Nat] /\ g[0] = 0 /\ \A k \in 1 .. Len(s) : g[k] = g[k - 1] + s[k]
  BY DEF PartialSums
<1>. QED  BY <1>1, <1>2

\* Partial sums do not go down.
LEMMA SumsGrow ==
  ASSUME NEW s \in Seq(Nat), NEW g, PartialSums(s, g), NEW i \in 0 .. Len(s), NEW j \in i .. Len(s)
  PROVE  g[i] <= g[j]
<1>. DEFINE T == {m \in Nat : m >= i /\ m <= Len(s) => g[i] <= g[m]}
<1>1. Len(s) \in Nat /\ (\A k \in 0 .. Len(s) : g[k] \in Nat) /\ \A k \in 1 .. Len(s) : g[k] = g[k - 1] + s[k] /\ s[k] \in Nat
  BY SumsType
<1>2. 0 \in T
  BY <1>1
<1>3. ASSUME NEW m \in Nat, m \in T PROVE m + 1 \in T
  <2>1. SUFFICES ASSUME m + 1 >= i, m + 1 <= Len(s) PROVE g[i] <= g[m + 1]
    OBVIOUS
  <2>2. m + 1 \in 1 .. Len(s) /\ m \in 0 .. Len(s) /\ (m + 1) - 1 = m
    BY <1>1, <2>1
  <2>3. g[m + 1] = g[m] + s[m + 1] /\ s[m + 1] \in Nat /\ g[m] \in Nat /\ g[i] \in Nat
    BY <1>1, <2>2
  <2>4. CASE i = m + 1
    BY <2>3, <2>4
  <2>5. CASE i # m + 1
    <3>1. m >= i
      BY <2>1, <2>5
    <3>2. g[i] <= g[m]
      BY <1>1, <1>3, <2>1, <3>1
    <3>. QED  BY <2>3, <3>2
  <2>. QED  BY <2>4, <2>5
<1>. HIDE DEF T
<1>4. Nat \subseteq T
  BY <1>2, <1>3, Induction
<1>. QED  BY <1>1, <1>4 DEF T

\* Partial sums are the only ones of their sequence.
LEMMA SumsSame ==
  ASSUME NEW s \in Seq(Nat), NEW f, PartialSums(s, f), NEW g, PartialSums(s, g), NEW k \in 0 .. Len(s)
  PROVE  f[k] = g[k]
<1>. DEFINE T == {m \in Nat : m <= Len(s) => f[m] = g[m]}
<1>1. Len(s) \in Nat /\ f[0] = g[0] /\ \A m \in 1 .. Len(s) : f[m] = f[m - 1] + s[m] /\ g[m] = g[m - 1] + s[m]
  BY SumsType
<1>2. 0 \in T
  BY <1>1
<1>3. ASSUME NEW m \in Nat, m \in T PROVE m + 1 \in T
  <2>1. SUFFICES ASSUME m + 1 <= Len(s) PROVE f[m + 1] = g[m + 1]
    OBVIOUS
  <2>2. m + 1 \in 1 .. Len(s) /\ (m + 1) - 1 = m /\ f[m] = g[m]
    BY <1>1, <1>3, <2>1
  <2>. QED  BY <1>1, <2>2
<1>. HIDE DEF T
<1>4. Nat \subseteq T
  BY <1>2, <1>3, Induction
<1>. QED  BY <1>1, <1>4 DEF T

\* A number below the sum is in one of the parts that are added.
LEMMA Located ==
  ASSUME NEW s \in Seq(Nat), NEW g, PartialSums(s, g), NEW n \in Nat, n < g[Len(s)]
  PROVE  \E t \in 1 .. Len(s) : g[t - 1] <= n /\ n < g[t]
<1>. DEFINE T == {t \in 0 .. Len(s) : n < g[t]}
<1>1. Len(s) \in Nat /\ g[0] = 0 /\ \A k \in 0 .. Len(s) : g[k] \in Nat
  BY SumsType
<1>2. T \subseteq Nat /\ T # {}
  BY <1>1
<1>3. PICK t \in T : \A k \in T : t <= k
  <2>. HIDE DEF T
  <2>. QED  BY <1>2, Least
<1>4. t # 0 /\ t \in 1 .. Len(s) /\ t - 1 \in 0 .. Len(s)
  BY <1>1
<1>5. ~(n < g[t - 1])
  BY <1>3, <1>4
<1>6. g[t - 1] <= n /\ n < g[t]
  <2>1. g[t - 1] \in Nat /\ n < g[t]
    BY <1>1, <1>4
  <2>. HIDE DEF T
  <2>. QED  BY <1>5, <2>1
<1>. HIDE DEF T
<1>. QED  BY <1>4, <1>6

\* A number is in one part only.
LEMMA LocatedOnce ==
  ASSUME NEW s \in Seq(Nat), NEW g, PartialSums(s, g), NEW n \in Nat,
         NEW t \in 1 .. Len(s), g[t - 1] <= n, n < g[t], NEW u \in 0 .. Len(s)
  PROVE  /\ n = g[u] => n = g[t - 1]
         /\ u # 0 /\ g[u - 1] <= n /\ n < g[u] => u = t
<1>1. Len(s) \in Nat /\ \A k \in 0 .. Len(s) : g[k] \in Nat
  BY SumsType
<1>2. t - 1 \in 0 .. Len(s) /\ t \in 0 .. Len(s)
  BY <1>1
<1>3. \A i, j \in 0 .. Len(s) : i <= j => g[i] <= g[j]
  <2>. SUFFICES ASSUME NEW i \in 0 .. Len(s), NEW j \in 0 .. Len(s), i <= j PROVE g[i] <= g[j]
    OBVIOUS
  <2>1. j \in i .. Len(s)
    OBVIOUS
  <2>. QED  BY <2>1, SumsGrow
<1>4. ASSUME n = g[u] PROVE n = g[t - 1]
  <2>1. CASE u <= t - 1
    <3>1. g[u] <= g[t - 1] /\ g[u] \in Nat /\ g[t - 1] \in Nat
      BY <1>1, <1>2, <1>3, <2>1
    <3>. QED  BY <1>4, <3>1
  <2>2. CASE ~(u <= t - 1)
    <3>1. t <= u
      BY <2>2
    <3>2. g[t] <= g[u] /\ g[u] \in Nat /\ g[t] \in Nat
      BY <1>1, <1>2, <1>3, <3>1
    <3>. QED  BY <1>4, <3>2
  <2>. QED  BY <2>1, <2>2
<1>5. ASSUME u # 0, g[u - 1] <= n, n < g[u] PROVE u = t
  <2>1. u - 1 \in 0 .. Len(s)
    BY <1>1, <1>5
  <2>2. g[u] \in Nat /\ g[u - 1] \in Nat /\ g[t] \in Nat /\ g[t - 1] \in Nat
    BY <1>1, <1>2, <2>1
  <2>3. CASE u < t
    <3>1. u <= t - 1
      BY <2>3
    <3>2. g[u] <= g[t - 1]
      BY <1>2, <1>3, <3>1
    <3>. QED  BY <1>5, <2>2, <3>2
  <2>4. CASE t < u
    <3>1. t <= u - 1
      BY <2>4
    <3>2. g[t] <= g[u - 1]
      BY <1>2, <1>3, <2>1, <3>1
    <3>. QED  BY <1>5, <2>2, <3>2
  <2>. QED  BY <2>3, <2>4
<1>. QED  BY <1>4, <1>5

\* Where each part of a flattened sequence begins: after the sum of those before it.
FlatAt(seqs, flat, g) ==
  /\ g \in [0 .. Len(seqs) -> Nat] /\ g[0] = 0
  /\ \A t \in 1 .. Len(seqs) : g[t] = g[t - 1] + Len(seqs[t])
  /\ Len(flat) = g[Len(seqs)]
  /\ \A t \in 1 .. Len(seqs) : \A l \in 1 .. Len(seqs[t]) : flat[g[t - 1] + l] = seqs[t][l]

\* A flattened sequence has all elements of its parts, one part after the other.
LEMMA Flattened ==
  ASSUME NEW X, NEW n \in Nat \ {0}, NEW seqs \in [1 .. n -> Seq(X)]
  PROVE  FlattenSeq(seqs) \in Seq(X) /\ \E g : FlatAt(seqs, FlattenSeq(seqs), g)
<1>. DEFINE S == Seq(X)
            F == [p \in S \X (1 .. n) |-> p[1] \o seqs[p[2]]]
            flatten[i \in 1 .. n] == IF i = 1 THEN seqs[i] ELSE flatten[i - 1] \o seqs[i]
<1>1. Len(seqs) = n /\ n # 0
  OBVIOUS
<1>2. FlattenSeq(seqs) = flatten[n]
  BY <1>1 DEF FlattenSeq
<1>3. \A t \in 1 .. n : seqs[t] \in S /\ Len(seqs[t]) \in Nat
  OBVIOUS
<1>4. \A x \in S, t \in 1 .. n : F[<<x, t>>] = x \o seqs[t]
  OBVIOUS
<1>5. IsStep(S, n, F)
  <2>1. \A x \in S, t \in 1 .. n : x \o seqs[t] \in S
    BY <1>3
  <2>. QED  BY <2>1 DEF IsStep
<1>6. PICK z \in S : z = <<>>
  <2>1. <<>> \in S
    OBVIOUS
  <2>. QED  BY <2>1, Zenon
<1>7. \A x \in S : z \o x = x
  BY <1>6
<1>. HIDE DEF F
<1>8. PICK f : IsRun(S, z, n, F, f)
  <2>. HIDE DEF S
  <2>. QED  BY <1>5, Recursion
<1>9. f \in [0 .. n -> S] /\ f[0] = z /\ \A k \in 1 .. n : f[k] = F[<<f[k - 1], k>>]
  BY <1>8 DEF IsRun
<1>10. \A k \in 1 .. n : k \in 0 .. n /\ k - 1 \in 0 .. n /\ k # 0 /\ (k # 1 => k - 1 \in 1 .. n) /\ (k = 1 => k - 1 = 0)
  OBVIOUS
<1>11. \A k \in 1 .. n : f[k] = f[k - 1] \o seqs[k]
  <2>. HIDE DEF S
  <2>. QED  BY <1>4, <1>9, <1>10
<1>12. \A k \in 1 .. n : f[k] = IF k = 1 THEN seqs[k] ELSE f[k - 1] \o seqs[k]
  <2>. HIDE DEF S
  <2>. QED  BY <1>3, <1>7, <1>9, <1>10, <1>11
<1>. DEFINE h == [i \in 1 .. n |-> f[i]]
<1>13. h = [i \in 1 .. n |-> IF i = 1 THEN seqs[i] ELSE h[i - 1] \o seqs[i]]
  BY <1>10, <1>12
<1>. HIDE DEF h
<1>14. flatten = [i \in 1 .. n |-> IF i = 1 THEN seqs[i] ELSE flatten[i - 1] \o seqs[i]]
  BY <1>13
<1>. HIDE DEF flatten
<1>. DEFINE u == [k \in 0 .. n |-> IF k = 0 THEN z ELSE flatten[k]]
<1>15. \A k \in 1 .. n : flatten[k] = IF k = 1 THEN seqs[k] ELSE flatten[k - 1] \o seqs[k]
  BY <1>14
<1>16. \A k \in 1 .. n : u[k] = flatten[k] /\ u[k - 1] = IF k = 1 THEN z ELSE flatten[k - 1]
  BY <1>10
<1>17. u = [k \in 0 .. n |-> u[k]] /\ u[0] = z
  OBVIOUS
<1>. HIDE DEF u
<1>18. \A k \in 1 .. n : u[k] = u[k - 1] \o seqs[k]
  <2>. HIDE DEF S
  <2>. QED  BY <1>3, <1>7, <1>15, <1>16
<1>19. IsRun(S, z, n, F, u)
  <2>. HIDE DEF S
  <2>1. \A k \in 1 .. n : u[k - 1] \in S => u[k] = F[<<u[k - 1], k>>]
    BY <1>4, <1>18
  <2>. QED  BY <1>5, <1>17, <2>1, RunOfSteps
<1>20. u \in [0 .. n -> S] /\ u[0] = <<>>
  BY <1>6, <1>19 DEF IsRun
<1>21. u[n] = FlattenSeq(seqs)
  <2>1. n \in 1 .. n
    OBVIOUS
  <2>. QED  BY <1>2, <1>16, <2>1
<1>. DEFINE g == [k \in 0 .. n |-> Len(u[k])]
<1>22. g \in [0 .. n -> Nat] /\ g[0] = 0 /\ g[n] = Len(u[n])
  BY <1>20
<1>23. \A k \in 0 .. n : u[k] \in Seq(X) /\ g[k] = Len(u[k])
  BY <1>20
<1>. HIDE DEF g
<1>24. ASSUME NEW t \in 1 .. n
       PROVE  /\ g[t] = g[t - 1] + Len(seqs[t])
              /\ \A l \in 1 .. g[t - 1] : u[t][l] = u[t - 1][l]
              /\ \A l \in 1 .. Len(seqs[t]) : u[t][g[t - 1] + l] = seqs[t][l]
  <2>1. PICK a \in Seq(X), b \in Seq(X) : a = u[t - 1] /\ b = seqs[t] /\ u[t] = a \o b
    BY <1>3, <1>10, <1>18, <1>23
  <2>2. Len(a \o b) = Len(a) + Len(b) /\ (\A l \in 1 .. Len(a) : (a \o b)[l] = a[l])
        /\ \A l \in 1 .. Len(b) : (a \o b)[Len(a) + l] = b[l]
    OBVIOUS
  <2>3. g[t] = Len(a \o b) /\ g[t - 1] = Len(a)
    BY <1>10, <1>23, <2>1
  <2>. QED  BY <2>1, <2>2, <2>3
\* What is there stays there.
<1>. DEFINE T == {m \in Nat : m <= n => \A t \in 1 .. m : \A l \in 1 .. Len(seqs[t]) : u[m][g[t - 1] + l] = seqs[t][l]}
            Mono == {m \in Nat : m <= n => \A t \in 0 .. m : g[t] <= g[m]}
<1>25. \A m \in 0 .. n : \A t \in 0 .. m : g[t] <= g[m]
  <2>1. 0 \in Mono
    BY <1>22
  <2>2. ASSUME NEW m \in Nat, m \in Mono PROVE m + 1 \in Mono
    <3>1. SUFFICES ASSUME m + 1 <= n, NEW t \in 0 .. m + 1 PROVE g[t] <= g[m + 1]
      OBVIOUS
    <3>2. m + 1 \in 1 .. n /\ m \in 0 .. n /\ (m + 1) - 1 = m /\ m + 1 \in 0 .. n /\ t \in 0 .. n
      BY <3>1
    <3>3. g[m + 1] = g[m] + Len(seqs[m + 1]) /\ Len(seqs[m + 1]) \in Nat /\ g[m] \in Nat /\ g[m + 1] \in Nat /\ g[t] \in Nat
      BY <1>3, <1>22, <1>24, <3>2
    <3>4. t = m + 1 \/ (t \in 0 .. m /\ g[t] <= g[m])
      BY <2>2, <3>1
    <3>. QED  BY <3>3, <3>4
  <2>3. Nat \subseteq Mono
    <3>. HIDE DEF Mono
    <3>. QED  BY <2>1, <2>2, Induction
  <2>. QED  BY <2>3
<1>26. 0 \in T
  OBVIOUS
<1>27. ASSUME NEW m \in Nat, m \in T PROVE m + 1 \in T
  <2>1. SUFFICES ASSUME m + 1 <= n, NEW t \in 1 .. m + 1, NEW l \in 1 .. Len(seqs[t])
                 PROVE  u[m + 1][g[t - 1] + l] = seqs[t][l]
    OBVIOUS
  <2>2. m + 1 \in 1 .. n /\ (m + 1) - 1 = m /\ t \in 1 .. n /\ m \in 0 .. n
    BY <2>1
  <2>3. CASE t = m + 1
    BY <1>24, <2>2, <2>3
  <2>4. CASE t # m + 1
    <3>1. t \in 1 .. m /\ t \in 0 .. m /\ m <= n /\ t - 1 \in 0 .. n /\ t \in 0 .. n
      BY <2>1, <2>2, <2>4
    <3>2. u[m][g[t - 1] + l] = seqs[t][l]
      BY <1>27, <3>1
    <3>3. g[t] <= g[m] /\ g[t] = g[t - 1] + Len(seqs[t]) /\ g[t] \in Nat /\ g[m] \in Nat /\ g[t - 1] \in Nat
      BY <1>22, <1>24, <1>25, <2>2, <3>1
    <3>4. Len(seqs[t]) \in Nat
      BY <1>3, <2>2
    <3>5. g[t - 1] + l \in 1 .. g[m]
      BY ONLY <3>3, <3>4, BelowIn, l \in 1 .. Len(seqs[t])
    <3>6. u[m + 1][g[t - 1] + l] = u[m][g[t - 1] + l]
      BY <1>24, <2>2, <3>5
    <3>. QED  BY <3>2, <3>6
  <2>. QED  BY <2>3, <2>4
<1>28. n \in T
  <2>. HIDE DEF T
  <2>. QED  BY <1>26, <1>27, Induction
<1>29. u[n] \in Seq(X)
  BY <1>23
<1>30. \A t \in 1 .. n : \A l \in 1 .. Len(seqs[t]) : u[n][g[t - 1] + l] = seqs[t][l]
  BY <1>28
<1>31. FlatAt(seqs, u[n], g)
  BY <1>1, <1>22, <1>24, <1>30 DEF FlatAt
<1>. QED  BY <1>21, <1>29, <1>31

\* The sequence of the elements of a finite set has each of them once.
LEMMA SetInSeq ==
  ASSUME NEW S, IsFiniteSet(S)
  PROVE  LET n == Cardinality(S)
             s == SetToSeq(S)
         IN  /\ n \in Nat
             /\ s \in [1 .. n -> S]
             /\ \A i, j \in 1 .. n : s[i] = s[j] => i = j
             /\ \A x \in S : \E i \in 1 .. n : s[i] = x
<1>. DEFINE n == Cardinality(S)
            s == SetToSeq(S)
<1>1. n \in Nat /\ ExistsBijection(1 .. n, S)
  BY FS_CardinalityType
<1>2. IsFiniteSet(1 .. n) /\ Cardinality(1 .. n) = n
  BY <1>1, FS_Interval
<1>3. \E f \in [1 .. n -> S] : \A a, b \in DOMAIN f : f[a] = f[b] => a = b
  BY <1>1 DEF ExistsBijection, Bijection, Injection, IsInjective
<1>4. s = CHOOSE f \in [1 .. n -> S] : \A a, b \in DOMAIN f : f[a] = f[b] => a = b
  BY DEF SetToSeq, IsInjective
<1>5. s \in [1 .. n -> S] /\ \A a, b \in 1 .. n : s[a] = s[b] => a = b
  BY <1>3, <1>4
<1>6. s \in Injection(1 .. n, S)
  BY <1>5 DEF Injection, IsInjective
<1>7. \A x \in S : \E i \in 1 .. n : s[i] = x
  BY <1>1, <1>2, <1>6, FS_Injection DEF Surjection
<1>. QED  BY <1>1, <1>5, <1>7
===============================================================================
