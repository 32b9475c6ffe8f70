----------------------------- MODULE Frame_proofs -----------------------------
(***************************************************************************)
(* Safety of the frame for any number of threads and collections, whatever *)
(* the relations between the collections are: the inductive invariant,     *)
(* what a step does to the raw data, the map and the buffers in the hands  *)
(* of threads, and the properties that follow; then the calls that resolve *)
(* relations, with the depth of their recursion; and the frame of one      *)
(* thread, which finds all that it asks for.                               *)
(***************************************************************************)
EXTENDS Frame, CollectionIDTable_proofs, FiniteSetTheorems

-----------------------------------------------------------------------------
(* The inductive invariant.                                                *)

\* What a call that is in progress relies on, given the map colls.
CallOK(c, colls) ==
  /\ c.pc = "emplace" => c.name \in RawNames
  /\ c.pc \in {"refs", "search", "insert", "wait", "add"} => colls[c.name] # NoColl
  /\ c.pc \in {"search", "insert", "wait"} =>
       colls[c.name].origin = "raw" /\ c.k < Len(Rel[c.name])

\* All calls of a thread but the innermost one wait for the next inner one.
StackOK(s, colls) ==
  \A i \in 1 .. Len(s) : CallOK(s[i], colls) /\ (s[i].pc = "wait" <=> i > 1)

\* The calls of every thread, in the current map.
CallsOK == \A t \in Threads : StackOK(stack[t], collections)

\* Only raw data makes raw collections; the table names all of them.
DataOK ==
  /\ \A n \in Names : StoredRaw(n) => n \in RawNames
  /\ WellFormed(idTable)
  /\ \A n \in RawNames : Known(idTable, n)
  /\ ~extracting => rawData = RawNames

\* The inductive invariant.
IInv == TypeOK /\ CallsOK /\ DataOK

\* The type of m_collections.
MapType == [Names -> Colls \cup {NoColl}]

\* Entries of the map old are final in the map new.
Final(old, new) == \A n \in Names : old[n] # NoColl => new[n] = old[n]

-----------------------------------------------------------------------------
(* How the call stack of a thread changes.                                 *)

\* A stack that is not empty has an innermost call.
LEMMA TopCall ==
  ASSUME NEW s \in Seq(Calls), s # <<>>
  PROVE  Len(s) \in Nat \ {0} /\ 1 \in 1 .. Len(s) /\ s[1] \in Calls
BY EmptySeq, ElementOfSeq

\* The innermost call is replaced: <<c>> \o Tail(s).
LEMMA ReplaceTop ==
  ASSUME NEW s \in Seq(Calls), s # <<>>, NEW c \in Calls
  PROVE  LET r == <<c>> \o Tail(s) IN
         /\ r \in Seq(Calls) /\ Len(r) = Len(s) /\ r # <<>>
         /\ r[1] = c /\ \A i \in 2 .. Len(s) : r[i] = s[i]
<1>. DEFINE r == <<c>> \o Tail(s)
<1>1. Tail(s) \in Seq(Calls) /\ Len(Tail(s)) = Len(s) - 1
      /\ \A i \in 1 .. Len(Tail(s)) : Tail(s)[i] = s[i + 1]
  BY HeadTailProperties
<1>2. <<c>> \in Seq(Calls) /\ Len(<<c>>) = 1 /\ <<c>>[1] = c
  OBVIOUS
<1>3. Len(s) \in Nat \ {0}
  BY TopCall
<1>4. /\ r \in Seq(Calls) /\ Len(r) = 1 + Len(Tail(s))
      /\ \A i \in 1 .. 1 + Len(Tail(s)) : r[i] = IF i <= 1 THEN <<c>>[i] ELSE Tail(s)[i - 1]
  BY <1>1, <1>2, ConcatProperties
<1>. HIDE DEF r
<1>5. r # <<>>
  BY <1>1, <1>3, <1>4, EmptySeq
<1>6. \A i \in 2 .. Len(s) : r[i] = s[i]
  BY <1>1, <1>3, <1>4
<1>7. r[1] = c
  BY <1>1, <1>2, <1>3, <1>4
<1>. QED BY <1>1, <1>3, <1>4, <1>5, <1>6, <1>7 DEF r

\* The innermost call returns to its caller c: <<c>> \o Tail(Tail(s)).
LEMMA ReplaceCaller ==
  ASSUME NEW s \in Seq(Calls), Len(s) > 1, NEW c \in Calls
  PROVE  LET r == <<c>> \o Tail(Tail(s)) IN
         /\ r \in Seq(Calls) /\ Len(r) = Len(s) - 1
         /\ r[1] = c /\ \A i \in 2 .. Len(s) - 1 : r[i] = s[i + 1]
<1>1. s # <<>> /\ Len(s) \in Nat
  BY EmptySeq, LenProperties
<1>2. Tail(s) \in Seq(Calls) /\ Len(Tail(s)) = Len(s) - 1
      /\ \A i \in 1 .. Len(Tail(s)) : Tail(s)[i] = s[i + 1]
  BY <1>1, HeadTailProperties
<1>3. Tail(s) # <<>>
  <2>1. Len(Tail(s)) > 0
    BY <1>1, <1>2
  <2>2. ~(Len(<<>>) > 0)
    OBVIOUS
  <2>. QED BY <2>1, <2>2, Zenon
<1>4. LET r == <<c>> \o Tail(Tail(s)) IN
      /\ r \in Seq(Calls) /\ Len(r) = Len(Tail(s))
      /\ r[1] = c /\ \A i \in 2 .. Len(Tail(s)) : r[i] = Tail(s)[i]
  BY <1>2, <1>3, ReplaceTop
<1>. QED BY <1>1, <1>2, <1>4

\* The innermost call becomes d and makes the call c: <<c, d>> \o Tail(s).
LEMMA PushCall ==
  ASSUME NEW s \in Seq(Calls), s # <<>>, NEW c \in Calls, NEW d \in Calls
  PROVE  LET r == <<c, d>> \o Tail(s) IN
         /\ r \in Seq(Calls) /\ Len(r) = Len(s) + 1
         /\ r[1] = c /\ r[2] = d /\ \A i \in 3 .. Len(s) + 1 : r[i] = s[i - 1]
<1>. DEFINE r == <<c, d>> \o Tail(s)
<1>1. Tail(s) \in Seq(Calls) /\ Len(Tail(s)) = Len(s) - 1
      /\ \A i \in 1 .. Len(Tail(s)) : Tail(s)[i] = s[i + 1]
  BY HeadTailProperties
<1>2. <<c, d>> \in Seq(Calls) /\ Len(<<c, d>>) = 2 /\ <<c, d>>[1] = c /\ <<c, d>>[2] = d
  OBVIOUS
<1>3. Len(s) \in Nat \ {0}
  BY TopCall
<1>4. /\ r \in Seq(Calls) /\ Len(r) = 2 + Len(Tail(s))
      /\ \A i \in 1 .. 2 + Len(Tail(s)) : r[i] = IF i <= 2 THEN <<c, d>>[i] ELSE Tail(s)[i - 2]
  BY <1>1, <1>2, ConcatProperties
<1>. HIDE DEF r
<1>5. r[1] = c /\ r[2] = d
  BY <1>1, <1>2, <1>3, <1>4
<1>6. \A i \in 3 .. Len(s) + 1 : r[i] = s[i - 1]
  BY <1>1, <1>3, <1>4
<1>. QED BY <1>1, <1>3, <1>4, <1>5, <1>6 DEF r

\* A call that goes on with the next relation.
LEMMA ResumedCall ==
  ASSUME NEW c \in Calls
  PROVE  LET r == [c EXCEPT !.pc = "refs", !.k = @ + 1]
         IN  r \in Calls /\ r.pc = "refs" /\ r.name = c.name
<1>1. [c EXCEPT !.pc = "refs"] \in Calls /\ c.k + 1 \in Nat
  BY DEF Calls
<1>2. [c EXCEPT !.pc = "refs", !.k = @ + 1] = [[c EXCEPT !.pc = "refs"] EXCEPT !.k = c.k + 1]
  BY DEF Calls
<1>3. ASSUME NEW d \in Calls, NEW k \in Nat
      PROVE  [d EXCEPT !.k = k] \in Calls
  BY DEF Calls
<1>4. [c EXCEPT !.pc = "refs", !.k = @ + 1] \in Calls
  BY <1>1, <1>2, <1>3
<1>. QED BY <1>4 DEF Calls

-----------------------------------------------------------------------------
(* The calls stay in order when the stack or the map changes.              *)

\* The map grows: what the calls rely on stays true.
LEMMA StackOKFinal ==
  ASSUME NEW s \in Seq(Calls), NEW old \in MapType, NEW new \in MapType,
         Final(old, new), StackOK(s, old)
  PROVE  StackOK(s, new)
<1>. SUFFICES ASSUME NEW i \in 1 .. Len(s)
              PROVE  CallOK(s[i], new)
  BY DEF StackOK
<1>1. s[i] \in Calls /\ CallOK(s[i], old)
  BY ElementOfSeq DEF StackOK
<1>. QED BY <1>1 DEF CallOK, Final, Calls

\* The innermost call goes on.
LEMMA StackOKReplaceTop ==
  ASSUME NEW s \in Seq(Calls), s # <<>>, NEW colls, StackOK(s, colls),
         NEW c \in Calls, CallOK(c, colls), c.pc # "wait"
  PROVE  <<c>> \o Tail(s) \in Seq(Calls) /\ StackOK(<<c>> \o Tail(s), colls)
<1>. DEFINE r == <<c>> \o Tail(s)
<1>1. /\ r \in Seq(Calls) /\ Len(r) = Len(s) /\ Len(s) \in Nat
      /\ r[1] = c /\ \A i \in 2 .. Len(s) : r[i] = s[i]
  BY ReplaceTop, LenProperties
<1>. HIDE DEF r
<1>2. StackOK(r, colls)
  BY <1>1 DEF StackOK
<1>. QED BY <1>1, <1>2 DEF r

\* The innermost call returns.
LEMMA StackOKReplaceCaller ==
  ASSUME NEW s \in Seq(Calls), Len(s) > 1, NEW colls, StackOK(s, colls),
         NEW c \in Calls, CallOK(c, colls), c.pc # "wait"
  PROVE  /\ <<c>> \o Tail(Tail(s)) \in Seq(Calls)
         /\ StackOK(<<c>> \o Tail(Tail(s)), colls)
<1>. DEFINE r == <<c>> \o Tail(Tail(s))
<1>1. /\ r \in Seq(Calls) /\ Len(r) = Len(s) - 1 /\ Len(s) \in Nat
      /\ r[1] = c /\ \A i \in 2 .. Len(s) - 1 : r[i] = s[i + 1]
  BY ReplaceCaller, LenProperties
<1>. HIDE DEF r
<1>2. StackOK(r, colls)
  BY <1>1 DEF StackOK
<1>. QED BY <1>1, <1>2 DEF r

\* The innermost call makes a call.
LEMMA StackOKPushCall ==
  ASSUME NEW s \in Seq(Calls), s # <<>>, NEW colls, StackOK(s, colls),
         NEW c \in Calls, CallOK(c, colls), c.pc # "wait",
         NEW d \in Calls, CallOK(d, colls), d.pc = "wait"
  PROVE  <<c, d>> \o Tail(s) \in Seq(Calls) /\ StackOK(<<c, d>> \o Tail(s), colls)
<1>. DEFINE r == <<c, d>> \o Tail(s)
<1>1. /\ r \in Seq(Calls) /\ Len(r) = Len(s) + 1 /\ Len(s) \in Nat
      /\ r[1] = c /\ r[2] = d /\ \A i \in 3 .. Len(s) + 1 : r[i] = s[i - 1]
  BY PushCall, LenProperties
<1>. HIDE DEF r
<1>2. StackOK(r, colls)
  BY <1>1 DEF StackOK
<1>. QED BY <1>1, <1>2 DEF r

-----------------------------------------------------------------------------
(* One step of the frame.                                                  *)

\* The innermost call of a thread that has one.
LEMMA TopOK ==
  ASSUME IInv, NEW t \in Threads, ~Idle(t)
  PROVE  /\ stack[t] \in Seq(Calls) /\ stack[t] # <<>>
         /\ StackOK(stack[t], collections)
         /\ Len(stack[t]) \in Nat \ {0}
         /\ Top(t) \in Calls /\ CallOK(Top(t), collections)
         /\ Top(t).pc # "wait" /\ Top(t).name \in Names
<1>1. stack[t] \in Seq(Calls) /\ stack[t] # <<>>
  BY DEF IInv, TypeOK, Idle
<1>2. Len(stack[t]) \in Nat \ {0} /\ 1 \in 1 .. Len(stack[t]) /\ stack[t][1] \in Calls
  BY <1>1, TopCall
<1>3. StackOK(stack[t], collections)
  BY DEF IInv, CallsOK
<1>4. CallOK(stack[t][1], collections) /\ stack[t][1].pc # "wait"
  BY <1>2, <1>3 DEF StackOK
<1>. QED BY <1>1, <1>2, <1>3, <1>4 DEF Top, Calls

\* Only the stack of t changes, to one that is in order.
LEMMA CallsStep ==
  ASSUME IInv, NEW t \in Threads, collections' \in MapType,
         Final(collections, collections'),
         NEW s \in Seq(Calls), StackOK(s, collections'),
         stack' = [stack EXCEPT ![t] = s]
  PROVE  stack' \in [Threads -> Seq(Calls)] /\ CallsOK'
<1>1. stack \in [Threads -> Seq(Calls)] /\ collections \in MapType
  BY DEF IInv, TypeOK, MapType
<1>2. ASSUME NEW u \in Threads
      PROVE  StackOK(stack'[u], collections')
  <2>1. CASE u = t
    BY <1>1, <2>1
  <2>2. CASE u # t
    <3>1. stack'[u] = stack[u] /\ stack[u] \in Seq(Calls) /\ StackOK(stack[u], collections)
      BY <1>1, <2>2 DEF IInv, CallsOK
    <3>. QED BY <1>1, <3>1, StackOKFinal
  <2>. QED BY <2>1, <2>2
<1>. QED BY <1>1, <1>2 DEF CallsOK

\* The innermost call of t goes on as call c.
LEMMA TopStep ==
  ASSUME IInv, NEW t \in Threads, ~Idle(t), collections' \in MapType,
         Final(collections, collections'),
         NEW c \in Calls, CallOK(c, collections'), c.pc # "wait",
         SetTop(t, c)
  PROVE  stack' \in [Threads -> Seq(Calls)] /\ CallsOK'
<1>1. stack[t] \in Seq(Calls) /\ stack[t] # <<>> /\ StackOK(stack[t], collections)
  BY TopOK
<1>2. StackOK(stack[t], collections')
  BY <1>1, StackOKFinal DEF IInv, TypeOK, MapType
<1>3. <<c>> \o Tail(stack[t]) \in Seq(Calls) /\ StackOK(<<c>> \o Tail(stack[t]), collections')
  BY <1>1, <1>2, StackOKReplaceTop
<1>4. stack' = [stack EXCEPT ![t] = <<c>> \o Tail(stack[t])]
  BY DEF SetTop, IInv, TypeOK
<1>. QED BY <1>3, <1>4, CallsStep

\* A thread that was idle starts a call.
LEMMA OneCall ==
  ASSUME NEW c \in Calls, NEW colls, CallOK(c, colls), c.pc # "wait"
  PROVE  <<c>> \in Seq(Calls) /\ StackOK(<<c>>, colls)
<1>. DEFINE s == <<c>>
<1>1. s \in Seq(Calls) /\ Len(s) = 1 /\ s[1] = c
  OBVIOUS
<1>. HIDE DEF s
<1>2. StackOK(s, colls)
  BY <1>1 DEF StackOK
<1>. QED BY <1>1, <1>2 DEF s

\* A thread becomes idle.
LEMMA NoCalls == <<>> \in Seq(Calls) /\ \A colls : StackOK(<<>>, colls)
BY DEF StackOK

\* The innermost call of t returns coll.
LEMMA ReturnStep ==
  ASSUME IInv, NEW t \in Threads, ~Idle(t), collections' \in MapType,
         Final(collections, collections'),
         NEW coll \in Colls \cup {NoColl}, Return(t, coll)
  PROVE  /\ stack' \in [Threads -> Seq(Calls)] /\ CallsOK'
         /\ relations' \in [Names -> Seq(Colls \cup {NoColl})]
         /\ result' \in [Threads -> Results]
<1>1. /\ stack[t] \in Seq(Calls) /\ StackOK(stack[t], collections)
      /\ Top(t).name \in Names
      /\ relations \in [Names -> Seq(Colls \cup {NoColl})]
      /\ result \in [Threads -> Results]
      /\ stack \in [Threads -> Seq(Calls)]
  BY TopOK DEF IInv, TypeOK
<1>2. CASE /\ Len(stack[t]) = 1
           /\ stack' = [stack EXCEPT ![t] = <<>>]
           /\ result' = [result EXCEPT ![t] = Result("get", Top(t).name, coll)]
           /\ UNCHANGED relations
  <2>1. Result("get", Top(t).name, coll) \in Results
    BY <1>1 DEF Result, Results
  <2>2. stack' \in [Threads -> Seq(Calls)] /\ CallsOK'
    BY <1>2, NoCalls, CallsStep
  <2>. QED BY <1>1, <1>2, <2>1, <2>2
<1>3. CASE /\ Len(stack[t]) > 1
           /\ LET caller == stack[t][2] IN
              /\ stack' = [stack EXCEPT ![t] =
                   <<[caller EXCEPT !.pc = "refs", !.k = @ + 1]>> \o Tail(Tail(@))]
              /\ relations' = [relations EXCEPT ![caller.name] = Append(@, coll)]
           /\ UNCHANGED result
  <2>. DEFINE caller == stack[t][2]
              c == [caller EXCEPT !.pc = "refs", !.k = @ + 1]
  <2>1. 2 \in 1 .. Len(stack[t])
    BY <1>1, <1>3, LenProperties
  <2>2. caller \in Calls /\ CallOK(caller, collections) /\ caller.pc = "wait"
    BY <1>1, <2>1, ElementOfSeq DEF StackOK
  <2>3. c \in Calls /\ c.pc = "refs" /\ c.name = caller.name /\ caller.name \in Names
    <3>1. caller.name \in Names
      BY <2>2 DEF Calls
    <3>. HIDE DEF caller
    <3>. QED BY <2>2, <3>1, ResumedCall
  <2>4. CallOK(c, collections')
    BY <2>2, <2>3 DEF CallOK, Final
  <2>5. StackOK(stack[t], collections')
    BY <1>1, StackOKFinal DEF IInv, TypeOK, MapType
  <2>6. stack' = [stack EXCEPT ![t] = <<c>> \o Tail(Tail(stack[t]))]
    BY <1>1, <1>3
  <2>7. relations' = [relations EXCEPT ![caller.name] = Append(relations[caller.name], coll)]
    BY <1>1, <1>3
  <2>. HIDE DEF c, caller
  <2>8. /\ <<c>> \o Tail(Tail(stack[t])) \in Seq(Calls)
        /\ StackOK(<<c>> \o Tail(Tail(stack[t])), collections')
    BY <1>1, <1>3, <2>3, <2>4, <2>5, StackOKReplaceCaller
  <2>9. stack' \in [Threads -> Seq(Calls)] /\ CallsOK'
    BY <2>6, <2>8, CallsStep
  <2>10. Append(relations[caller.name], coll) \in Seq(Colls \cup {NoColl})
    BY <1>1, <2>3, AppendProperties
  <2>. QED BY <1>1, <1>3, <2>7, <2>9, <2>10
<1>. QED BY <1>2, <1>3 DEF Return

-----------------------------------------------------------------------------
(* The map.                                                                *)

\* emplace stores a raw collection where there is none.
LEMMA EmplacedMap ==
  ASSUME IInv, NEW t \in Threads, At(t, "emplace"), Emplaced(t)
  PROVE  /\ collections' \in MapType /\ Final(collections, collections')
         /\ collectionID' \in [Names -> Nat \cup {NoID}]
         /\ \A n \in Names \ {Top(t).name} : /\ collections'[n] = collections[n]
                                             /\ collectionID'[n] = collectionID[n]
         /\ Top(t).name \in RawNames /\ collections'[Top(t).name] \in Colls
         /\ ~Stored(Top(t).name) =>
              /\ collections'[Top(t).name].origin = "raw"
              /\ collectionID'[Top(t).name] = CollectionID(idTable, Top(t).name)
<1>1. /\ collections \in MapType /\ collectionID \in [Names -> Nat \cup {NoID}]
      /\ idTable \in Tables
  BY DEF IInv, TypeOK, MapType
<1>2. Top(t) \in Calls /\ CallOK(Top(t), collections)
  BY TopOK DEF At
<1>3. Top(t).name \in Names /\ Top(t).name \in RawNames
  BY <1>2 DEF CallOK, At, Calls
<1>. DEFINE new == [name |-> Top(t).name, origin |-> "raw", by |-> t]
<1>4. new \in Colls /\ new # NoColl /\ new.origin = "raw"
  BY <1>3, ConstantsAssumption DEF Colls
<1>5. CollectionID(idTable, Top(t).name) \in Nat \cup {NoID}
  BY <1>1, LookupType
<1>6. CASE Stored(Top(t).name)
  <2>1. collections' = collections /\ collectionID' = collectionID
    BY <1>6 DEF Emplaced, Stored
  <2>. QED BY <1>1, <1>3, <1>6, <2>1 DEF MapType, Final, Stored
<1>7. CASE ~Stored(Top(t).name)
  <2>1. /\ collections' = [collections EXCEPT ![Top(t).name] = new]
        /\ collectionID' = [collectionID EXCEPT ![Top(t).name] = CollectionID(idTable, Top(t).name)]
    BY <1>7 DEF Emplaced, Stored
  <2>. HIDE DEF new
  <2>2. collections' \in MapType /\ collections'[Top(t).name] = new
    BY <1>1, <1>3, <1>4, <2>1 DEF MapType
  <2>3. \A n \in Names \ {Top(t).name} : /\ collections'[n] = collections[n]
                                         /\ collectionID'[n] = collectionID[n]
    BY <1>1, <2>1 DEF MapType
  <2>4. Final(collections, collections')
    BY <1>7, <2>3 DEF Final, Stored
  <2>5. /\ collectionID' \in [Names -> Nat \cup {NoID}]
        /\ collectionID'[Top(t).name] = CollectionID(idTable, Top(t).name)
    BY <1>1, <1>3, <1>5, <2>1
  <2>. QED BY <1>3, <1>4, <2>2, <2>3, <2>4, <2>5
<1>. QED BY <1>6, <1>7

\* try_emplace stores the collection of a user where there is none.
LEMMA PutMap ==
  ASSUME IInv, NEW t \in Threads, NEW n \in Names, Put(t, n)
  PROVE  /\ collections' \in MapType /\ Final(collections, collections')
         /\ \A m \in Names \ {n} : collections'[m] = collections[m]
         /\ collections'[n] \in Colls /\ collections'[n].origin = "put"
<1>1. collections \in MapType
  BY DEF IInv, TypeOK, MapType
<1>. DEFINE new == [name |-> n, origin |-> "put", by |-> t]
<1>2. new \in Colls /\ new.origin = "put"
  BY DEF Colls
<1>3. collections' = [collections EXCEPT ![n] = new] /\ collections[n] = NoColl
  BY DEF Put
<1>. HIDE DEF new
<1>4. collections' \in MapType /\ collections'[n] = new
      /\ \A m \in Names \ {n} : collections'[m] = collections[m]
  BY <1>1, <1>2, <1>3 DEF MapType
<1>. QED BY <1>2, <1>3, <1>4 DEF Final

\* Without a step on the map, all entries are final.
LEMMA MapUnchanged ==
  ASSUME IInv, UNCHANGED collections
  PROVE  collections' \in MapType /\ Final(collections, collections')
BY DEF IInv, TypeOK, MapType, Final

-----------------------------------------------------------------------------
(* IInv is an inductive invariant.                                         *)

\* The part of IInv that a step without effect on map, table and raw data
\* keeps by itself.
LEMMA DataUnchanged ==
  ASSUME IInv, UNCHANGED <<extracting, rawData, collections, idTable>>
  PROVE  DataOK'
BY DEF IInv, DataOK, StoredRaw, Stored

\* A new frame satisfies the invariant.
LEMMA IInvInit == Init => IInv
<1>. SUFFICES ASSUME Init PROVE IInv
  OBVIOUS
<1>1. TypeOK
  <2>1. /\ extracting \in BOOLEAN /\ rawData \subseteq RawNames
        /\ collections \in [Names -> Colls \cup {NoColl}]
        /\ collectionID \in [Names -> Nat \cup {NoID}]
        /\ idTable \in Tables /\ retrievedIDs \subseteq Nat
    BY ConstantsAssumption DEF Init
  <2>2. /\ relations \in [Names -> Seq(Colls \cup {NoColl})]
        /\ stack \in [Threads -> Seq(Calls)]
    BY DEF Init
  <2>3. NoResult \in Results
    BY DEF NoResult, Result, Results
  <2>4. result \in [Threads -> Results]
    BY <2>3 DEF Init
  <2>. QED BY <2>1, <2>2, <2>4 DEF TypeOK
<1>2. CallsOK
  BY NoCalls DEF Init, CallsOK
<1>3. DataOK
  BY ConstantsAssumption DEF Init, DataOK, StoredRaw, Stored, Known
<1>. QED BY <1>1, <1>2, <1>3 DEF IInv

\* A call of get starts.
LEMMA GetIInv ==
  ASSUME IInv, NEW t \in Threads, NEW n \in Names, Get(t, n)
  PROVE  IInv'
<1>. USE DEF Get
<1>1. Call(n, TRUE, "find") \in Calls /\ Call(n, TRUE, "find").pc = "find"
  BY DEF Call, Calls
<1>2. CallOK(Call(n, TRUE, "find"), collections')
  BY <1>1 DEF CallOK
<1>3. stack' \in [Threads -> Seq(Calls)] /\ CallsOK'
  BY <1>1, <1>2, OneCall, MapUnchanged, CallsStep
<1>4. NoResult \in Results
  BY DEF NoResult, Result, Results
<1>5. TypeOK'
  BY <1>3, <1>4 DEF IInv, TypeOK
<1>. QED BY <1>3, <1>5, DataUnchanged DEF IInv

\* The actions that end a call without a change of the map.
LEMMA ReturnIInv ==
  ASSUME IInv, NEW t \in Threads, ~Idle(t), NEW coll \in Colls \cup {NoColl},
         Return(t, coll),
         UNCHANGED <<extracting, rawData, collections, collectionID, idTable, retrievedIDs>>
  PROVE  IInv'
<1>1. /\ stack' \in [Threads -> Seq(Calls)] /\ CallsOK'
      /\ relations' \in [Names -> Seq(Colls \cup {NoColl})]
      /\ result' \in [Threads -> Results]
  BY MapUnchanged, ReturnStep
<1>2. TypeOK'
  BY <1>1 DEF IInv, TypeOK
<1>. QED BY <1>1, <1>2, DataUnchanged DEF IInv

\* The actions that only change the innermost call, and at most relations
\* and retrieved IDs with it.
LEMMA TopIInv ==
  ASSUME IInv, NEW t \in Threads, ~Idle(t),
         NEW c \in Calls, CallOK(c, collections), c.pc # "wait", SetTop(t, c),
         relations' \in [Names -> Seq(Colls \cup {NoColl})],
         UNCHANGED <<extracting, rawData, collections, collectionID, idTable,
                     retrievedIDs, result>>
  PROVE  IInv'
<1>1. stack' \in [Threads -> Seq(Calls)] /\ CallsOK'
  BY MapUnchanged, TopStep
<1>2. TypeOK'
  BY <1>1 DEF IInv, TypeOK
<1>. QED BY <1>1, <1>2, DataUnchanged DEF IInv

\* doGet finds the collection in the map.
LEMMA FindHitIInv ==
  ASSUME IInv, NEW t \in Threads, FindHit(t)
  PROVE  IInv'
<1>1. Top(t).name \in Names /\ ~Idle(t)
  BY TopOK DEF FindHit, At
<1>2. collections[Top(t).name] \in Colls \cup {NoColl}
  BY <1>1 DEF IInv, TypeOK
<1>. QED BY <1>1, <1>2, ReturnIInv DEF FindHit

\* doGet does not find the collection in the map.
LEMMA FindMissIInv ==
  ASSUME IInv, NEW t \in Threads, FindMiss(t)
  PROVE  IInv'
<1>. DEFINE c == [Top(t) EXCEPT !.pc = "unpack"]
<1>1. Top(t) \in Calls /\ ~Idle(t)
  BY TopOK DEF FindMiss, At
<1>2. c \in Calls /\ CallOK(c, collections) /\ c.pc # "wait"
  BY <1>1 DEF Calls, CallOK
<1>3. SetTop(t, c)
  BY DEF FindMiss
<1>. HIDE DEF c
<1>4. UNCHANGED <<extracting, rawData, collections, collectionID, relations,
                  idTable, retrievedIDs, result>>
  BY DEF FindMiss
<1>5. relations' \in [Names -> Seq(Colls \cup {NoColl})]
  BY <1>4 DEF IInv, TypeOK
<1>. QED BY <1>1, <1>2, <1>3, <1>4, <1>5, TopIInv

\* The buffers of a raw collection are taken.
LEMMA UnpackIInv ==
  ASSUME IInv, NEW t \in Threads, Unpack(t)
  PROVE  IInv'
<1>. DEFINE c == [Top(t) EXCEPT !.pc = "emplace"]
<1>1. /\ Top(t) \in Calls /\ ~Idle(t) /\ Top(t).name \in RawNames
  BY TopOK DEF Unpack, At, IInv, TypeOK
<1>2. c \in Calls /\ CallOK(c, collections) /\ c.pc # "wait"
  BY <1>1 DEF Calls, CallOK
<1>3. SetTop(t, c)
  BY DEF Unpack
<1>. HIDE DEF c
<1>4. stack' \in [Threads -> Seq(Calls)] /\ CallsOK'
  <2>1. CallOK(c, collections')
    BY <1>2 DEF Unpack
  <2>. QED BY <1>1, <1>2, <1>3, <2>1, MapUnchanged, TopStep DEF Unpack
<1>5. rawData' \subseteq RawNames /\ (~extracting => rawData' = rawData)
  BY DEF Unpack, IInv, TypeOK
<1>6. TypeOK'
  BY <1>4, <1>5 DEF IInv, TypeOK, Unpack
<1>7. DataOK'
  BY <1>5 DEF IInv, DataOK, StoredRaw, Stored, Unpack
<1>. QED BY <1>4, <1>6, <1>7 DEF IInv

\* There are no buffers.
LEMMA UnpackNothingIInv ==
  ASSUME IInv, NEW t \in Threads, UnpackNothing(t)
  PROVE  IInv'
BY ReturnIInv DEF UnpackNothing, At

\* An exception leaves all calls of the thread.
LEMMA UnpackThrowsIInv ==
  ASSUME IInv, NEW t \in Threads, UnpackThrows(t)
  PROVE  IInv'
<1>. USE DEF UnpackThrows
<1>1. stack' \in [Threads -> Seq(Calls)] /\ CallsOK'
  BY NoCalls, MapUnchanged, CallsStep
<1>2. Result("throw", Top(t).name, NoColl) \in Results
  BY TopOK DEF Result, Results, At
<1>3. TypeOK'
  BY <1>1, <1>2 DEF IInv, TypeOK
<1>. QED BY <1>1, <1>3, DataUnchanged DEF IInv

\* The collection is stored and its relations come next.
LEMMA EmplaceForRefsIInv ==
  ASSUME IInv, NEW t \in Threads, EmplaceForRefs(t)
  PROVE  IInv'
<1>. DEFINE c == [Top(t) EXCEPT !.pc = "refs"]
<1>1. /\ Top(t) \in Calls /\ ~Idle(t) /\ At(t, "emplace") /\ Emplaced(t)
  BY TopOK DEF EmplaceForRefs, At
<1>2. /\ collections' \in MapType /\ Final(collections, collections')
      /\ collectionID' \in [Names -> Nat \cup {NoID}]
      /\ \A n \in Names \ {Top(t).name} : collections'[n] = collections[n]
      /\ Top(t).name \in RawNames /\ collections'[Top(t).name] \in Colls
  BY <1>1, EmplacedMap
<1>3. c \in Calls /\ CallOK(c, collections') /\ c.pc # "wait"
  BY <1>1, <1>2, ConstantsAssumption DEF Calls, CallOK
<1>4. SetTop(t, c)
  BY DEF EmplaceForRefs
<1>. HIDE DEF c
<1>5. stack' \in [Threads -> Seq(Calls)] /\ CallsOK'
  BY <1>1, <1>2, <1>3, <1>4, TopStep
<1>6. TypeOK'
  BY <1>2, <1>5 DEF IInv, TypeOK, EmplaceForRefs, MapType
<1>7. DataOK'
  BY <1>2 DEF IInv, DataOK, StoredRaw, Stored, EmplaceForRefs
<1>. QED BY <1>5, <1>6, <1>7 DEF IInv

\* The collection is stored and returned.
LEMMA EmplaceOnlyIInv ==
  ASSUME IInv, NEW t \in Threads, EmplaceOnly(t)
  PROVE  IInv'
<1>1. /\ Top(t) \in Calls /\ ~Idle(t) /\ At(t, "emplace") /\ Emplaced(t)
      /\ Return(t, collections'[Top(t).name])
  BY TopOK DEF EmplaceOnly, At
<1>2. /\ collections' \in MapType /\ Final(collections, collections')
      /\ collectionID' \in [Names -> Nat \cup {NoID}]
      /\ \A n \in Names \ {Top(t).name} : collections'[n] = collections[n]
      /\ Top(t).name \in RawNames /\ collections'[Top(t).name] \in Colls
  BY <1>1, EmplacedMap
<1>3. /\ stack' \in [Threads -> Seq(Calls)] /\ CallsOK'
      /\ relations' \in [Names -> Seq(Colls \cup {NoColl})]
      /\ result' \in [Threads -> Results]
  BY <1>1, <1>2, ReturnStep
<1>4. TypeOK'
  BY <1>2, <1>3 DEF IInv, TypeOK, EmplaceOnly, MapType
<1>5. DataOK'
  BY <1>2 DEF IInv, DataOK, StoredRaw, Stored, EmplaceOnly
<1>. QED BY <1>3, <1>4, <1>5 DEF IInv

\* setReferences and get(id) rely on the IDs of a raw collection.
LEMMA RefIDsType ==
  ASSUME IInv, NEW n \in Names, NEW k \in Nat, k < Len(RefIDs(n)), Stored(n)
  PROVE  /\ RefIDs(n) = Rel[n] /\ collections[n].origin = "raw"
         /\ n \in RawNames /\ Rel[n] \in Seq(Nat)
         /\ k + 1 \in 1 .. Len(Rel[n]) /\ Rel[n][k + 1] \in Nat
<1>1. collections[n].origin = "raw"
  <2>1. Len(<<>>) = 0
    OBVIOUS
  <2>. QED BY <2>1 DEF RefIDs
<1>2. n \in RawNames /\ RefIDs(n) = Rel[n]
  BY <1>1 DEF IInv, DataOK, StoredRaw, RefIDs
<1>3. Rel[n] \in Seq(Nat)
  BY <1>2, ConstantsAssumption
<1>4. k + 1 \in 1 .. Len(Rel[n])
  BY <1>2, <1>3, LenProperties
<1>. QED BY <1>1, <1>2, <1>3, <1>4, ElementOfSeq

\* The call that resolves relations, and its collection.
LEMMA ResolvingCall ==
  ASSUME IInv, NEW t \in Threads,
         At(t, "refs") \/ At(t, "search") \/ At(t, "insert")
  PROVE  /\ ~Idle(t) /\ Top(t) \in Calls /\ CallOK(Top(t), collections)
         /\ Top(t).name \in Names /\ Top(t).k \in Nat /\ Stored(Top(t).name)
<1>1. ~Idle(t) /\ Top(t).pc \in {"refs", "search", "insert"}
  BY DEF At
<1>2. Top(t) \in Calls /\ CallOK(Top(t), collections)
  BY <1>1, TopOK
<1>. QED BY <1>1, <1>2 DEF CallOK, Stored, Calls

\* The ID that a call in m_retrievedIDs.insert works on.
LEMMA InsertedID ==
  ASSUME IInv, NEW t \in Threads, At(t, "search") \/ At(t, "insert")
  PROVE  /\ RefIDs(Top(t).name)[Top(t).k + 1] \in Nat
         /\ collections[Top(t).name].origin = "raw"
         /\ Top(t).k < Len(Rel[Top(t).name])
<1>1. /\ Top(t).name \in Names /\ Top(t).k \in Nat /\ Stored(Top(t).name)
      /\ CallOK(Top(t), collections)
  BY ResolvingCall
<1>2. collections[Top(t).name].origin = "raw" /\ Top(t).k < Len(Rel[Top(t).name])
  BY <1>1 DEF CallOK, At
<1>3. RefIDs(Top(t).name) = Rel[Top(t).name]
  BY <1>2 DEF RefIDs
<1>. QED BY <1>1, <1>2, <1>3, RefIDsType

\* The ID of a relation is not in the table.
LEMMA RefUnknownIInv ==
  ASSUME IInv, NEW t \in Threads, RefUnknown(t)
  PROVE  IInv'
<1>. DEFINE c == [Top(t) EXCEPT !.k = @ + 1]
            n == Top(t).name
<1>1. /\ ~Idle(t) /\ Top(t) \in Calls /\ CallOK(Top(t), collections) /\ n \in Names
      /\ Top(t).pc = "refs"
  BY ResolvingCall DEF RefUnknown, At
<1>2. c \in Calls /\ CallOK(c, collections) /\ c.pc # "wait"
  BY <1>1 DEF Calls, CallOK
<1>3. SetTop(t, c) /\ relations' = [relations EXCEPT ![n] = Append(@, NoColl)]
  BY DEF RefUnknown
<1>. HIDE DEF c, n
<1>4. relations' \in [Names -> Seq(Colls \cup {NoColl})]
  <2>1. /\ relations \in [Names -> Seq(Colls \cup {NoColl})]
        /\ NoColl \in Colls \cup {NoColl}
    BY DEF IInv, TypeOK
  <2>2. Append(relations[n], NoColl) \in Seq(Colls \cup {NoColl})
    BY <1>1, <2>1, AppendProperties
  <2>. QED BY <1>1, <1>3, <2>1, <2>2
<1>5. UNCHANGED <<extracting, rawData, collections, collectionID, idTable,
                  retrievedIDs, result>>
  BY DEF RefUnknown
<1>. QED BY <1>1, <1>2, <1>3, <1>4, <1>5, TopIInv

\* The ID of a relation is in the table.
LEMMA RefKnownIInv ==
  ASSUME IInv, NEW t \in Threads, RefKnown(t)
  PROVE  IInv'
<1>. DEFINE n == Top(t).name
            name == NameOf(idTable, RefIDs(n)[Top(t).k + 1])
            c == [Top(t) EXCEPT !.pc = "search", !.target = name]
<1>1. /\ ~Idle(t) /\ Top(t) \in Calls /\ CallOK(Top(t), collections) /\ n \in Names
      /\ Top(t).k \in Nat /\ Stored(n) /\ Top(t).k < Len(RefIDs(n)) /\ name # NoName
  BY ResolvingCall DEF RefKnown
<1>2. name \in Names
  BY <1>1, LookupType DEF IInv, TypeOK
<1>3. collections[n].origin = "raw" /\ Top(t).k < Len(Rel[n])
  BY <1>1, RefIDsType
<1>4. SetTop(t, c)
  BY DEF RefKnown
<1>. HIDE DEF name
<1>5. c \in Calls
  BY <1>1, <1>2 DEF Calls
<1>6. c.pc = "search" /\ c.name = n /\ c.k = Top(t).k
  BY <1>1 DEF Calls
<1>7. CallOK(c, collections) /\ c.pc # "wait"
  BY <1>1, <1>3, <1>6 DEF CallOK, Stored
<1>. HIDE DEF c
<1>8. UNCHANGED <<extracting, rawData, collections, collectionID, idTable,
                  retrievedIDs, relations, result>>
  BY DEF RefKnown
<1>9. relations' \in [Names -> Seq(Colls \cup {NoColl})]
  BY <1>8 DEF IInv, TypeOK
<1>. QED BY <1>1, <1>4, <1>5, <1>7, <1>8, <1>9, TopIInv

\* All relations are resolved.
LEMMA RefsDoneIInv ==
  ASSUME IInv, NEW t \in Threads, RefsDone(t)
  PROVE  IInv'
<1>1. Top(t).name \in Names /\ ~Idle(t)
  BY ResolvingCall DEF RefsDone
<1>2. collections[Top(t).name] \in Colls \cup {NoColl}
  BY <1>1 DEF IInv, TypeOK
<1>. QED BY <1>1, <1>2, ReturnIInv DEF RefsDone

\* The ID is looked up in m_retrievedIDs.
LEMMA SearchIDIInv ==
  ASSUME IInv, NEW t \in Threads, SearchID(t)
  PROVE  IInv'
<1>. DEFINE found == RefIDs(Top(t).name)[Top(t).k + 1] \in retrievedIDs
            c == [Top(t) EXCEPT !.pc = "insert", !.found = found]
<1>1. /\ ~Idle(t) /\ Top(t) \in Calls /\ CallOK(Top(t), collections)
      /\ Top(t).pc = "search"
  BY ResolvingCall DEF SearchID, At
<1>2. found \in BOOLEAN
  OBVIOUS
<1>3. SetTop(t, c)
  BY DEF SearchID
<1>. HIDE DEF found
<1>4. c \in Calls
  BY <1>1, <1>2 DEF Calls
<1>5. CallOK(c, collections) /\ c.pc # "wait"
  BY <1>1 DEF CallOK, Calls
<1>. HIDE DEF c
<1>6. UNCHANGED <<extracting, rawData, collections, collectionID, idTable,
                  retrievedIDs, relations, result>>
  BY DEF SearchID
<1>7. relations' \in [Names -> Seq(Colls \cup {NoColl})]
  BY <1>6 DEF IInv, TypeOK
<1>. QED BY <1>1, <1>3, <1>4, <1>5, <1>6, <1>7, TopIInv

\* The ID is inserted and doGet is called for the related collection.
LEMMA InsertIDIInv ==
  ASSUME IInv, NEW t \in Threads, InsertID(t)
  PROVE  IInv'
<1>. DEFINE c == Call(Top(t).target, ~Top(t).found, "find")
            d == [Top(t) EXCEPT !.pc = "wait"]
<1>1. /\ ~Idle(t) /\ Top(t) \in Calls /\ CallOK(Top(t), collections)
      /\ Top(t).pc = "insert"
  BY ResolvingCall DEF InsertID, At
<1>2. Top(t).target \in Names
  BY <1>1 DEF Calls
<1>3. c \in Calls /\ c.pc = "find"
  BY <1>2 DEF Call, Calls
<1>4. CallOK(c, collections') /\ c.pc # "wait"
  BY <1>3 DEF CallOK
<1>5. d \in Calls /\ d.pc = "wait"
  BY <1>1 DEF Calls
<1>6. CallOK(d, collections')
  BY <1>1 DEF CallOK, Calls, InsertID
<1>7. /\ stack[t] \in Seq(Calls) /\ stack[t] # <<>> /\ StackOK(stack[t], collections')
  BY <1>1, TopOK DEF InsertID
<1>8. stack' = [stack EXCEPT ![t] = <<c, d>> \o Tail(stack[t])]
  BY DEF InsertID, IInv, TypeOK
<1>. HIDE DEF c, d
<1>9. <<c, d>> \o Tail(stack[t]) \in Seq(Calls) /\ StackOK(<<c, d>> \o Tail(stack[t]), collections')
  BY <1>3, <1>4, <1>5, <1>6, <1>7, StackOKPushCall
<1>10. UNCHANGED <<extracting, rawData, collections, collectionID, relations, idTable, result>>
  BY DEF InsertID
<1>11. stack' \in [Threads -> Seq(Calls)] /\ CallsOK'
  BY <1>8, <1>9, <1>10, MapUnchanged, CallsStep
<1>12. retrievedIDs' \subseteq Nat
  BY InsertedID DEF InsertID, IInv, TypeOK
<1>13. TypeOK'
  BY <1>10, <1>11, <1>12 DEF IInv, TypeOK
<1>. QED BY <1>10, <1>11, <1>13, DataUnchanged DEF IInv

\* try_emplace stores the collection of a user.
LEMMA PutIInv ==
  ASSUME IInv, NEW t \in Threads, NEW n \in Names, Put(t, n)
  PROVE  IInv'
<1>1. /\ collections' \in MapType /\ Final(collections, collections')
      /\ \A m \in Names \ {n} : collections'[m] = collections[m]
      /\ collections'[n] \in Colls /\ collections'[n].origin = "put"
  BY PutMap
<1>2. Call(n, FALSE, "add") \in Calls
      /\ Call(n, FALSE, "add").pc = "add" /\ Call(n, FALSE, "add").name = n
  BY DEF Call, Calls
<1>3. CallOK(Call(n, FALSE, "add"), collections')
  BY <1>1, <1>2, ConstantsAssumption DEF CallOK
<1>4. stack' \in [Threads -> Seq(Calls)] /\ CallsOK'
  BY <1>1, <1>2, <1>3, OneCall, CallsStep DEF Put
<1>5. NoResult \in Results
  BY DEF NoResult, Result, Results
<1>6. TypeOK'
  BY <1>1, <1>4, <1>5 DEF IInv, TypeOK, Put, MapType
<1>7. DataOK'
  BY <1>1 DEF IInv, DataOK, StoredRaw, Stored, Put
<1>. QED BY <1>4, <1>6, <1>7 DEF IInv

\* The name of the put collection is added to the table.
LEMMA PutAddIInv ==
  ASSUME IInv, NEW t \in Threads, PutAdd(t)
  PROVE  IInv'
<1>. DEFINE n == Top(t).name
<1>1. n \in Names /\ ~Idle(t)
  BY TopOK DEF PutAdd, At
<1>2. idTable' = AddName(idTable, n) /\ idTable \in Tables /\ WellFormed(idTable)
  BY DEF PutAdd, IInv, TypeOK, DataOK
<1>3. idTable' \in Tables /\ WellFormed(idTable')
  BY <1>1, <1>2, AddNameWellFormed
<1>4. \A m \in RawNames : Known(idTable', m)
  BY <1>1, <1>2, AddNameStable DEF IInv, DataOK
<1>5. stack' \in [Threads -> Seq(Calls)] /\ CallsOK'
  BY NoCalls, MapUnchanged, CallsStep DEF PutAdd
<1>6. collectionID' \in [Names -> Nat \cup {NoID}]
  BY <1>1, <1>3, LookupType DEF PutAdd, IInv, TypeOK
<1>7. Result("put", n, collections[n]) \in Results
  BY <1>1 DEF Result, Results, IInv, TypeOK
<1>8. TypeOK'
  BY <1>3, <1>5, <1>6, <1>7 DEF IInv, TypeOK, PutAdd
<1>9. DataOK'
  BY <1>3, <1>4 DEF IInv, DataOK, StoredRaw, Stored, PutAdd
<1>. QED BY <1>5, <1>8, <1>9 DEF IInv

\* put throws.
LEMMA PutExistsIInv ==
  ASSUME IInv, NEW t \in Threads, NEW n \in Names, PutExists(t, n)
  PROVE  IInv'
<1>. USE DEF PutExists
<1>1. Result("exists", n, NoColl) \in Results
  BY DEF Result, Results
<1>2. TypeOK'
  BY <1>1 DEF IInv, TypeOK
<1>3. CallsOK'
  BY DEF IInv, CallsOK
<1>. QED BY <1>2, <1>3, DataUnchanged DEF IInv

\* Every step of the frame preserves IInv.
THEOREM IInvStep == IInv /\ [Next]_vars => IInv'
<1>. SUFFICES ASSUME IInv, [Next]_vars PROVE IInv'
  OBVIOUS
<1>1. ASSUME NEW t \in Threads, Step(t)
      PROVE  IInv'
  BY <1>1, FindHitIInv, FindMissIInv, UnpackIInv, UnpackNothingIInv, UnpackThrowsIInv,
     EmplaceForRefsIInv, EmplaceOnlyIInv, RefUnknownIInv, RefKnownIInv, RefsDoneIInv,
     SearchIDIInv, InsertIDIInv, PutAddIInv DEF Step
<1>2. ASSUME NEW t \in Threads, NEW n \in Names, Get(t, n)
      PROVE  IInv'
  BY <1>2, GetIInv
<1>3. ASSUME NEW t \in Threads, NEW n \in PutNames, Put(t, n) \/ PutExists(t, n)
      PROVE  IInv'
  BY <1>3, PutIInv, PutExistsIInv, ConstantsAssumption
<1>4. CASE UNCHANGED vars
  BY <1>4 DEF vars, IInv, TypeOK, CallsOK, DataOK, StoredRaw, Stored
<1>. QED BY <1>1, <1>2, <1>3, <1>4 DEF Next

\* Every variable of the frame keeps its type.
THEOREM TypeCorrect == Spec => []TypeOK
<1>1. IInv => TypeOK
  BY DEF IInv
<1>. QED BY <1>1, IInvInit, IInvStep, PTL DEF Spec
-----------------------------------------------------------------------------
(* Results.                                                                *)

\* No step replaces or removes an entry of the map.
LEMMA MapFinalStep ==
  ASSUME IInv, [Next]_vars
  PROVE  collections' \in MapType /\ Final(collections, collections')
<1>1. ASSUME NEW t \in Threads, EmplaceForRefs(t) \/ EmplaceOnly(t)
      PROVE  collections' \in MapType /\ Final(collections, collections')
  BY <1>1, EmplacedMap DEF EmplaceForRefs, EmplaceOnly
<1>2. ASSUME NEW t \in Threads, NEW n \in PutNames, Put(t, n)
      PROVE  collections' \in MapType /\ Final(collections, collections')
  BY <1>2, PutMap, ConstantsAssumption
<1>3. ASSUME UNCHANGED collections
      PROVE  collections' \in MapType /\ Final(collections, collections')
  BY <1>3, MapUnchanged
<1>. QED
  BY <1>1, <1>2, <1>3 DEF Next, vars, Step, Get, FindHit, FindMiss, Unpack, UnpackNothing,
     UnpackThrows, RefUnknown, RefKnown, RefsDone, SearchID, InsertID, PutAdd, PutExists

\* An entry of the map is never replaced or removed.
THEOREM EntriesFinal == Spec => MapEntriesFinal
<1>1. ASSUME IInv, [Next]_vars
      PROVE  [\A n \in Names : Stored(n) => collections'[n] = collections[n]]_vars
  BY <1>1, MapFinalStep DEF Final, Stored
<1>. QED BY <1>1, IInvInit, IInvStep, PTL DEF Spec, MapEntriesFinal

\* ResultsAreStored, with the fact that a result that has a collection has
\* its name.
ResultsInv ==
  \A t \in Threads : result[t].coll # NoColl =>
    result[t].name \in Names /\ collections[result[t].name] = result[t].coll

\* The collection that a step puts in a result is the one that is in the map.
LEMMA NewResult ==
  ASSUME IInv, ResultsInv, [Next]_vars, NEW t \in Threads, NEW r,
         r.coll # NoColl => r.name \in Names /\ collections'[r.name] = r.coll,
         result' = [result EXCEPT ![t] = r]
  PROVE  ResultsInv'
<1>1. result'[t] = r /\ \A u \in Threads : u # t => result'[u] = result[u]
  BY DEF IInv, TypeOK
<1>2. ASSUME NEW u \in Threads, result[u].coll # NoColl
      PROVE  result[u].name \in Names /\ collections'[result[u].name] = result[u].coll
  BY <1>2, MapFinalStep DEF ResultsInv, Final
<1>. QED BY <1>1, <1>2 DEF ResultsInv

\* A step that puts nothing in a result.
LEMMA SameResults ==
  ASSUME IInv, ResultsInv, [Next]_vars, UNCHANGED result
  PROVE  ResultsInv'
BY MapFinalStep DEF ResultsInv, Final

\* What a call returns is nothing or the entry of the map under its name.
LEMMA ReturnResult ==
  ASSUME IInv, ResultsInv, [Next]_vars, NEW t \in Threads, ~Idle(t), NEW coll,
         coll # NoColl => collections'[Top(t).name] = coll, Return(t, coll)
  PROVE  ResultsInv'
<1>1. CASE result' = [result EXCEPT ![t] = Result("get", Top(t).name, coll)]
  <2>. DEFINE r == Result("get", Top(t).name, coll)
  <2>1. r.coll = coll /\ r.name = Top(t).name /\ Top(t).name \in Names
    BY TopOK DEF Result
  <2>. HIDE DEF r
  <2>2. result' = [result EXCEPT ![t] = r]
    BY <1>1 DEF r
  <2>. QED BY <2>1, <2>2, NewResult
<1>2. CASE UNCHANGED result
  BY <1>2, SameResults
<1>. QED BY <1>1, <1>2 DEF Return

\* Every step preserves ResultsInv.
LEMMA ResultsStep ==
  ASSUME IInv, ResultsInv, [Next]_vars
  PROVE  ResultsInv'
<1>1. ASSUME NEW t \in Threads, FindHit(t)
      PROVE  ResultsInv'
  <2>. DEFINE coll == collections[Top(t).name]
  <2>1. ~Idle(t) /\ Return(t, coll) /\ collections'[Top(t).name] = coll
    BY <1>1 DEF FindHit, At
  <2>. HIDE DEF coll
  <2>. QED BY <2>1, ReturnResult
<1>2. ASSUME NEW t \in Threads, UnpackNothing(t)
      PROVE  ResultsInv'
  BY <1>2, ReturnResult DEF UnpackNothing, At
<1>3. ASSUME NEW t \in Threads, EmplaceOnly(t)
      PROVE  ResultsInv'
  <2>1. ~Idle(t) /\ Return(t, collections'[Top(t).name])
    BY <1>3 DEF EmplaceOnly, At
  <2>. QED BY <2>1, ReturnResult
<1>4. ASSUME NEW t \in Threads, RefsDone(t)
      PROVE  ResultsInv'
  <2>. DEFINE coll == collections[Top(t).name]
  <2>1. ~Idle(t) /\ Return(t, coll) /\ collections'[Top(t).name] = coll
    BY <1>4 DEF RefsDone, At
  <2>. HIDE DEF coll
  <2>. QED BY <2>1, ReturnResult
<1>5. ASSUME NEW t \in Threads, NEW op, NEW n, result' = [result EXCEPT ![t] = Result(op, n, NoColl)]
      PROVE  ResultsInv'
  <2>. DEFINE r == Result(op, n, NoColl)
  <2>1. r.coll = NoColl
    BY DEF Result
  <2>. HIDE DEF r
  <2>2. result' = [result EXCEPT ![t] = r]
    BY <1>5 DEF r
  <2>. QED BY <2>1, <2>2, NewResult
<1>6. ASSUME NEW t \in Threads, UnpackThrows(t)
      PROVE  ResultsInv'
  BY <1>5, <1>6 DEF UnpackThrows
<1>7. ASSUME NEW t \in Threads, NEW n, Get(t, n) \/ Put(t, n) \/ PutExists(t, n)
      PROVE  ResultsInv'
  BY <1>5, <1>7 DEF Get, Put, PutExists, NoResult
<1>8. ASSUME NEW t \in Threads, PutAdd(t)
      PROVE  ResultsInv'
  <2>. DEFINE r == Result("put", Top(t).name, collections[Top(t).name])
  <2>1. r.name \in Names /\ r.name = Top(t).name /\ r.coll = collections[Top(t).name]
    BY <1>8, TopOK DEF Result, PutAdd, At
  <2>. HIDE DEF r
  <2>2. result' = [result EXCEPT ![t] = r] /\ collections' = collections
    BY <1>8 DEF r, PutAdd
  <2>. QED BY <2>1, <2>2, NewResult
<1>9. ASSUME UNCHANGED result
      PROVE  ResultsInv'
  BY <1>9, SameResults
<1>. QED
  BY <1>1, <1>2, <1>3, <1>4, <1>6, <1>7, <1>8, <1>9 DEF Next, Step, vars, FindMiss, Unpack,
     EmplaceForRefs, RefUnknown, RefKnown, SearchID, InsertID

\* All threads see the same collection under a name: what get and put return
\* is what is in the map, then and ever after.
THEOREM ReturnedIsStored == Spec => []ResultsAreStored
<1>1. Init => ResultsInv
  BY DEF Init, ResultsInv, NoResult, Result
<1>2. IInv /\ ResultsInv /\ [Next]_vars => ResultsInv'
  BY ResultsStep
<1>3. ResultsInv => ResultsAreStored
  BY DEF ResultsInv, ResultsAreStored
<1>. QED BY <1>1, <1>2, <1>3, IInvInit, IInvStep, PTL DEF Spec

-----------------------------------------------------------------------------
(* Buffers in the hands of threads.                                        *)

\* Only t's innermost call changes, to c.
LEMMA HandOfTop ==
  ASSUME IInv, NEW t \in Threads, ~Idle(t), NEW c \in Calls, SetTop(t, c)
  PROVE  /\ Top(t)' = c /\ ~Idle(t)'
         /\ \A u \in Threads : u # t => stack'[u] = stack[u]
<1>1. stack[t] \in Seq(Calls) /\ stack[t] # <<>> /\ stack \in [Threads -> Seq(Calls)]
  BY TopOK DEF IInv, TypeOK
<1>. DEFINE s == <<c>> \o Tail(stack[t])
<1>2. s # <<>> /\ s[1] = c
  BY <1>1, ReplaceTop
<1>3. stack' = [stack EXCEPT ![t] = s]
  BY <1>1 DEF SetTop
<1>. HIDE DEF s
<1>. QED BY <1>1, <1>2, <1>3 DEF Top, Idle

\* After a return the innermost call of t, if there is one, resolves
\* relations.
LEMMA HandOfReturn ==
  ASSUME IInv, NEW t \in Threads, ~Idle(t), NEW coll, Return(t, coll)
  PROVE  /\ Idle(t)' \/ Top(t)'.pc = "refs"
         /\ \A u \in Threads : u # t => stack'[u] = stack[u]
<1>1. stack[t] \in Seq(Calls) /\ stack \in [Threads -> Seq(Calls)]
  BY TopOK DEF IInv, TypeOK
<1>2. CASE stack' = [stack EXCEPT ![t] = <<>>]
  BY <1>1, <1>2 DEF Idle
<1>3. CASE /\ Len(stack[t]) > 1
           /\ stack' = [stack EXCEPT ![t] =
                <<[stack[t][2] EXCEPT !.pc = "refs", !.k = @ + 1]>> \o Tail(Tail(@))]
  <2>. DEFINE c == [stack[t][2] EXCEPT !.pc = "refs", !.k = @ + 1]
              s == <<c>> \o Tail(Tail(stack[t]))
  <2>1. c \in Calls /\ c.pc = "refs"
    <3>1. 2 \in 1 .. Len(stack[t])
      BY <1>1, <1>3, LenProperties
    <3>2. stack[t][2] \in Calls
      BY <1>1, <3>1, ElementOfSeq
    <3>. QED BY <3>2, ResumedCall
  <2>. HIDE DEF c
  <2>2. s[1] = c
    BY <1>1, <1>3, <2>1, ReplaceCaller
  <2>3. stack' = [stack EXCEPT ![t] = s]
    BY <1>1, <1>3 DEF c
  <2>. HIDE DEF s
  <2>. QED BY <1>1, <2>1, <2>2, <2>3 DEF Top
<1>. QED BY <1>2, <1>3 DEF Return

\* t has nothing in its hands before and after the step, and nobody else's
\* hands change.
HandsUnchanged(t) ==
  /\ ~At(t, "emplace") /\ ~At(t, "emplace")'
  /\ \A u \in Threads : u # t => stack'[u] = stack[u]

\* A step that changes neither the raw data nor the map, and no hands.
QuietStep ==
  /\ UNCHANGED <<extracting, rawData, collections>>
  /\ \A u \in Threads : \A n \in Names : InHand(u, n)' <=> InHand(u, n)

\* t takes the buffers of a raw collection.
TakeStep(t, n) ==
  /\ ~At(t, "emplace") /\ At(t, "emplace")' /\ Top(t)'.name = n
  /\ \A u \in Threads : u # t => \A m \in Names : InHand(u, m)' <=> InHand(u, m)
  /\ n \in rawData
  /\ rawData' = IF extracting THEN rawData \ {n} ELSE rawData
  /\ UNCHANGED <<extracting, collections>>

\* t stores the raw collection it has in its hands, or drops it.
StoreStep(t, n) ==
  /\ InHand(t, n) /\ n \in RawNames /\ ~At(t, "emplace")'
  /\ \A u \in Threads : u # t => \A m \in Names : InHand(u, m)' <=> InHand(u, m)
  /\ \A m \in Names \ {n} : collections'[m] = collections[m]
  /\ collections'[n] \in Colls
  /\ Stored(n) => collections'[n] = collections[n]
  /\ ~Stored(n) => collections'[n].origin = "raw"
  /\ UNCHANGED <<extracting, rawData>>

\* A user stores a collection.
PutStep(n) ==
  /\ ~Stored(n)
  /\ \A u \in Threads : \A m \in Names : InHand(u, m)' <=> InHand(u, m)
  /\ \A m \in Names \ {n} : collections'[m] = collections[m]
  /\ collections'[n] \in Colls /\ collections'[n].origin = "put"
  /\ UNCHANGED <<extracting, rawData>>

\* HandsUnchanged in terms of the buffers of each name.
LEMMA HandsUnchangedQuiet ==
  ASSUME NEW t \in Threads, HandsUnchanged(t)
  PROVE  \A u \in Threads : \A n \in Names : InHand(u, n)' <=> InHand(u, n)
BY DEF HandsUnchanged, InHand, At, Idle, Top

\* Every step is of one of these kinds.
LEMMA StepKinds ==
  ASSUME IInv, [Next]_vars
  PROVE  \/ QuietStep
         \/ \E t \in Threads, n \in RawNames : TakeStep(t, n) \/ StoreStep(t, n)
         \/ \E n \in Names : PutStep(n)
<1>1. ASSUME NEW t \in Threads, ~At(t, "emplace"), ~Idle(t), NEW coll, Return(t, coll)
      PROVE  HandsUnchanged(t)
  BY <1>1, HandOfReturn DEF HandsUnchanged, At
<1>2. ASSUME NEW t \in Threads, FindHit(t) \/ UnpackNothing(t) \/ RefsDone(t)
      PROVE  QuietStep
  <2>1. HandsUnchanged(t)
    BY <1>1, <1>2 DEF FindHit, UnpackNothing, RefsDone, At
  <2>. QED BY <1>2, <2>1, HandsUnchangedQuiet DEF QuietStep, FindHit, UnpackNothing, RefsDone
<1>3. ASSUME NEW t \in Threads, NEW c \in Calls, c.pc # "emplace", ~Idle(t),
             ~At(t, "emplace"), SetTop(t, c)
      PROVE  HandsUnchanged(t)
  BY <1>3, HandOfTop DEF HandsUnchanged, At
<1>4. ASSUME NEW t \in Threads, FindMiss(t) \/ RefUnknown(t) \/ RefKnown(t) \/ SearchID(t)
      PROVE  QuietStep
  <2>1. Top(t) \in Calls /\ ~Idle(t) /\ ~At(t, "emplace")
    BY <1>4, TopOK DEF FindMiss, RefUnknown, RefKnown, SearchID, At
  <2>2. HandsUnchanged(t)
    <3>1. CASE FindMiss(t)
      <4>. DEFINE c == [Top(t) EXCEPT !.pc = "unpack"]
      <4>1. c \in Calls /\ c.pc = "unpack" /\ SetTop(t, c)
        BY <2>1, <3>1 DEF Calls, FindMiss
      <4>. HIDE DEF c
      <4>. QED BY <1>3, <2>1, <4>1
    <3>2. CASE RefUnknown(t)
      <4>. DEFINE c == [Top(t) EXCEPT !.k = @ + 1]
      <4>1. c \in Calls /\ c.pc = Top(t).pc /\ SetTop(t, c)
        BY <2>1, <3>2 DEF Calls, RefUnknown
      <4>. HIDE DEF c
      <4>. QED BY <1>3, <2>1, <3>2, <4>1 DEF RefUnknown, At
    <3>3. CASE RefKnown(t)
      <4>. DEFINE n == Top(t).name
                  name == NameOf(idTable, RefIDs(n)[Top(t).k + 1])
                  c == [Top(t) EXCEPT !.pc = "search", !.target = name]
      <4>1. name \in Names /\ SetTop(t, c)
        BY <3>3, LookupType DEF RefKnown, IInv, TypeOK
      <4>. HIDE DEF name
      <4>2. c \in Calls /\ c.pc = "search"
        BY <2>1, <4>1 DEF Calls
      <4>. HIDE DEF c
      <4>. QED BY <1>3, <2>1, <4>1, <4>2
    <3>4. CASE SearchID(t)
      <4>. DEFINE found == RefIDs(Top(t).name)[Top(t).k + 1] \in retrievedIDs
                  c == [Top(t) EXCEPT !.pc = "insert", !.found = found]
      <4>1. found \in BOOLEAN /\ SetTop(t, c)
        BY <3>4 DEF SearchID
      <4>. HIDE DEF found
      <4>2. c \in Calls /\ c.pc = "insert"
        BY <2>1, <4>1 DEF Calls
      <4>. HIDE DEF c
      <4>. QED BY <1>3, <2>1, <4>1, <4>2
    <3>. QED BY <1>4, <3>1, <3>2, <3>3, <3>4
  <2>. QED
    BY <1>4, <2>2, HandsUnchangedQuiet DEF QuietStep, FindMiss, RefUnknown, RefKnown, SearchID
<1>5. ASSUME NEW t \in Threads, UnpackThrows(t) \/ PutAdd(t)
      PROVE  QuietStep
  <2>1. HandsUnchanged(t)
    BY <1>5 DEF HandsUnchanged, UnpackThrows, PutAdd, At, Top, Idle, IInv, TypeOK
  <2>. QED BY <1>5, <2>1, HandsUnchangedQuiet DEF QuietStep, UnpackThrows, PutAdd
<1>6. ASSUME NEW t \in Threads, NEW n \in Names, Get(t, n)
      PROVE  QuietStep
  <2>1. HandsUnchanged(t)
    BY <1>6 DEF HandsUnchanged, Get, Call, At, Top, Idle, IInv, TypeOK
  <2>. QED BY <1>6, <2>1, HandsUnchangedQuiet DEF QuietStep, Get
<1>7. ASSUME NEW t \in Threads, InsertID(t)
      PROVE  QuietStep
  <2>1. /\ stack[t] \in Seq(Calls) /\ stack[t] # <<>> /\ Top(t) \in Calls
        /\ ~At(t, "emplace") /\ stack \in [Threads -> Seq(Calls)]
    BY <1>7, TopOK DEF InsertID, At, IInv, TypeOK
  <2>. DEFINE c == Call(Top(t).target, ~Top(t).found, "find")
              d == [Top(t) EXCEPT !.pc = "wait"]
              s == <<c, d>> \o Tail(stack[t])
  <2>2. c \in Calls /\ c.pc = "find" /\ d \in Calls
    BY <2>1 DEF Calls, Call
  <2>3. stack' = [stack EXCEPT ![t] = s]
    BY <1>7, <2>1 DEF InsertID
  <2>. HIDE DEF c, d
  <2>4. s[1] = c
    BY <2>1, <2>2, PushCall
  <2>. HIDE DEF s
  <2>5. HandsUnchanged(t)
    BY <2>1, <2>2, <2>3, <2>4 DEF HandsUnchanged, At, Top
  <2>. QED BY <1>7, <2>5, HandsUnchangedQuiet DEF QuietStep, InsertID
<1>8. ASSUME NEW t \in Threads, Unpack(t)
      PROVE  TakeStep(t, Top(t).name) /\ Top(t).name \in RawNames
  <2>. DEFINE c == [Top(t) EXCEPT !.pc = "emplace"]
  <2>1. Top(t) \in Calls /\ ~Idle(t) /\ ~At(t, "emplace")
    BY <1>8, TopOK DEF Unpack, At
  <2>2. c \in Calls /\ c.pc = "emplace" /\ c.name = Top(t).name /\ SetTop(t, c)
    BY <1>8, <2>1 DEF Calls, Unpack
  <2>. HIDE DEF c
  <2>3. Top(t)' = c /\ ~Idle(t)' /\ \A u \in Threads : u # t => stack'[u] = stack[u]
    BY <2>1, <2>2, HandOfTop
  <2>. QED
    BY <1>8, <2>1, <2>2, <2>3 DEF TakeStep, Unpack, At, InHand, Top, Idle, IInv, TypeOK
<1>9. ASSUME NEW t \in Threads, EmplaceForRefs(t) \/ EmplaceOnly(t)
      PROVE  StoreStep(t, Top(t).name) /\ Top(t).name \in RawNames
  <2>1. At(t, "emplace") /\ Emplaced(t) /\ UNCHANGED <<extracting, rawData>>
    BY <1>9 DEF EmplaceForRefs, EmplaceOnly
  <2>2. /\ Final(collections, collections')
        /\ \A n \in Names \ {Top(t).name} : collections'[n] = collections[n]
        /\ Top(t).name \in RawNames /\ collections'[Top(t).name] \in Colls
        /\ ~Stored(Top(t).name) => collections'[Top(t).name].origin = "raw"
    BY <2>1, EmplacedMap
  <2>3. Top(t) \in Calls /\ ~Idle(t) /\ Top(t).name \in Names
    BY <2>1, TopOK DEF At
  <2>4. ~At(t, "emplace")' /\ \A u \in Threads : u # t => stack'[u] = stack[u]
    <3>1. CASE EmplaceForRefs(t)
      <4>. DEFINE c == [Top(t) EXCEPT !.pc = "refs"]
      <4>1. c \in Calls /\ c.pc = "refs" /\ SetTop(t, c)
        BY <2>3, <3>1 DEF Calls, EmplaceForRefs
      <4>. HIDE DEF c
      <4>. QED BY <2>3, <4>1, HandOfTop DEF At
    <3>2. CASE EmplaceOnly(t)
      <4>1. Return(t, collections'[Top(t).name])
        BY <3>2 DEF EmplaceOnly
      <4>. QED BY <2>3, <4>1, HandOfReturn DEF At
    <3>. QED BY <1>9, <3>1, <3>2
  <2>. QED
    BY <2>1, <2>2, <2>3, <2>4 DEF StoreStep, InHand, At, Top, Idle, Final, Stored
<1>10. ASSUME NEW t \in Threads, NEW n \in Names, Put(t, n)
       PROVE  PutStep(n)
  <2>1. HandsUnchanged(t)
    BY <1>10 DEF HandsUnchanged, Put, Call, At, Top, Idle, IInv, TypeOK
  <2>. QED BY <1>10, <2>1, PutMap, HandsUnchangedQuiet DEF PutStep, Put, Stored
<1>11. ASSUME NEW t \in Threads, NEW n, PutExists(t, n)
       PROVE  QuietStep
  BY <1>11 DEF QuietStep, PutExists, InHand, At, Idle, Top
<1>12. CASE UNCHANGED vars
  BY <1>12 DEF vars, QuietStep, InHand, At, Idle, Top
<1>. QED
  BY <1>2, <1>4, <1>5, <1>6, <1>7, <1>8, <1>9, <1>10, <1>11, <1>12, ConstantsAssumption
  DEF Next, Step

\* The buffers of a raw collection are always in exactly one place: unpacked
\* at most once and never lost, but for a collection of a user.
THEOREM BuffersConserved == Spec => []BuffersInOnePlace
<1>1. Init => BuffersInOnePlace
  <2>. SUFFICES ASSUME Init PROVE BuffersInOnePlace
    OBVIOUS
  <2>1. rawData = RawNames /\ \A n \in Names : ~ StoredRaw(n)
    BY DEF Init, StoredRaw, Stored
  <2>2. \A t \in Threads, n \in RawNames : ~ InHand(t, n)
    BY DEF Init, InHand, At, Idle
  <2>. QED BY <2>1, <2>2, ConstantsAssumption DEF BuffersInOnePlace
<1>2. ASSUME IInv, BuffersInOnePlace, [Next]_vars
      PROVE  BuffersInOnePlace'
  <2>1. rawData \subseteq RawNames /\ RawNames \subseteq Names
    BY <1>2, ConstantsAssumption DEF IInv, TypeOK
  <2>. SUFFICES ASSUME extracting'
                PROVE  \A m \in RawNames :
                         /\ m \in rawData' \/ (\E t \in Threads : InHand(t, m)') \/ Stored(m)'
                         /\ m \in rawData' => ~StoredRaw(m)' /\ \A t \in Threads : ~InHand(t, m)'
                         /\ \A t, u \in Threads : InHand(t, m)' /\ InHand(u, m)' => t = u
                         /\ \A t \in Threads : InHand(t, m)' => ~StoredRaw(m)'
    BY DEF BuffersInOnePlace
  <2>2. CASE QuietStep
    BY <1>2, <2>1, <2>2 DEF BuffersInOnePlace, QuietStep, StoredRaw, Stored
  <2>3. ASSUME NEW t \in Threads, NEW n \in RawNames, TakeStep(t, n), NEW m \in RawNames
        PROVE  /\ m \in rawData' \/ (\E v \in Threads : InHand(v, m)') \/ Stored(m)'
               /\ m \in rawData' => ~StoredRaw(m)' /\ \A v \in Threads : ~InHand(v, m)'
               /\ \A v, u \in Threads : InHand(v, m)' /\ InHand(u, m)' => v = u
               /\ \A v \in Threads : InHand(v, m)' => ~StoredRaw(m)'
    <3>1. extracting /\ rawData' = rawData \ {n} /\ n \in rawData
      BY <2>3 DEF TakeStep
    <3>2. Stored(m)' = Stored(m) /\ StoredRaw(m)' = StoredRaw(m)
      BY <2>3 DEF TakeStep, StoredRaw, Stored
    <3>3. InHand(t, n)' /\ \A k \in Names : k # n => ~InHand(t, k)'
      BY <2>3 DEF TakeStep, InHand
    <3>4. \A k \in Names : ~InHand(t, k)
      BY <2>3 DEF TakeStep, InHand
    <3>5. \A u \in Threads : u # t => \A k \in Names : InHand(u, k)' <=> InHand(u, k)
      BY <2>3 DEF TakeStep
    <3>6. CASE m = n
      BY <1>2, <2>1, <2>3, <3>1, <3>2, <3>3, <3>5, <3>6 DEF BuffersInOnePlace
    <3>7. CASE m # n
      BY <1>2, <2>1, <2>3, <3>1, <3>2, <3>3, <3>4, <3>5, <3>7 DEF BuffersInOnePlace
    <3>. QED BY <3>6, <3>7
  <2>4. ASSUME NEW t \in Threads, NEW n \in RawNames, StoreStep(t, n), NEW m \in RawNames
        PROVE  /\ m \in rawData' \/ (\E v \in Threads : InHand(v, m)') \/ Stored(m)'
               /\ m \in rawData' => ~StoredRaw(m)' /\ \A v \in Threads : ~InHand(v, m)'
               /\ \A v, u \in Threads : InHand(v, m)' /\ InHand(u, m)' => v = u
               /\ \A v \in Threads : InHand(v, m)' => ~StoredRaw(m)'
    <3>1. extracting /\ rawData' = rawData
      BY <2>4 DEF StoreStep
    <3>2. \A k \in Names : ~InHand(t, k)'
      BY <2>4 DEF StoreStep, InHand
    <3>3. \A u \in Threads : u # t => \A k \in Names : InHand(u, k)' <=> InHand(u, k)
      BY <2>4 DEF StoreStep
    <3>4. CASE m = n
      <4>1. InHand(t, n) /\ Stored(n)'
        BY <2>4, ConstantsAssumption DEF StoreStep, Stored
      <4>. QED BY <1>2, <2>1, <2>4, <3>1, <3>2, <3>3, <3>4, <4>1 DEF BuffersInOnePlace
    <3>5. CASE m # n
      <4>1. ~InHand(t, m) /\ Stored(m)' = Stored(m) /\ StoredRaw(m)' = StoredRaw(m)
        BY <2>1, <2>4, <3>5 DEF StoreStep, InHand, Stored, StoredRaw
      <4>. QED BY <1>2, <2>1, <2>4, <3>1, <3>2, <3>3, <3>5, <4>1 DEF BuffersInOnePlace
    <3>. QED BY <3>4, <3>5
  <2>5. ASSUME NEW n \in Names, PutStep(n), NEW m \in RawNames
        PROVE  /\ m \in rawData' \/ (\E v \in Threads : InHand(v, m)') \/ Stored(m)'
               /\ m \in rawData' => ~StoredRaw(m)' /\ \A v \in Threads : ~InHand(v, m)'
               /\ \A v, u \in Threads : InHand(v, m)' /\ InHand(u, m)' => v = u
               /\ \A v \in Threads : InHand(v, m)' => ~StoredRaw(m)'
    <3>1. extracting /\ rawData' = rawData
          /\ \A u \in Threads : \A k \in Names : InHand(u, k)' <=> InHand(u, k)
      BY <2>5 DEF PutStep
    <3>2. StoredRaw(m)' => StoredRaw(m)
      BY <2>1, <2>5 DEF PutStep, StoredRaw, Stored
    <3>3. Stored(m) => Stored(m)'
      BY <2>1, <2>5 DEF PutStep, Stored
    <3>. QED BY <1>2, <2>1, <2>5, <3>1, <3>2, <3>3 DEF BuffersInOnePlace
  <2>. QED BY <1>2, <2>2, <2>3, <2>4, <2>5, StepKinds
<1>. QED BY <1>1, <1>2, IInvInit, IInvStep, PTL DEF Spec

-----------------------------------------------------------------------------
(* The frame implements FrameStore.                                        *)

\* A step changes the state of one name, or of none.
LEMMA StateAfter ==
  ASSUME NEW n \in Names, NEW st,
         \A m \in Names : StateOf(m)' = IF m = n THEN st ELSE StateOf(m)
  PROVE  [m \in Names |-> StateOf(m)]' = [[m \in Names |-> StateOf(m)] EXCEPT ![n] = st]
OBVIOUS

\* Every step is a step of FrameStore or a stutter.
LEMMA StepImplements ==
  ASSUME IInv, BuffersInOnePlace, [Next]_vars
  PROVE  [Store!StoreNext]_(Store!storeVars)
<1>1. RawNames \subseteq Names /\ rawData \subseteq RawNames
  BY ConstantsAssumption DEF IInv, TypeOK
<1>2. CASE QuietStep
  <2>1. \A n \in Names : StateOf(n)' = StateOf(n)
    BY <1>2 DEF QuietStep, StateOf, StoredRaw, Stored
  <2>. QED BY <1>2, <2>1 DEF QuietStep, Store!storeVars
<1>3. ASSUME NEW t \in Threads, NEW n \in RawNames, TakeStep(t, n)
      PROVE  [Store!StoreNext]_(Store!storeVars)
  <2>1. \A m \in Names : Stored(m)' = Stored(m) /\ StoredRaw(m)' = StoredRaw(m)
    BY <1>3 DEF TakeStep, StoredRaw, Stored
  <2>2. CASE extracting /\ ~Stored(n)
    <3>1. StateOf(n) = "raw" /\ StateOf(n)' = "loading"
      BY <1>1, <1>3, <2>1, <2>2 DEF TakeStep, StateOf, StoredRaw
    <3>2. \A m \in Names : m # n => StateOf(m)' = StateOf(m)
      BY <1>3, <2>1, <2>2 DEF TakeStep, StateOf
    <3>3. [m \in Names |-> StateOf(m)]' = [[m \in Names |-> StateOf(m)] EXCEPT ![n] = "loading"]
      BY <1>1, <3>1, <3>2, StateAfter
    <3>4. Store!Take(n)
      BY <1>1, <1>3, <2>2, <3>1, <3>3 DEF Store!Take, TakeStep
    <3>. QED BY <1>1, <3>4 DEF Store!StoreNext
  <2>3. CASE ~extracting \/ Stored(n)
    <3>1. \A m \in Names : StateOf(m)' = StateOf(m)
      BY <1>3, <2>1, <2>3 DEF TakeStep, StateOf, StoredRaw
    <3>. QED BY <1>3, <3>1 DEF TakeStep, Store!storeVars
  <2>. QED BY <2>2, <2>3
<1>4. ASSUME NEW t \in Threads, NEW n \in RawNames, StoreStep(t, n)
      PROVE  [Store!StoreNext]_(Store!storeVars)
  <2>1. \A m \in Names : m # n => StateOf(m)' = StateOf(m)
    BY <1>4 DEF StoreStep, StateOf, StoredRaw, Stored
  <2>2. CASE Stored(n)
    <3>1. StateOf(n)' = StateOf(n)
      BY <1>4, <2>2 DEF StoreStep, StateOf, StoredRaw, Stored
    <3>. QED BY <1>4, <2>1, <3>1 DEF StoreStep, Store!storeVars
  <2>3. CASE ~Stored(n)
    <3>1. StoredRaw(n)'
      BY <1>4, <2>3, ConstantsAssumption DEF StoreStep, StoredRaw, Stored
    <3>2. StateOf(n)' = "unpacked"
      BY <3>1 DEF StateOf, StoredRaw
    <3>3. StateOf(n) = IF extracting THEN "loading" ELSE "raw"
      <4>1. CASE extracting
        <5>1. n \notin rawData
          BY <1>4, <4>1 DEF BuffersInOnePlace, StoreStep
        <5>. QED BY <2>3, <4>1, <5>1 DEF StateOf, StoredRaw
      <4>2. CASE ~extracting
        BY <2>3, <4>2 DEF StateOf, StoredRaw, IInv, DataOK
      <4>. QED BY <4>1, <4>2
    <3>4. [m \in Names |-> StateOf(m)]' = [[m \in Names |-> StateOf(m)] EXCEPT ![n] = "unpacked"]
      BY <1>1, <2>1, <3>2, StateAfter
    <3>5. Store!Store(n)
      BY <1>1, <1>4, <3>3, <3>4 DEF Store!Store, StoreStep
    <3>. QED BY <1>1, <3>5 DEF Store!StoreNext
  <2>. QED BY <2>2, <2>3
<1>5. ASSUME NEW n \in Names, PutStep(n)
      PROVE  [Store!StoreNext]_(Store!storeVars)
  <2>1. \A m \in Names : m # n => StateOf(m)' = StateOf(m)
    BY <1>5 DEF PutStep, StateOf, StoredRaw, Stored
  <2>2. StateOf(n) \in {"absent", "raw", "loading"}
    BY <1>5 DEF PutStep, StateOf, StoredRaw
  <2>3. StateOf(n)' = "put"
    BY <1>5, ConstantsAssumption DEF PutStep, StateOf, StoredRaw, Stored
  <2>4. [m \in Names |-> StateOf(m)]' = [[m \in Names |-> StateOf(m)] EXCEPT ![n] = "put"]
    BY <2>1, <2>3, StateAfter
  <2>5. Store!PutNew(n)
    BY <1>5, <2>2, <2>4 DEF Store!PutNew, PutStep
  <2>. QED BY <2>5 DEF Store!StoreNext
<1>. QED BY <1>2, <1>3, <1>4, <1>5, StepKinds

\* The frame keeps the promises of FrameStore, with any number of threads.
THEOREM FrameImplementsStore == Spec => ImplementsStore
<1>1. Init => Store!StoreInit
  <2>. SUFFICES ASSUME Init PROVE Store!StoreInit
    OBVIOUS
  <2>1. extracting \in BOOLEAN
    BY ConstantsAssumption DEF Init
  <2>2. \A n \in Names : StateOf(n) = IF n \in RawNames THEN "raw" ELSE "absent"
    BY DEF Init, StateOf, StoredRaw, Stored
  <2>. QED BY <2>1, <2>2 DEF Store!StoreInit
<1>2. IInv /\ BuffersInOnePlace /\ [Next]_vars => [Store!StoreNext]_(Store!storeVars)
  BY StepImplements
<1>3. Spec => []BuffersInOnePlace
  BY BuffersConserved
<1>. QED BY <1>1, <1>2, <1>3, IInvInit, IInvStep, PTL DEF Spec, ImplementsStore, Store!StoreSpec

-----------------------------------------------------------------------------
(* Collection IDs.                                                         *)

\* Thread t is in a put of n that has not added the name to the table.
Adding(t, n) == At(t, "add") /\ Top(t).name = n

\* A stored collection is known to the table and has the ID of its name, but
\* for the put that is still adding it.
IDInv ==
  \A n \in Names : Stored(n) /\ (\A t \in Threads : ~Adding(t, n)) =>
    Known(idTable, n) /\ collectionID[n] = CollectionID(idTable, n)

\* A thread changes only its own stack.
LEMMA OwnStack ==
  ASSUME IInv, NEW t \in Threads,
         Step(t) \/ (\E n \in Names : Get(t, n) \/ Put(t, n) \/ PutExists(t, n))
  PROVE  \A u \in Threads : u # t => stack'[u] = stack[u]
BY DEF Step, Get, Put, PutExists, FindHit, FindMiss, Unpack, UnpackNothing, UnpackThrows,
   EmplaceForRefs, EmplaceOnly, RefUnknown, RefKnown, RefsDone, SearchID, InsertID, PutAdd,
   Return, SetTop, IInv, TypeOK

\* Every step preserves IDInv.
LEMMA IDStep ==
  ASSUME IInv, IDInv, [Next]_vars
  PROVE  IDInv'
<1>1. ASSUME NEW t \in Threads, ~At(t, "add"), \A u \in Threads : u # t => stack'[u] = stack[u]
      PROVE  \A u \in Threads, n \in Names : Adding(u, n) => Adding(u, n)'
  BY <1>1 DEF Adding, At, Top, Idle
<1>2. ASSUME NEW t \in Threads, ~At(t, "add"), \A u \in Threads : u # t => stack'[u] = stack[u],
             UNCHANGED <<collections, collectionID, idTable>>
      PROVE  IDInv'
  BY <1>1, <1>2 DEF IDInv, Stored
<1>3. ASSUME NEW t \in Threads,
             \/ FindHit(t) \/ FindMiss(t) \/ Unpack(t) \/ UnpackNothing(t) \/ UnpackThrows(t)
             \/ RefUnknown(t) \/ RefKnown(t) \/ RefsDone(t) \/ SearchID(t) \/ InsertID(t)
      PROVE  IDInv'
  <2>1. ~At(t, "add") /\ UNCHANGED <<collections, collectionID, idTable>>
    BY <1>3 DEF At, FindHit, FindMiss, Unpack, UnpackNothing, UnpackThrows, RefUnknown,
       RefKnown, RefsDone, SearchID, InsertID
  <2>2. Step(t)
    BY <1>3 DEF Step
  <2>. QED BY <1>2, <2>1, <2>2, OwnStack
<1>4. ASSUME NEW t \in Threads, NEW n \in Names, Get(t, n) \/ PutExists(t, n)
      PROVE  IDInv'
  <2>1. ~At(t, "add") /\ UNCHANGED <<collections, collectionID, idTable>>
    BY <1>4 DEF Get, PutExists, At
  <2>. QED BY <1>2, <1>4, <2>1, OwnStack
<1>5. ASSUME NEW t \in Threads, EmplaceForRefs(t) \/ EmplaceOnly(t)
      PROVE  IDInv'
  <2>. DEFINE n == Top(t).name
  <2>1. At(t, "emplace") /\ Emplaced(t) /\ UNCHANGED idTable
    BY <1>5 DEF EmplaceForRefs, EmplaceOnly
  <2>2. /\ Final(collections, collections') /\ n \in RawNames /\ n \in Names
        /\ \A m \in Names \ {n} : /\ collections'[m] = collections[m]
                                  /\ collectionID'[m] = collectionID[m]
        /\ ~Stored(n) => collectionID'[n] = CollectionID(idTable, n)
    BY <2>1, EmplacedMap, ConstantsAssumption
  <2>3. Stored(n) => collectionID'[n] = collectionID[n]
    BY <2>1 DEF Emplaced, Stored
  <2>4. \A u \in Threads, m \in Names : Adding(u, m) => Adding(u, m)'
    BY <1>1, <1>5, <2>1, OwnStack DEF Step, At
  <2>5. Known(idTable, n)
    BY <2>2 DEF IInv, DataOK
  <2>. HIDE DEF n
  <2>6. ASSUME NEW m \in Names, Stored(m)', \A u \in Threads : ~Adding(u, m)'
        PROVE  Known(idTable, m) /\ collectionID'[m] = CollectionID(idTable, m)
    <3>1. \A u \in Threads : ~Adding(u, m)
      BY <2>4, <2>6
    <3>2. CASE m = n
      BY <2>2, <2>3, <2>5, <3>1, <3>2 DEF IDInv
    <3>3. CASE m # n
      BY <2>2, <2>6, <3>1, <3>3 DEF IDInv, Stored
    <3>. QED BY <3>2, <3>3
  <2>. QED BY <2>1, <2>6 DEF IDInv
<1>6. ASSUME NEW t \in Threads, NEW n \in Names, Put(t, n)
      PROVE  IDInv'
  <2>1. \A u \in Threads, m \in Names : Adding(u, m) => Adding(u, m)'
    BY <1>1, <1>6, OwnStack DEF Put, At
  <2>2. Adding(t, n)'
    BY <1>6 DEF Put, Call, Adding, At, Idle, Top, IInv, TypeOK
  <2>3. UNCHANGED <<collectionID, idTable>> /\ \A m \in Names \ {n} : collections'[m] = collections[m]
    BY <1>6, PutMap DEF Put
  <2>. QED BY <2>1, <2>2, <2>3 DEF IDInv, Stored
<1>7. ASSUME NEW t \in Threads, PutAdd(t)
      PROVE  IDInv'
  <2>. DEFINE n == Top(t).name
  <2>1. n \in Names /\ At(t, "add") /\ idTable' = AddName(idTable, n) /\ collections' = collections
    BY <1>7, TopOK DEF PutAdd, At
  <2>2. idTable \in Tables /\ WellFormed(idTable)
    BY DEF IInv, TypeOK, DataOK
  <2>3. Known(idTable', n) /\ collectionID'[n] = CollectionID(idTable', n)
    BY <1>7, <2>1, <2>2, AddNameWellFormed DEF PutAdd, IInv, TypeOK
  <2>4. ASSUME NEW m \in Names, m # n, Stored(m)', \A u \in Threads : ~Adding(u, m)'
        PROVE  Known(idTable', m) /\ collectionID'[m] = CollectionID(idTable', m)
    <3>1. ~Adding(t, m)
      BY <2>4 DEF Adding
    <3>2. \A u \in Threads : u # t => ~Adding(u, m)
      BY <1>7, <2>4, OwnStack DEF Adding, At, Idle, Top, Step
    <3>3. Known(idTable, m) /\ collectionID[m] = CollectionID(idTable, m)
      BY <2>1, <2>4, <3>1, <3>2 DEF IDInv, Stored
    <3>4. collectionID'[m] = collectionID[m]
      BY <1>7, <2>4 DEF PutAdd, IInv, TypeOK
    <3>. QED BY <2>1, <2>2, <3>3, <3>4, AddNameStable
  <2>. QED BY <2>3, <2>4 DEF IDInv
<1>8. CASE UNCHANGED vars
  BY <1>8 DEF vars, IDInv, Stored, Adding, At, Idle, Top
<1>. QED
  BY <1>3, <1>4, <1>5, <1>6, <1>7, <1>8, ConstantsAssumption DEF Next, Step

\* Lookups by ID find the stored collection, for every hash function, until
\* two names of the table share an ID.
THEOREM FoundByID == Spec => []StoredByID
<1>1. Init => IDInv
  BY DEF Init, IDInv, Stored
<1>2. IInv /\ IDInv /\ [Next]_vars => IDInv'
  BY IDStep
<1>3. IInv /\ IDInv => StoredByID
  BY NameOfCollectionID DEF IInv, TypeOK, DataOK, IDInv, StoredByID, Adding
<1>. QED BY <1>1, <1>2, <1>3, IInvInit, IInvStep, PTL DEF Spec
-----------------------------------------------------------------------------
(* The calls that resolve relations.                                       *)

\* A call that is in setReferences.
Resolving(c) == c.pc \in {"refs", "search", "insert", "wait"}

ResolvesAt(t, i, n) ==
  i \in 1 .. Len(stack[t]) /\ Resolving(stack[t][i]) /\ stack[t][i].name = n

\* The map colls has a collection from the raw data under n.
RawIn(colls, n) == colls[n] # NoColl /\ colls[n].origin = "raw"

\* At most one call of all threads resolves the relations of a collection.
OneResolver ==
  \A n \in Names : StoredRaw(n) =>
    \A t, u \in Threads : \A i \in 1 .. Len(stack[t]), j \in 1 .. Len(stack[u]) :
      ResolvesAt(t, i, n) /\ ResolvesAt(u, j, n) => t = u /\ i = j

\* A call that waits does so for the call about its target.
Linked ==
  \A t \in Threads : \A i \in 2 .. Len(stack[t]) : stack[t][i - 1].name = stack[t][i].target

\* A call has resolved the relations that are there, and its target is that of the next one.
Progress(c, colls, rels, table) ==
  /\ Resolving(c) /\ RawIn(colls, c.name) => c.k = Len(rels[c.name])
  /\ c.pc \in {"search", "insert", "wait"} =>
       c.target = NameOf(table, Rel[c.name][c.k + 1])
  /\ c.pc \in {"find", "unpack", "emplace"} => c.k = 0

InProgress ==
  \A t \in Threads : \A i \in 1 .. Len(stack[t]) :
    Progress(stack[t][i], collections, relations, idTable)

\* The relations of n are nothing or the collections of their IDs, and only raw
\* collections have any.
RelationsOf(n, colls, rels, table) ==
  IF RawIn(colls, n)
  THEN /\ Len(rels[n]) <= Len(Rel[n])
       /\ \A i \in DOMAIN rels[n] : rels[n][i] # NoColl =>
            LET m == NameOf(table, Rel[n][i]) IN m \in Names /\ rels[n][i] = colls[m]
  ELSE rels[n] = <<>>

RelationsOK == \A n \in Names : RelationsOf(n, collections, relations, idTable)

\* What a call has unpacked is not yet in the map.
NotUnpacked == \A t \in Threads : At(t, "emplace") => ~StoredRaw(Top(t).name)

\* The inductive invariant: it relates the calls that resolve relations to what is
\* resolved, and needs that a collection is not unpacked a second time.
RelInv == OneResolver /\ Linked /\ InProgress /\ RelationsOK

-----------------------------------------------------------------------------
(* Parts of the invariant that a step keeps.                               *)

\* Names that the table has stay.
TableGrows ==
  \A id : NameOf(idTable, id) # NoName => NameOf(idTable', id) = NameOf(idTable, id)

\* Only the stack of t changes.
OthersWait(t) == \A u \in Threads : u # t => stack'[u] = stack[u]

\* A call in a stack.
LEMMA CallAt ==
  ASSUME IInv, NEW t \in Threads, NEW i \in 1 .. Len(stack[t])
  PROVE  /\ stack[t][i] \in Calls /\ CallOK(stack[t][i], collections)
         /\ stack[t][i].name \in Names /\ stack[t][i].target \in Names
         /\ stack[t][i].k \in Nat
         /\ stack[t][i].pc = "wait" <=> i > 1
<1>1. stack[t] \in Seq(Calls) /\ StackOK(stack[t], collections)
  BY DEF IInv, TypeOK, CallsOK
<1>2. stack[t][i] \in Calls
  BY <1>1, ElementOfSeq
<1>3. CallOK(stack[t][i], collections) /\ (stack[t][i].pc = "wait" <=> i > 1)
  BY <1>1 DEF StackOK
<1>. QED BY <1>2, <1>3 DEF Calls

\* A collection whose relations are resolved is stored.
LEMMA ResolvedIsStored ==
  ASSUME IInv, NEW t \in Threads, NEW i, NEW n, ResolvesAt(t, i, n)
  PROVE  n \in Names /\ Stored(n)
<1>1. i \in 1 .. Len(stack[t]) /\ Resolving(stack[t][i]) /\ stack[t][i].name = n
  BY DEF ResolvesAt
<1>. QED BY <1>1, CallAt DEF Resolving, CallOK, Stored

\* A step of t after which each call that resolves relations did so before, d
\* places further in the stack.
LEMMA OneKept ==
  ASSUME IInv, OneResolver, NEW t \in Threads, NEW d \in Int, OthersWait(t),
         Final(collections, collections'),
         stack'[t] \in Seq(Calls),
         \A i \in 1 .. Len(stack'[t]) : Resolving(stack'[t][i]) =>
           ResolvesAt(t, i + d, stack'[t][i].name)
  PROVE  OneResolver'
<1>. DEFINE Before(u, i) == IF u = t THEN i + d ELSE i
<1>1. ASSUME NEW n \in Names, NEW u \in Threads, NEW i \in 1 .. Len(stack'[u]), ResolvesAt(u, i, n)'
      PROVE  ResolvesAt(u, Before(u, i), n)
  BY <1>1 DEF ResolvesAt, OthersWait
<1>2. ASSUME NEW n \in Names, NEW u \in Threads, NEW i, ResolvesAt(u, i, n), StoredRaw(n)'
      PROVE  StoredRaw(n)
  BY <1>2, ResolvedIsStored DEF StoredRaw, Stored, Final
<1>3. SUFFICES ASSUME NEW n \in Names, StoredRaw(n)', NEW u \in Threads, NEW v \in Threads,
                      NEW i \in 1 .. Len(stack'[u]), NEW j \in 1 .. Len(stack'[v]),
                      ResolvesAt(u, i, n)', ResolvesAt(v, j, n)'
               PROVE  u = v /\ i = j
  BY DEF OneResolver
<1>4. ResolvesAt(u, Before(u, i), n) /\ ResolvesAt(v, Before(v, j), n)
  BY <1>1, <1>3
<1>5. /\ Before(u, i) \in 1 .. Len(stack[u]) /\ Before(v, j) \in 1 .. Len(stack[v])
      /\ StoredRaw(n)
  BY <1>2, <1>3, <1>4 DEF ResolvesAt
<1>6. u = v /\ Before(u, i) = Before(v, j)
  BY <1>4, <1>5 DEF OneResolver
<1>7. i \in Int /\ j \in Int
  BY <1>3
<1>. QED BY <1>6, <1>7

\* What a call has done stays so if nobody else resolves the same relations.
LEMMA ProgressKept ==
  ASSUME IInv, Final(collections, collections'), TableGrows,
         NEW c \in Calls, CallOK(c, collections),
         Progress(c, collections, relations, idTable),
         Resolving(c) => relations'[c.name] = relations[c.name]
  PROVE  Progress(c, collections', relations', idTable')
<1>1. c.name \in Names /\ c.target # NoName
  BY NoNameAssumption DEF Calls
<1>2. Resolving(c) => RawIn(collections', c.name) = RawIn(collections, c.name)
  BY <1>1 DEF Resolving, CallOK, RawIn, Final
<1>. QED BY <1>1, <1>2 DEF Progress, TableGrows

\* The call at p in the stack of t, if there is one, has resolved a relation.
LEMMA ProgressStep ==
  ASSUME IInv, OneResolver, InProgress, NEW t \in Threads, OthersWait(t),
         NEW d \in Int, NEW p \in Nat,
         Final(collections, collections'), TableGrows,
         stack'[t] \in Seq(Calls),
         \A n \in Names : relations'[n] # relations[n] => ResolvesAt(t, p, n) /\ StoredRaw(n),
         \A i \in 1 .. Len(stack'[t]) :
           \/ Progress(stack'[t][i], collections', relations', idTable')
           \/ i + d \in 1 .. Len(stack[t]) /\ i + d # p /\ stack'[t][i] = stack[t][i + d]
  PROVE  InProgress'
<1>1. ASSUME NEW u \in Threads, NEW i \in 1 .. Len(stack[u]), u = t => i # p
      PROVE  Progress(stack[u][i], collections', relations', idTable')
  <2>1. /\ stack[u][i] \in Calls /\ CallOK(stack[u][i], collections) /\ stack[u][i].name \in Names
        /\ Progress(stack[u][i], collections, relations, idTable)
    BY CallAt DEF InProgress
  <2>2. ASSUME Resolving(stack[u][i]), relations'[stack[u][i].name] # relations[stack[u][i].name]
        PROVE  FALSE
    <3>1. ResolvesAt(t, p, stack[u][i].name) /\ StoredRaw(stack[u][i].name)
      BY <2>1, <2>2
    <3>2. ResolvesAt(u, i, stack[u][i].name)
      BY <2>2 DEF ResolvesAt
    <3>3. p \in 1 .. Len(stack[t])
      BY <3>1 DEF ResolvesAt
    <3>4. t = u /\ p = i
      BY <2>1, <3>1, <3>2, <3>3 DEF OneResolver
    <3>. QED BY <1>1, <3>4
  <2>. QED BY <2>1, <2>2, ProgressKept
<1>2. ASSUME NEW u \in Threads, u # t, NEW i \in 1 .. Len(stack'[u])
      PROVE  Progress(stack'[u][i], collections', relations', idTable')
  BY <1>1, <1>2 DEF OthersWait
<1>3. ASSUME NEW i \in 1 .. Len(stack'[t])
      PROVE  Progress(stack'[t][i], collections', relations', idTable')
  BY <1>1
<1>. QED BY <1>2, <1>3 DEF InProgress

\* Relations that are not resolved further in this step.
LEMMA RelationsKept ==
  ASSUME IInv, IInv', RelationsOK, Final(collections, collections'), TableGrows,
         NEW n \in Names, relations'[n] = relations[n]
  PROVE  RelationsOf(n, collections', relations', idTable')
<1>1. RelationsOf(n, collections, relations, idTable)
  BY DEF RelationsOK
<1>2. CASE RawIn(collections, n)
  <2>1. RawIn(collections', n)
    BY <1>2 DEF RawIn, Final
  <2>2. ASSUME NEW i \in DOMAIN relations[n], relations[n][i] # NoColl
        PROVE  LET m == NameOf(idTable', Rel[n][i])
               IN  m \in Names /\ relations[n][i] = collections'[m]
    <3>. DEFINE m == NameOf(idTable, Rel[n][i])
    <3>1. m \in Names /\ relations[n][i] = collections[m]
      BY <1>1, <1>2, <2>2 DEF RelationsOf
    <3>2. NameOf(idTable', Rel[n][i]) = m
      BY <3>1, NoNameAssumption DEF TableGrows
    <3>3. collections'[m] = collections[m]
      BY <2>2, <3>1 DEF Final
    <3>. QED BY <3>1, <3>2, <3>3
  <2>. QED BY <1>1, <1>2, <2>1, <2>2 DEF RelationsOf
<1>3. CASE ~RawIn(collections, n)
  <2>1. relations[n] = <<>>
    BY <1>1, <1>3 DEF RelationsOf
  <2>2. CASE RawIn(collections', n)
    <3>1. n \in RawNames
      BY <2>2 DEF IInv, DataOK, StoredRaw, Stored, RawIn
    <3>2. Rel[n] \in Seq(Nat) /\ Len(Rel[n]) >= 0
      BY <3>1, ConstantsAssumption
    <3>. QED BY <2>1, <2>2, <3>2 DEF RelationsOf
  <2>. QED BY <2>1, <2>2 DEF RelationsOf
<1>. QED BY <1>2, <1>3

\* A relation of n is resolved, to nothing or to the collection that has its ID.
LEMMA RelationAppended ==
  ASSUME IInv, RelationsOK, Final(collections, collections'), TableGrows,
         NEW n \in RawNames, RawIn(collections, n),
         NEW coll, Len(relations[n]) < Len(Rel[n]),
         relations'[n] = Append(relations[n], coll),
         coll # NoColl => LET m == NameOf(idTable', Rel[n][Len(relations[n]) + 1])
                          IN  m \in Names /\ coll = collections'[m]
  PROVE  RelationsOf(n, collections', relations', idTable')
<1>. DEFINE s == relations[n]
            r == Append(s, coll)
<1>1. n \in Names /\ Rel[n] \in Seq(Nat) /\ Len(Rel[n]) \in Nat
  BY ConstantsAssumption
<1>2. RelationsOf(n, collections, relations, idTable) /\ RawIn(collections', n)
  BY <1>1 DEF RelationsOK, RawIn, Final
<1>3. s \in Seq(Colls \cup {NoColl}) /\ Len(s) \in Nat
  BY <1>1 DEF IInv, TypeOK
<1>4. /\ DOMAIN r = 1 .. Len(s) + 1 /\ Len(r) = Len(s) + 1
      /\ \A i \in 1 .. Len(s) : r[i] = s[i]
      /\ r[Len(s) + 1] = coll
  BY <1>3
<1>. HIDE DEF r, s
<1>5. ASSUME NEW i \in 1 .. Len(s), s[i] # NoColl
      PROVE  LET m == NameOf(idTable', Rel[n][i]) IN m \in Names /\ s[i] = collections'[m]
  <2>. DEFINE m == NameOf(idTable, Rel[n][i])
  <2>1. m \in Names /\ s[i] = collections[m]
    BY <1>2, <1>3, <1>5 DEF RelationsOf, s
  <2>2. NameOf(idTable', Rel[n][i]) = m
    BY <2>1, NoNameAssumption DEF TableGrows
  <2>3. collections'[m] = collections[m]
    BY <1>5, <2>1 DEF Final
  <2>. QED BY <2>1, <2>2, <2>3
<1>6. Len(s) < Len(Rel[n]) /\ relations'[n] = r
  BY DEF r, s
<1>7. coll # NoColl => LET m == NameOf(idTable', Rel[n][Len(s) + 1])
                       IN  m \in Names /\ coll = collections'[m]
  BY DEF s
<1>8. ASSUME NEW i \in DOMAIN r, r[i] # NoColl
      PROVE  LET m == NameOf(idTable', Rel[n][i]) IN m \in Names /\ r[i] = collections'[m]
  <2>1. CASE i \in 1 .. Len(s)
    BY <1>4, <1>5, <1>8, <2>1
  <2>2. CASE i = Len(s) + 1
    BY <1>4, <1>7, <1>8, <2>2
  <2>. QED BY <1>3, <1>4, <2>1, <2>2
<1>. QED BY <1>1, <1>2, <1>3, <1>4, <1>6, <1>8 DEF RelationsOf

-----------------------------------------------------------------------------
(* How the stack of a thread changes.                                      *)

\* The innermost call of t goes on as c.
LEMMA TopMoves ==
  ASSUME IInv, NEW t \in Threads, ~Idle(t), NEW c \in Calls, SetTop(t, c)
  PROVE  /\ OthersWait(t) /\ stack'[t] \in Seq(Calls)
         /\ Len(stack'[t]) = Len(stack[t]) /\ Len(stack[t]) \in Nat \ {0}
         /\ stack'[t][1] = c /\ \A i \in 2 .. Len(stack[t]) : stack'[t][i] = stack[t][i]
<1>1. stack[t] \in Seq(Calls) /\ stack[t] # <<>> /\ stack \in [Threads -> Seq(Calls)]
      /\ Len(stack[t]) \in Nat \ {0}
  BY TopOK DEF IInv, TypeOK
<1>. DEFINE s == <<c>> \o Tail(stack[t])
<1>2. /\ s \in Seq(Calls) /\ Len(s) = Len(stack[t])
      /\ s[1] = c /\ \A i \in 2 .. Len(stack[t]) : s[i] = stack[t][i]
  BY <1>1, ReplaceTop
<1>3. stack' = [stack EXCEPT ![t] = s]
  BY <1>1 DEF SetTop
<1>. HIDE DEF s
<1>4. stack'[t] = s /\ OthersWait(t)
  BY <1>1, <1>3 DEF OthersWait
<1>. QED BY <1>1, <1>2, <1>4

\* A caller goes on with the next relation.
LEMMA ResumedCalls ==
  \A c \in Calls : LET r == [c EXCEPT !.pc = "refs", !.k = @ + 1]
                   IN  r \in Calls /\ r.pc = "refs" /\ r.name = c.name /\ r.k = c.k + 1
<1>1. ASSUME NEW c \in Calls
      PROVE  [c EXCEPT !.pc = "refs", !.k = @ + 1].k = c.k + 1
  BY DEF Calls
<1>. QED BY <1>1, ResumedCall

\* The innermost call of t returns to the caller, which has resolved one more
\* relation.
ReturnsToCaller(t, coll) ==
  /\ stack'[t] \in Seq(Calls) /\ Len(stack[t]) \in Nat /\ Len(stack[t]) > 1
  /\ Len(stack'[t]) = Len(stack[t]) - 1
  /\ stack'[t][1].pc = "refs" /\ stack'[t][1].name = stack[t][2].name
  /\ stack'[t][1].k = stack[t][2].k + 1
  /\ \A i \in 2 .. Len(stack[t]) - 1 : stack'[t][i] = stack[t][i + 1]
  /\ relations' = [relations EXCEPT ![stack[t][2].name] = Append(@, coll)]

\* The innermost call of t returns.
LEMMA ReturnMoves ==
  ASSUME IInv, NEW t \in Threads, ~Idle(t), NEW coll, Return(t, coll)
  PROVE  /\ OthersWait(t)
         /\ \/ Len(stack[t]) = 1 /\ stack'[t] = <<>> /\ relations' = relations
            \/ ReturnsToCaller(t, coll)
<1>1. /\ stack[t] \in Seq(Calls) /\ stack \in [Threads -> Seq(Calls)]
      /\ relations \in [Names -> Seq(Colls \cup {NoColl})]
      /\ Len(stack[t]) \in Nat \ {0}
  BY TopOK DEF IInv, TypeOK
<1>2. CASE Len(stack[t]) = 1 /\ stack' = [stack EXCEPT ![t] = <<>>] /\ UNCHANGED relations
  BY <1>1, <1>2 DEF OthersWait
<1>3. CASE /\ Len(stack[t]) > 1
           /\ LET caller == stack[t][2] IN
              /\ stack' = [stack EXCEPT ![t] =
                   <<[caller EXCEPT !.pc = "refs", !.k = @ + 1]>> \o Tail(Tail(@))]
              /\ relations' = [relations EXCEPT ![caller.name] = Append(@, coll)]
  <2>. DEFINE c == [stack[t][2] EXCEPT !.pc = "refs", !.k = @ + 1]
              s == <<c>> \o Tail(Tail(stack[t]))
  <2>1. stack[t][2] \in Calls
    <3>1. 2 \in 1 .. Len(stack[t])
      BY <1>1, <1>3
    <3>. QED BY <3>1, CallAt
  <2>2. c \in Calls /\ c.pc = "refs" /\ c.name = stack[t][2].name /\ c.k = stack[t][2].k + 1
    BY <2>1, ResumedCalls, Zenon
  <2>. HIDE DEF c
  <2>4. /\ s \in Seq(Calls) /\ Len(s) = Len(stack[t]) - 1
        /\ s[1] = c /\ \A i \in 2 .. Len(stack[t]) - 1 : s[i] = stack[t][i + 1]
    BY <1>1, <1>3, <2>2, ReplaceCaller
  <2>5. stack' = [stack EXCEPT ![t] = s]
    BY <1>1, <1>3 DEF c
  <2>. HIDE DEF s
  <2>6. stack'[t] = s /\ OthersWait(t)
    BY <1>1, <2>5 DEF OthersWait
  <2>7. relations' = [relations EXCEPT ![stack[t][2].name] = Append(@, coll)]
    BY <1>3
  <2>8. stack'[t] \in Seq(Calls) /\ Len(stack[t]) \in Nat /\ Len(stack[t]) > 1 /\ Len(stack'[t]) = Len(stack[t]) - 1
    BY <1>1, <1>3, <2>4, <2>6
  <2>9. /\ stack'[t][1].pc = "refs" /\ stack'[t][1].name = stack[t][2].name
        /\ stack'[t][1].k = stack[t][2].k + 1
    BY <2>2, <2>4, <2>6
  <2>10. \A i \in 2 .. Len(stack[t]) - 1 : stack'[t][i] = stack[t][i + 1]
    BY <2>4, <2>6
  <2>11. ReturnsToCaller(t, coll)
    BY <2>7, <2>8, <2>9, <2>10 DEF ReturnsToCaller
  <2>. QED BY <2>6, <2>11
<1>. QED BY <1>2, <1>3 DEF Return

\* get(id) calls doGet.
LEMMA PushMoves ==
  ASSUME IInv, NEW t \in Threads, InsertID(t)
  PROVE  /\ OthersWait(t) /\ stack'[t] \in Seq(Calls)
         /\ Len(stack[t]) \in Nat \ {0} /\ Len(stack'[t]) = Len(stack[t]) + 1
         /\ stack'[t][1].pc = "find" /\ stack'[t][1].name = Top(t).target
         /\ stack'[t][2] = [Top(t) EXCEPT !.pc = "wait"]
         /\ \A i \in 3 .. Len(stack[t]) + 1 : stack'[t][i] = stack[t][i - 1]
<1>1. /\ stack[t] \in Seq(Calls) /\ stack[t] # <<>> /\ Top(t) \in Calls
      /\ Len(stack[t]) \in Nat \ {0} /\ stack \in [Threads -> Seq(Calls)]
  BY TopOK DEF InsertID, At, IInv, TypeOK
<1>. DEFINE c == Call(Top(t).target, ~Top(t).found, "find")
            d == [Top(t) EXCEPT !.pc = "wait"]
            s == <<c, d>> \o Tail(stack[t])
<1>2. c \in Calls /\ c.pc = "find" /\ c.name = Top(t).target /\ d \in Calls
  BY <1>1 DEF Calls, Call
<1>3. stack' = [stack EXCEPT ![t] = s]
  BY <1>1 DEF InsertID
<1>. HIDE DEF c
<1>4. /\ s \in Seq(Calls) /\ Len(s) = Len(stack[t]) + 1 /\ s[1] = c /\ s[2] = d
      /\ \A i \in 3 .. Len(stack[t]) + 1 : s[i] = stack[t][i - 1]
  <2>. HIDE DEF d
  <2>. QED BY <1>1, <1>2, PushCall
<1>. HIDE DEF s
<1>5. stack'[t] = s /\ OthersWait(t)
  BY <1>1, <1>3 DEF OthersWait
<1>. QED BY <1>1, <1>2, <1>4, <1>5

-----------------------------------------------------------------------------
(* RelInv is inductive while the raw data gives up its buffers.            *)

\* No relation is resolved in the step.
LEMMA AllKept ==
  ASSUME IInv, IInv', RelInv, Final(collections, collections'), TableGrows,
         UNCHANGED relations
  PROVE  RelationsOK'
BY RelationsKept DEF RelInv, RelationsOK

\* Nothing happens to the map and the table.
LEMMA NothingLost ==
  /\ collections' = collections => Final(collections, collections')
  /\ idTable' = idTable => TableGrows
BY DEF Final, TableGrows

\* The innermost call goes on without a relation resolved.
LEMMA QuietTop ==
  ASSUME IInv, IInv', RelInv, NEW t \in Threads, ~Idle(t),
         NEW c \in Calls, SetTop(t, c), c.name = Top(t).name,
         Resolving(c) => Resolving(Top(t)),
         Progress(c, collections, relations, idTable),
         UNCHANGED <<collections, idTable, relations>>
  PROVE  RelInv'
<1>1. /\ OthersWait(t) /\ stack'[t] \in Seq(Calls)
      /\ Len(stack'[t]) = Len(stack[t]) /\ Len(stack[t]) \in Nat \ {0}
      /\ stack'[t][1] = c /\ \A i \in 2 .. Len(stack[t]) : stack'[t][i] = stack[t][i]
  BY TopMoves
<1>2. Final(collections, collections') /\ TableGrows
  BY NothingLost
<1>. PICK d \in Int : d = 0
  OBVIOUS
<1>3. OneResolver'
  <2>1. ASSUME NEW i \in 1 .. Len(stack'[t]), Resolving(stack'[t][i])
        PROVE  ResolvesAt(t, i + d, stack'[t][i].name)
    <3>1. CASE i = 1
      BY <1>1, <2>1, <3>1 DEF ResolvesAt, Top
    <3>2. CASE i # 1
      BY <1>1, <2>1, <3>2 DEF ResolvesAt
    <3>. QED BY <3>1, <3>2
  <2>. QED BY <1>1, <1>2, <2>1, OneKept DEF RelInv
<1>4. Linked'
  <2>1. ASSUME NEW i \in 2 .. Len(stack'[t])
        PROVE  stack'[t][i - 1].name = stack'[t][i].target
    <3>1. stack[t][i - 1].name = stack[t][i].target /\ stack'[t][i] = stack[t][i]
      BY <1>1 DEF RelInv, Linked
    <3>2. stack'[t][i - 1].name = stack[t][i - 1].name
      <4>1. CASE i = 2
        BY <1>1, <4>1 DEF Top
      <4>2. CASE i # 2
        BY <1>1, <4>2
      <4>. QED BY <4>1, <4>2
    <3>. QED BY <3>1, <3>2
  <2>. QED BY <1>1, <2>1 DEF RelInv, Linked, OthersWait
<1>5. InProgress'
  <2>. PICK p \in Nat : p = 0
    OBVIOUS
  <2>1. ASSUME NEW i \in 1 .. Len(stack'[t])
        PROVE  \/ Progress(stack'[t][i], collections', relations', idTable')
               \/ i + d \in 1 .. Len(stack[t]) /\ i + d # p /\ stack'[t][i] = stack[t][i + d]
    <3>1. CASE i = 1
      BY <1>1, <3>1
    <3>2. CASE i # 1
      BY <1>1, <3>2
    <3>. QED BY <3>1, <3>2
  <2>2. \A n \in Names : relations'[n] # relations[n] => ResolvesAt(t, p, n) /\ StoredRaw(n)
    OBVIOUS
  <2>3. IInv /\ OneResolver /\ InProgress /\ stack'[t] \in Seq(Calls)
    BY <1>1 DEF RelInv
  <2>. QED BY <1>1, <1>2, <2>1, <2>2, <2>3, ProgressStep
<1>6. RelationsOK'
  BY <1>2, AllKept
<1>. QED BY <1>3, <1>4, <1>5, <1>6 DEF RelInv

\* The stack of t is new and nobody in it resolves relations.
LEMMA NewStack ==
  ASSUME IInv, IInv', RelInv, NEW t \in Threads, OthersWait(t),
         stack'[t] \in Seq(Calls), Len(stack'[t]) <= 1,
         \A i \in 1 .. Len(stack'[t]) :
           ~Resolving(stack'[t][i]) /\ stack'[t][i].k = 0,
         Final(collections, collections'), TableGrows, UNCHANGED relations
  PROVE  RelInv'
<1>1. OneResolver'
  BY OneKept DEF RelInv
<1>2. Linked'
  <2>1. Len(stack'[t]) \in Nat
    OBVIOUS
  <2>. QED BY <2>1 DEF RelInv, Linked, OthersWait
<1>3. InProgress'
  <2>1. \A i \in 1 .. Len(stack'[t]) : Progress(stack'[t][i], collections', relations', idTable')
    BY DEF Progress, Resolving
  <2>. QED BY <2>1, ProgressStep DEF RelInv
<1>4. RelationsOK'
  BY AllKept
<1>. QED BY <1>1, <1>2, <1>3, <1>4 DEF RelInv

\* The stack of a thread that has just called get or put.
LEMMA NewCall ==
  \A n, setRefs, s : \A pc \in {"find", "add"} : s = <<Call(n, setRefs, pc)>> =>
    /\ Len(s) <= 1
    /\ \A i \in 1 .. Len(s) : ~Resolving(s[i]) /\ s[i].k = 0
<1>1. ASSUME NEW n, NEW setRefs, NEW s, NEW pc \in {"find", "add"},
             s = <<Call(n, setRefs, pc)>>
      PROVE  Len(s) <= 1 /\ \A i \in 1 .. Len(s) : ~Resolving(s[i]) /\ s[i].k = 0
  <2>. DEFINE c == Call(n, setRefs, pc)
  <2>1. ~Resolving(c) /\ c.k = 0
    BY DEF Call, Resolving
  <2>2. s = <<c>>
    BY <1>1
  <2>. HIDE DEF c
  <2>3. Len(s) = 1 /\ s[1] = c
    BY <2>2
  <2>. QED BY <2>1, <2>3
<1>. QED BY <1>1, Zenon

\* A step with no effect on the stacks either.
LEMMA SameStacks ==
  ASSUME RelInv, UNCHANGED <<collections, idTable, relations, stack>>
  PROVE  RelInv'
BY DEF RelInv, OneResolver, ResolvesAt, StoredRaw, Stored, Linked, InProgress, RelationsOK

\* FindMiss, Unpack, RefKnown and SearchID.
LEMMA QuietSteps ==
  ASSUME IInv, IInv', RelInv, NEW t \in Threads,
         FindMiss(t) \/ Unpack(t) \/ RefKnown(t) \/ SearchID(t)
  PROVE  RelInv'
<1>1. /\ Top(t) \in Calls /\ ~Idle(t) /\ UNCHANGED <<collections, idTable, relations>>
      /\ 1 \in 1 .. Len(stack[t])
  BY TopOK DEF FindMiss, Unpack, RefKnown, SearchID, At
<1>2. Progress(Top(t), collections, relations, idTable)
  BY <1>1 DEF RelInv, InProgress, Top
<1>3. CASE FindMiss(t)
  <2>. DEFINE c == [Top(t) EXCEPT !.pc = "unpack"]
  <2>1. c \in Calls /\ c.pc = "unpack" /\ c.name = Top(t).name /\ c.k = Top(t).k
    BY <1>1 DEF Calls
  <2>2. SetTop(t, c) /\ Top(t).pc = "find"
    BY <1>3 DEF FindMiss, At
  <2>. HIDE DEF c
  <2>3. Progress(c, collections, relations, idTable) /\ ~Resolving(c)
    BY <1>2, <2>1, <2>2 DEF Progress, Resolving
  <2>. QED BY <1>1, <2>1, <2>2, <2>3, QuietTop
<1>4. CASE Unpack(t)
  <2>. DEFINE c == [Top(t) EXCEPT !.pc = "emplace"]
  <2>1. c \in Calls /\ c.pc = "emplace" /\ c.name = Top(t).name /\ c.k = Top(t).k
    BY <1>1 DEF Calls
  <2>2. SetTop(t, c) /\ Top(t).pc = "unpack"
    BY <1>4 DEF Unpack, At
  <2>. HIDE DEF c
  <2>3. Progress(c, collections, relations, idTable) /\ ~Resolving(c)
    BY <1>2, <2>1, <2>2 DEF Progress, Resolving
  <2>. QED BY <1>1, <2>1, <2>2, <2>3, QuietTop
<1>5. CASE RefKnown(t)
  <2>. DEFINE n == Top(t).name
              name == NameOf(idTable, RefIDs(n)[Top(t).k + 1])
              c == [Top(t) EXCEPT !.pc = "search", !.target = name]
  <2>1. /\ name \in Names /\ SetTop(t, c) /\ Top(t).pc = "refs"
        /\ Top(t).k < Len(RefIDs(n)) /\ n \in Names /\ Top(t).k \in Nat /\ Stored(n)
    BY <1>5, LookupType, ResolvingCall DEF RefKnown, IInv, TypeOK, At
  <2>2. RefIDs(n) = Rel[n]
    BY <2>1, RefIDsType
  <2>3. name = NameOf(idTable, Rel[n][Top(t).k + 1])
    BY <2>2
  <2>. HIDE DEF name
  <2>4. /\ c \in Calls /\ c.pc = "search" /\ c.name = Top(t).name /\ c.k = Top(t).k
        /\ c.target = name
    BY <1>1, <2>1 DEF Calls
  <2>. HIDE DEF c
  <2>5. Progress(c, collections, relations, idTable) /\ Resolving(Top(t))
    BY <1>2, <2>1, <2>3, <2>4 DEF Progress, Resolving
  <2>. QED BY <1>1, <2>1, <2>4, <2>5, QuietTop
<1>6. CASE SearchID(t)
  <2>. DEFINE found == RefIDs(Top(t).name)[Top(t).k + 1] \in retrievedIDs
              c == [Top(t) EXCEPT !.pc = "insert", !.found = found]
  <2>1. found \in BOOLEAN /\ SetTop(t, c) /\ Top(t).pc = "search"
    BY <1>6 DEF SearchID, At
  <2>. HIDE DEF found
  <2>2. /\ c \in Calls /\ c.pc = "insert" /\ c.name = Top(t).name /\ c.k = Top(t).k
        /\ c.target = Top(t).target
    BY <1>1, <2>1 DEF Calls
  <2>. HIDE DEF c
  <2>3. Progress(c, collections, relations, idTable) /\ Resolving(Top(t))
    BY <1>2, <2>1, <2>2 DEF Progress, Resolving
  <2>. QED BY <1>1, <2>1, <2>2, <2>3, QuietTop
<1>. QED BY <1>3, <1>4, <1>5, <1>6

\* The ID of the next relation is not in the table: nothing is appended.
LEMMA RefUnknownStep ==
  ASSUME IInv, IInv', RelInv, NEW t \in Threads, RefUnknown(t)
  PROVE  RelInv'
<1>. DEFINE n == Top(t).name
            c == [Top(t) EXCEPT !.k = @ + 1]
<1>1. /\ ~Idle(t) /\ Top(t) \in Calls /\ n \in Names /\ Top(t).k \in Nat /\ Stored(n)
      /\ Top(t).pc = "refs" /\ 1 \in 1 .. Len(stack[t]) /\ Top(t).k < Len(RefIDs(n))
  BY TopOK, ResolvingCall DEF RefUnknown, At
<1>2. /\ RefIDs(n) = Rel[n] /\ RawIn(collections, n) /\ n \in RawNames
  BY <1>1, RefIDsType DEF RawIn, Stored
<1>3. /\ relations' = [relations EXCEPT ![n] = Append(@, NoColl)] /\ SetTop(t, c)
      /\ UNCHANGED <<collections, idTable>>
  BY DEF RefUnknown
<1>4. c \in Calls /\ c.pc = "refs" /\ c.name = n /\ c.k = Top(t).k + 1
  BY <1>1 DEF Calls
<1>. HIDE DEF c, n
<1>5. /\ OthersWait(t) /\ stack'[t] \in Seq(Calls)
      /\ Len(stack'[t]) = Len(stack[t]) /\ Len(stack[t]) \in Nat \ {0}
      /\ stack'[t][1] = c /\ \A i \in 2 .. Len(stack[t]) : stack'[t][i] = stack[t][i]
  BY <1>1, <1>3, <1>4, TopMoves
<1>6. Final(collections, collections') /\ TableGrows
  BY <1>3, NothingLost
<1>7. ResolvesAt(t, 1, n) /\ StoredRaw(n)
  BY <1>1, <1>2 DEF ResolvesAt, Top, Resolving, StoredRaw, Stored, RawIn, n
<1>8. Top(t).k = Len(relations[n])
  BY <1>1, <1>2 DEF RelInv, InProgress, Progress, Resolving, Top, n
<1>9. /\ relations[n] \in Seq(Colls \cup {NoColl}) /\ relations'[n] = Append(relations[n], NoColl)
      /\ \A m \in Names : m # n => relations'[m] = relations[m]
  BY <1>1, <1>3 DEF IInv, TypeOK
<1>. PICK d \in Int : d = 0
  OBVIOUS
<1>10. OneResolver'
  <2>1. ASSUME NEW i \in 1 .. Len(stack'[t]), Resolving(stack'[t][i])
        PROVE  ResolvesAt(t, i + d, stack'[t][i].name)
    <3>1. CASE i = 1
      BY <1>4, <1>5, <1>7, <3>1
    <3>2. CASE i # 1
      BY <1>5, <2>1, <3>2 DEF ResolvesAt
    <3>. QED BY <3>1, <3>2
  <2>. QED BY <1>5, <1>6, <2>1, OneKept DEF RelInv
<1>11. Linked'
  <2>1. ASSUME NEW i \in 2 .. Len(stack'[t])
        PROVE  stack'[t][i - 1].name = stack'[t][i].target
    <3>1. stack[t][i - 1].name = stack[t][i].target /\ stack'[t][i] = stack[t][i]
      BY <1>5 DEF RelInv, Linked
    <3>2. stack'[t][i - 1].name = stack[t][i - 1].name
      <4>1. CASE i = 2
        BY <1>4, <1>5, <4>1 DEF Top, n
      <4>2. CASE i # 2
        BY <1>5, <4>2
      <4>. QED BY <4>1, <4>2
    <3>. QED BY <3>1, <3>2
  <2>. QED BY <1>5, <2>1 DEF RelInv, Linked, OthersWait
<1>12. InProgress'
  <2>1. Progress(c, collections', relations', idTable')
    BY <1>4, <1>8, <1>9 DEF Progress
  <2>2. ASSUME NEW i \in 1 .. Len(stack'[t])
        PROVE  \/ Progress(stack'[t][i], collections', relations', idTable')
               \/ i + d \in 1 .. Len(stack[t]) /\ i + d # 1 /\ stack'[t][i] = stack[t][i + d]
    <3>1. CASE i = 1
      BY <1>5, <2>1, <3>1
    <3>2. CASE i # 1
      BY <1>5, <3>2
    <3>. QED BY <3>1, <3>2
  <2>3. \A m \in Names : relations'[m] # relations[m] => ResolvesAt(t, 1, m) /\ StoredRaw(m)
    BY <1>7, <1>9
  <2>4. 1 \in Nat
    OBVIOUS
  <2>. QED BY <1>5, <1>6, <2>2, <2>3, <2>4, ProgressStep DEF RelInv
<1>13. RelationsOK'
  <2>1. Len(relations[n]) < Len(Rel[n])
    BY <1>1, <1>2, <1>8 DEF n
  <2>2. RelationsOf(n, collections', relations', idTable')
    BY <1>2, <1>6, <1>9, <2>1, RelationAppended DEF RelInv
  <2>3. \A m \in Names : m # n => RelationsOf(m, collections', relations', idTable')
    BY <1>6, <1>9, RelationsKept DEF RelInv
  <2>. QED BY <2>2, <2>3 DEF RelationsOK
<1>. QED BY <1>10, <1>11, <1>12, <1>13 DEF RelInv

\* A call returns nothing, or what the map has under its name.
LEMMA ReturnRelInv ==
  ASSUME IInv, IInv', RelInv, NEW t \in Threads, ~Idle(t),
         NEW coll, coll # NoColl => coll = collections'[Top(t).name], Return(t, coll),
         Final(collections, collections'), UNCHANGED idTable
  PROVE  RelInv'
<1>1. TableGrows /\ OthersWait(t)
  BY NothingLost, ReturnMoves
<1>2. CASE stack'[t] = <<>> /\ relations' = relations
  <2>1. /\ stack'[t] \in Seq(Calls) /\ Len(stack'[t]) <= 1
        /\ \A i \in 1 .. Len(stack'[t]) : ~Resolving(stack'[t][i]) /\ stack'[t][i].k = 0
    BY <1>2
  <2>. QED BY <1>1, <1>2, <2>1, NewStack
<1>3. CASE ReturnsToCaller(t, coll)
  <2>. DEFINE caller == stack[t][2]
              n == stack[t][2].name
  <2>1. /\ stack'[t] \in Seq(Calls) /\ Len(stack[t]) \in Nat /\ Len(stack[t]) > 1
        /\ Len(stack'[t]) = Len(stack[t]) - 1
        /\ stack'[t][1].pc = "refs" /\ stack'[t][1].name = n
        /\ stack'[t][1].k = caller.k + 1
        /\ \A i \in 2 .. Len(stack[t]) - 1 : stack'[t][i] = stack[t][i + 1]
        /\ relations' = [relations EXCEPT ![n] = Append(@, coll)]
    BY <1>3 DEF ReturnsToCaller
  <2>2. 2 \in 1 .. Len(stack[t]) /\ 2 \in 2 .. Len(stack[t])
    BY <2>1
  <2>3. /\ caller \in Calls /\ n \in Names /\ caller.k \in Nat /\ caller.pc = "wait"
        /\ CallOK(caller, collections)
    BY <2>2, CallAt
  <2>4. RawIn(collections, n) /\ n \in RawNames /\ caller.k < Len(Rel[n])
    <3>1. RawIn(collections, n) /\ caller.k < Len(Rel[n])
      BY <2>3 DEF CallOK, RawIn
    <3>. QED BY <2>3, <3>1 DEF IInv, DataOK, RawIn, StoredRaw, Stored
  <2>5. /\ caller.k = Len(relations[n]) /\ caller.target = NameOf(idTable, Rel[n][caller.k + 1])
        /\ caller.target = Top(t).name /\ caller.target \in Names
    <3>1. Progress(caller, collections, relations, idTable)
      BY <2>2 DEF RelInv, InProgress
    <3>2. Top(t).name = caller.target
      <4>1. stack[t][2 - 1].name = caller.target
        BY <2>2 DEF RelInv, Linked
      <4>. QED BY <4>1 DEF Top
    <3>. QED BY <2>3, <2>4, <3>1, <3>2 DEF Progress, Resolving, Calls
  <2>6. ResolvesAt(t, 2, n) /\ StoredRaw(n)
    BY <2>2, <2>3, <2>4 DEF ResolvesAt, Resolving, StoredRaw, Stored, RawIn
  <2>7. /\ relations[n] \in Seq(Colls \cup {NoColl}) /\ relations'[n] = Append(relations[n], coll)
        /\ \A m \in Names : m # n => relations'[m] = relations[m]
        /\ Len(relations'[n]) = Len(relations[n]) + 1
    BY <2>1, <2>3 DEF IInv, TypeOK
  <2>. HIDE DEF caller, n
  <2>. PICK d \in Int : d = 1
    OBVIOUS
  <2>8. OneResolver'
    <3>1. ASSUME NEW i \in 1 .. Len(stack'[t]), Resolving(stack'[t][i])
          PROVE  ResolvesAt(t, i + d, stack'[t][i].name)
      <4>1. CASE i = 1
        BY <2>1, <2>6, <4>1
      <4>2. CASE i # 1
        BY <2>1, <3>1, <4>2 DEF ResolvesAt
      <4>. QED BY <4>1, <4>2
    <3>. QED BY <1>1, <2>1, <3>1, OneKept DEF RelInv
  <2>9. Linked'
    <3>1. ASSUME NEW i \in 2 .. Len(stack'[t])
          PROVE  stack'[t][i - 1].name = stack'[t][i].target
      <4>1. stack[t][i].name = stack[t][i + 1].target /\ stack'[t][i] = stack[t][i + 1]
        <5>1. i + 1 \in 2 .. Len(stack[t])
          BY <2>1
        <5>2. stack[t][(i + 1) - 1].name = stack[t][i + 1].target
          BY <5>1 DEF RelInv, Linked
        <5>3. (i + 1) - 1 = i
          OBVIOUS
        <5>. QED BY <2>1, <5>2, <5>3
      <4>2. stack'[t][i - 1].name = stack[t][i].name
        <5>1. CASE i = 2
          BY <2>1, <5>1 DEF n
        <5>2. CASE i # 2
          <6>1. i - 1 \in 2 .. Len(stack[t]) - 1 /\ (i - 1) + 1 = i
            BY <2>1, <5>2
          <6>. QED BY <2>1, <6>1
        <5>. QED BY <5>1, <5>2
      <4>. QED BY <4>1, <4>2
    <3>. QED BY <1>1, <3>1 DEF RelInv, Linked, OthersWait
  <2>10. InProgress'
    <3>1. Progress(stack'[t][1], collections', relations', idTable')
      BY <2>1, <2>5, <2>7 DEF Progress
    <3>2. ASSUME NEW i \in 1 .. Len(stack'[t])
          PROVE  \/ Progress(stack'[t][i], collections', relations', idTable')
                 \/ i + d \in 1 .. Len(stack[t]) /\ i + d # 2 /\ stack'[t][i] = stack[t][i + d]
      <4>1. CASE i = 1
        BY <3>1, <4>1
      <4>2. CASE i # 1
        BY <2>1, <4>2
      <4>. QED BY <4>1, <4>2
    <3>3. \A m \in Names : relations'[m] # relations[m] => ResolvesAt(t, 2, m) /\ StoredRaw(m)
      BY <2>6, <2>7
    <3>4. 2 \in Nat
      OBVIOUS
    <3>. QED BY <1>1, <2>1, <3>2, <3>3, <3>4, ProgressStep DEF RelInv
  <2>11. RelationsOK'
    <3>1. Len(relations[n]) < Len(Rel[n])
      BY <2>4, <2>5
    <3>2. coll # NoColl => LET m == NameOf(idTable', Rel[n][Len(relations[n]) + 1])
                           IN  m \in Names /\ coll = collections'[m]
      BY <2>5
    <3>3. RelationsOf(n, collections', relations', idTable')
      BY <1>1, <2>4, <2>7, <3>1, <3>2, RelationAppended DEF RelInv
    <3>4. \A m \in Names : m # n => RelationsOf(m, collections', relations', idTable')
      BY <1>1, <2>7, RelationsKept DEF RelInv
    <3>. QED BY <3>3, <3>4 DEF RelationsOK
  <2>. QED BY <2>8, <2>9, <2>10, <2>11 DEF RelInv
<1>. QED BY <1>2, <1>3, ReturnMoves

\* get(id) calls doGet for the collection of the next relation.
LEMMA InsertIDStep ==
  ASSUME IInv, IInv', RelInv, NEW t \in Threads, InsertID(t)
  PROVE  RelInv'
<1>1. /\ Top(t) \in Calls /\ Top(t).pc = "insert" /\ 1 \in 1 .. Len(stack[t])
      /\ UNCHANGED <<collections, idTable, relations>>
  BY TopOK DEF InsertID, At
<1>. DEFINE w == [Top(t) EXCEPT !.pc = "wait"]
<1>2. /\ w \in Calls /\ w.pc = "wait" /\ w.name = Top(t).name /\ w.k = Top(t).k
      /\ w.target = Top(t).target
  BY <1>1 DEF Calls
<1>3. /\ OthersWait(t) /\ stack'[t] \in Seq(Calls)
      /\ Len(stack[t]) \in Nat \ {0} /\ Len(stack'[t]) = Len(stack[t]) + 1
      /\ stack'[t][1].pc = "find" /\ stack'[t][1].name = Top(t).target
      /\ stack'[t][2] = w
      /\ \A i \in 3 .. Len(stack[t]) + 1 : stack'[t][i] = stack[t][i - 1]
  BY PushMoves
<1>. HIDE DEF w
<1>4. Final(collections, collections') /\ TableGrows
  BY <1>1, NothingLost
<1>5. Progress(Top(t), collections, relations, idTable)
  BY <1>1 DEF RelInv, InProgress, Top
<1>6. stack'[t][1].k = 0
  <2>1. stack'[t] = <<Call(Top(t).target, ~Top(t).found, "find"),
                      [Top(t) EXCEPT !.pc = "wait"]>> \o Tail(stack[t])
    BY DEF InsertID, IInv, TypeOK
  <2>2. Call(Top(t).target, ~Top(t).found, "find").k = 0
    BY DEF Call
  <2>3. stack'[t][1] = Call(Top(t).target, ~Top(t).found, "find")
    <3>1. Call(Top(t).target, ~Top(t).found, "find") \in Calls
      BY <1>1 DEF Call, Calls
    <3>2. stack[t] \in Seq(Calls) /\ stack[t] # <<>>
      BY TopOK DEF InsertID, At
    <3>. QED BY <1>2, <2>1, <3>1, <3>2, PushCall DEF w
  <2>. QED BY <2>2, <2>3
<1>. PICK d \in Int : d = -1
  OBVIOUS
<1>7. OneResolver'
  <2>1. ASSUME NEW i \in 1 .. Len(stack'[t]), Resolving(stack'[t][i])
        PROVE  ResolvesAt(t, i + d, stack'[t][i].name)
    <3>1. i # 1
      BY <1>3, <2>1 DEF Resolving
    <3>2. CASE i = 2
      <4>1. i + d = 1
        BY <3>2
      <4>. QED BY <1>1, <1>2, <1>3, <3>2, <4>1 DEF ResolvesAt, Resolving, Top
    <3>3. CASE i > 2
      BY <1>3, <2>1, <3>3 DEF ResolvesAt
    <3>. QED BY <3>1, <3>2, <3>3
  <2>. QED BY <1>3, <1>4, <2>1, OneKept DEF RelInv
<1>8. Linked'
  <2>1. ASSUME NEW i \in 2 .. Len(stack'[t])
        PROVE  stack'[t][i - 1].name = stack'[t][i].target
    <3>1. CASE i = 2
      BY <1>2, <1>3, <3>1
    <3>2. CASE i > 2
      <4>1. i - 1 \in 2 .. Len(stack[t]) /\ stack'[t][i] = stack[t][i - 1]
        BY <1>3, <3>2
      <4>2. stack[t][(i - 1) - 1].name = stack[t][i - 1].target
        BY <4>1 DEF RelInv, Linked
      <4>3. stack'[t][i - 1].name = stack[t][(i - 1) - 1].name
        <5>1. CASE i = 3
          BY <1>2, <1>3, <5>1 DEF Top
        <5>2. CASE i > 3
          <6>1. i - 1 \in 3 .. Len(stack[t]) + 1
            BY <1>3, <5>2
          <6>. QED BY <1>3, <6>1
        <5>. QED BY <3>2, <5>1, <5>2
      <4>. QED BY <4>1, <4>2, <4>3
    <3>. QED BY <3>1, <3>2
  <2>. QED BY <1>3, <2>1, SMTT(30) DEF RelInv, Linked, OthersWait
<1>9. InProgress'
  <2>1. Progress(w, collections', relations', idTable')
    BY <1>1, <1>2, <1>5 DEF Progress, Resolving
  <2>2. Progress(stack'[t][1], collections', relations', idTable')
    BY <1>3, <1>6 DEF Progress, Resolving
  <2>3. ASSUME NEW i \in 1 .. Len(stack'[t])
        PROVE  \/ Progress(stack'[t][i], collections', relations', idTable')
               \/ i + d \in 1 .. Len(stack[t]) /\ i + d # 0 /\ stack'[t][i] = stack[t][i + d]
    <3>1. CASE i = 1
      BY <2>2, <3>1
    <3>2. CASE i = 2
      BY <1>3, <2>1, <3>2
    <3>3. CASE i > 2
      BY <1>3, <3>3
    <3>. QED BY <3>1, <3>2, <3>3
  <2>4. \A p \in {0} : \A n \in Names : relations'[n] # relations[n] => ResolvesAt(t, p, n) /\ StoredRaw(n)
    BY <1>1
  <2>. QED BY <1>3, <1>4, <2>3, <2>4, ProgressStep DEF RelInv
<1>10. RelationsOK'
  BY <1>1, <1>4, AllKept
<1>. QED BY <1>7, <1>8, <1>9, <1>10 DEF RelInv

\* The collection is stored; if it is new, nobody else resolves its relations.
LEMMA EmplaceForRefsStep ==
  ASSUME IInv, IInv', RelInv, NotUnpacked, NEW t \in Threads, EmplaceForRefs(t)
  PROVE  RelInv'
<1>. DEFINE n == Top(t).name
            c == [Top(t) EXCEPT !.pc = "refs"]
<1>1. /\ ~Idle(t) /\ Top(t) \in Calls /\ At(t, "emplace") /\ Emplaced(t) /\ n \in Names
      /\ Top(t).pc = "emplace" /\ 1 \in 1 .. Len(stack[t]) /\ SetTop(t, c)
      /\ UNCHANGED <<idTable, relations>>
  BY TopOK DEF EmplaceForRefs, At
<1>2. c \in Calls /\ c.pc = "refs" /\ c.name = n /\ c.k = Top(t).k
  BY <1>1 DEF Calls
<1>. HIDE DEF c
<1>3. /\ collections' \in MapType /\ Final(collections, collections') /\ n \in RawNames
  BY <1>1, EmplacedMap
<1>4. ~StoredRaw(n)
  BY <1>1 DEF NotUnpacked
<1>5. TableGrows
  BY <1>1, NothingLost
<1>. HIDE DEF n
<1>6. /\ OthersWait(t) /\ stack'[t] \in Seq(Calls)
      /\ Len(stack'[t]) = Len(stack[t]) /\ Len(stack[t]) \in Nat \ {0}
      /\ stack'[t][1] = c /\ \A i \in 2 .. Len(stack[t]) : stack'[t][i] = stack[t][i]
  BY <1>1, <1>2, TopMoves
<1>7. OneResolver'
  <2>1. SUFFICES ASSUME NEW m \in Names, StoredRaw(m)', NEW u \in Threads, NEW v \in Threads,
                        NEW i \in 1 .. Len(stack'[u]), NEW j \in 1 .. Len(stack'[v]),
                        ResolvesAt(u, i, m)', ResolvesAt(v, j, m)'
                 PROVE  u = v /\ i = j
    BY DEF OneResolver
  <2>2. ASSUME NEW x \in Threads, NEW k \in 1 .. Len(stack'[x]), ResolvesAt(x, k, m)'
        PROVE  IF x = t /\ k = 1 THEN m = n ELSE ResolvesAt(x, k, m) /\ k \in 1 .. Len(stack[x])
    <3>1. CASE x = t /\ k = 1
      BY <1>2, <1>6, <2>2, <3>1 DEF ResolvesAt
    <3>2. CASE x = t /\ k # 1
      BY <1>6, <2>2, <3>2 DEF ResolvesAt
    <3>3. CASE x # t
      BY <1>6, <2>2, <3>3 DEF ResolvesAt, OthersWait
    <3>. QED BY <3>1, <3>2, <3>3
  <2>3. ASSUME NEW x \in Threads, NEW k, ResolvesAt(x, k, m)
        PROVE  StoredRaw(m) /\ m # n
    <3>1. StoredRaw(m)
      BY <1>3, <2>1, <2>3, ResolvedIsStored DEF StoredRaw, Stored, Final
    <3>. QED BY <1>4, <3>1
  <2>4. CASE m = n
    BY <2>1, <2>2, <2>3, <2>4
  <2>5. CASE m # n
    BY <2>1, <2>2, <2>3, <2>5 DEF RelInv, OneResolver
  <2>. QED BY <2>4, <2>5
<1>8. Linked'
  <2>1. ASSUME NEW i \in 2 .. Len(stack'[t])
        PROVE  stack'[t][i - 1].name = stack'[t][i].target
    <3>1. stack[t][i - 1].name = stack[t][i].target /\ stack'[t][i] = stack[t][i]
      BY <1>6 DEF RelInv, Linked
    <3>2. stack'[t][i - 1].name = stack[t][i - 1].name
      <4>1. CASE i = 2
        BY <1>2, <1>6, <4>1 DEF Top, n
      <4>2. CASE i # 2
        BY <1>6, <4>2
      <4>. QED BY <4>1, <4>2
    <3>. QED BY <3>1, <3>2
  <2>. QED BY <1>6, <2>1 DEF RelInv, Linked, OthersWait
<1>. PICK d \in Int : d = 0
  OBVIOUS
<1>9. InProgress'
  <2>1. Progress(c, collections', relations', idTable')
    <3>1. Top(t).k = 0
      BY <1>1 DEF RelInv, InProgress, Progress, Top
    <3>2. relations[n] = <<>>
      BY <1>1, <1>4 DEF RelInv, RelationsOK, RelationsOf, RawIn, StoredRaw, Stored, n
    <3>. QED BY <1>1, <1>2, <3>1, <3>2 DEF Progress
  <2>2. ASSUME NEW i \in 1 .. Len(stack'[t])
        PROVE  \/ Progress(stack'[t][i], collections', relations', idTable')
               \/ i + d \in 1 .. Len(stack[t]) /\ i + d # 0 /\ stack'[t][i] = stack[t][i + d]
    <3>1. CASE i = 1
      BY <1>6, <2>1, <3>1
    <3>2. CASE i # 1
      BY <1>6, <3>2
    <3>. QED BY <3>1, <3>2
  <2>3. \A p \in {0} : \A m \in Names : relations'[m] # relations[m] => ResolvesAt(t, p, m) /\ StoredRaw(m)
    BY <1>1
  <2>. QED BY <1>3, <1>5, <1>6, <2>2, <2>3, ProgressStep DEF RelInv
<1>10. RelationsOK'
  BY <1>1, <1>3, <1>5, AllKept
<1>. QED BY <1>7, <1>8, <1>9, <1>10 DEF RelInv

\* The calls that return.
LEMMA ReturnSteps ==
  ASSUME IInv, IInv', RelInv, NEW t \in Threads,
         FindHit(t) \/ UnpackNothing(t) \/ EmplaceOnly(t) \/ RefsDone(t)
  PROVE  RelInv'
<1>1. CASE FindHit(t)
  <2>. DEFINE coll == collections[Top(t).name]
  <2>1. ~Idle(t) /\ Return(t, coll) /\ coll = collections'[Top(t).name] /\ UNCHANGED <<collections, idTable>>
    BY <1>1 DEF FindHit, At
  <2>. HIDE DEF coll
  <2>. QED BY <2>1, NothingLost, ReturnRelInv
<1>2. CASE UnpackNothing(t)
  <2>1. ~Idle(t) /\ Return(t, NoColl) /\ UNCHANGED <<collections, idTable>>
    BY <1>2 DEF UnpackNothing, At
  <2>. QED BY <2>1, NothingLost, ReturnRelInv
<1>3. CASE EmplaceOnly(t)
  <2>. DEFINE coll == collections'[Top(t).name]
  <2>1. /\ ~Idle(t) /\ Return(t, coll) /\ UNCHANGED idTable /\ coll = collections'[Top(t).name]
        /\ At(t, "emplace") /\ Emplaced(t)
    BY <1>3 DEF EmplaceOnly, At
  <2>. HIDE DEF coll
  <2>2. Final(collections, collections')
    BY <2>1, EmplacedMap
  <2>. QED BY <2>1, <2>2, ReturnRelInv
<1>4. CASE RefsDone(t)
  <2>. DEFINE coll == collections[Top(t).name]
  <2>1. ~Idle(t) /\ Return(t, coll) /\ coll = collections'[Top(t).name] /\ UNCHANGED <<collections, idTable>>
    BY <1>4 DEF RefsDone, At
  <2>. HIDE DEF coll
  <2>. QED BY <2>1, NothingLost, ReturnRelInv
<1>. QED BY <1>1, <1>2, <1>3, <1>4

\* Users call get and put, and a put ends.
LEMMA UserSteps ==
  ASSUME IInv, IInv', RelInv, NEW t \in Threads,
         PutAdd(t) \/ \E n \in Names : Get(t, n) \/ Put(t, n) \/ PutExists(t, n)
  PROVE  RelInv'
<1>0. stack \in [Threads -> Seq(Calls)]
  BY DEF IInv, TypeOK
<1>1. ASSUME NEW n \in Names, Get(t, n)
      PROVE  RelInv'
  <2>1. /\ OthersWait(t) /\ stack'[t] = <<Call(n, TRUE, "find")>>
        /\ UNCHANGED <<collections, idTable, relations>>
    BY <1>0, <1>1 DEF Get, OthersWait
  <2>2. stack'[t] \in Seq(Calls)
    BY DEF IInv, TypeOK
  <2>3. /\ Len(stack'[t]) <= 1
        /\ \A i \in 1 .. Len(stack'[t]) : ~Resolving(stack'[t][i]) /\ stack'[t][i].k = 0
    BY <2>1, NewCall
  <2>. QED BY <2>1, <2>2, <2>3, NothingLost, NewStack
<1>2. ASSUME NEW n \in Names, Put(t, n)
      PROVE  RelInv'
  <2>1. /\ OthersWait(t) /\ stack'[t] = <<Call(n, FALSE, "add")>>
        /\ UNCHANGED <<idTable, relations>>
    BY <1>0, <1>2 DEF Put, OthersWait
  <2>2. stack'[t] \in Seq(Calls) /\ Final(collections, collections')
    BY <1>2, PutMap DEF IInv, TypeOK
  <2>3. /\ Len(stack'[t]) <= 1
        /\ \A i \in 1 .. Len(stack'[t]) : ~Resolving(stack'[t][i]) /\ stack'[t][i].k = 0
    BY <2>1, NewCall
  <2>. QED BY <2>1, <2>2, <2>3, NothingLost, NewStack
<1>3. CASE PutAdd(t)
  <2>1. OthersWait(t) /\ stack'[t] = <<>> /\ UNCHANGED <<collections, relations>>
    BY <1>0, <1>3 DEF PutAdd, OthersWait
  <2>2. TableGrows
    <3>1. /\ Top(t).name \in Names /\ idTable' = AddName(idTable, Top(t).name)
          /\ idTable \in Tables /\ WellFormed(idTable)
      BY <1>3, TopOK DEF PutAdd, At, IInv, TypeOK, DataOK
    <3>. QED BY <3>1, AddNameStable DEF TableGrows
  <2>3. /\ stack'[t] \in Seq(Calls) /\ Len(stack'[t]) <= 1
        /\ \A i \in 1 .. Len(stack'[t]) : ~Resolving(stack'[t][i]) /\ stack'[t][i].k = 0
    BY <2>1
  <2>. QED BY <2>1, <2>2, <2>3, NothingLost, NewStack
<1>4. ASSUME NEW n \in Names, PutExists(t, n)
      PROVE  RelInv'
  BY <1>4, SameStacks DEF PutExists
<1>. QED BY <1>1, <1>2, <1>3, <1>4

\* An exception leaves the calls of its thread.
LEMMA ThrowStep ==
  ASSUME IInv, IInv', RelInv, NEW t \in Threads, UnpackThrows(t)
  PROVE  RelInv'
<1>1. /\ OthersWait(t) /\ stack'[t] = <<>>
      /\ UNCHANGED <<collections, idTable, relations>>
  BY DEF UnpackThrows, OthersWait, IInv, TypeOK
<1>2. /\ stack'[t] \in Seq(Calls) /\ Len(stack'[t]) <= 1
      /\ \A i \in 1 .. Len(stack'[t]) : ~Resolving(stack'[t][i]) /\ stack'[t][i].k = 0
  BY <1>1
<1>. QED BY <1>1, <1>2, NothingLost, NewStack

\* Every step preserves RelInv while no collection is unpacked twice.
LEMMA RelInvStep ==
  ASSUME IInv, NotUnpacked, RelInv, [Next]_vars
  PROVE  RelInv'
<1>1. IInv'
  BY IInvStep
<1>2. ASSUME NEW t \in Threads, Step(t)
      PROVE  RelInv'
  BY <1>1, <1>2, QuietSteps, ReturnSteps, EmplaceForRefsStep, RefUnknownStep, InsertIDStep,
     ThrowStep, UserSteps DEF Step
<1>3. CASE UNCHANGED vars
  BY <1>3, SameStacks DEF vars
<1>. QED BY <1>1, <1>2, <1>3, UserSteps, ConstantsAssumption DEF Next

\* No call is in progress in the beginning.
LEMMA RelInvInit == Init => RelInv
<1>. SUFFICES ASSUME Init PROVE RelInv
  OBVIOUS
<1>1. \A t \in Threads : stack[t] = <<>>
  BY DEF Init
<1>2. OneResolver /\ Linked /\ InProgress
  BY <1>1 DEF OneResolver, Linked, InProgress
<1>3. RelationsOK
  BY DEF Init, RelationsOK, RelationsOf, RawIn
<1>. QED BY <1>2, <1>3 DEF RelInv

\* A relation is resolved once, in the order of the stored IDs, to the collection
\* that has its ID or to nothing, however many threads get collections whose
\* relations lead to each other.
THEOREM RelationsResolvedInOrder == Spec => []RelationsInOrder
<1>1. Init => (extracting => RelInv)
  BY RelInvInit
<1>2. IInv /\ BuffersInOnePlace /\ (extracting => RelInv) /\ [Next]_vars => (extracting => RelInv)'
  <2>. SUFFICES ASSUME IInv, BuffersInOnePlace, extracting => RelInv, [Next]_vars, extracting'
                PROVE  RelInv'
    OBVIOUS
  <2>1. extracting
    BY DEF vars, Next, Step, Get, Put, PutExists, FindHit, FindMiss, Unpack, UnpackNothing,
       UnpackThrows, EmplaceForRefs, EmplaceOnly, RefUnknown, RefKnown, RefsDone, SearchID,
       InsertID, PutAdd
  <2>2. NotUnpacked
    <3>1. ASSUME NEW t \in Threads, At(t, "emplace")
          PROVE  ~StoredRaw(Top(t).name)
      <4>1. InHand(t, Top(t).name) /\ Top(t).name \in RawNames
        BY <3>1, TopOK DEF InHand, At, CallOK
      <4>. QED BY <2>1, <4>1 DEF BuffersInOnePlace
    <3>. QED BY <3>1 DEF NotUnpacked
  <2>. QED BY <2>1, <2>2, RelInvStep
<1>3. (extracting => RelInv) => RelationsInOrder
  <2>. SUFFICES ASSUME extracting, RelInv, NEW n \in RawNames, StoredRaw(n)
                PROVE  /\ Len(relations[n]) <= Len(Rel[n])
                       /\ \A i \in DOMAIN relations[n] : relations[n][i] # NoColl =>
                            \E m \in Names : /\ m = NameOf(idTable, Rel[n][i])
                                             /\ relations[n][i] = collections[m]
    BY DEF RelationsInOrder
  <2>1. RelationsOf(n, collections, relations, idTable) /\ RawIn(collections, n)
    BY ConstantsAssumption DEF RelInv, RelationsOK, RawIn, StoredRaw, Stored
  <2>. QED BY <2>1 DEF RelationsOf
<1>. QED BY <1>1, <1>2, <1>3, BuffersConserved, IInvInit, IInvStep, PTL DEF Spec

-----------------------------------------------------------------------------
(* How deep the recursion gets.                                            *)

\* The calls of a thread that have not found their collection in the map are
\* about different collections.
CallsDistinct ==
  \A t \in Threads : \A i, j \in 1 .. Len(stack[t]) :
    /\ stack[t][i].pc # "find" /\ stack[t][j].pc # "find"
    /\ stack[t][i].name = stack[t][j].name
    => i = j

\* A step of t after which each such call was one before, d places further in the
\* stack.
LEMMA DistinctKept ==
  ASSUME CallsDistinct, NEW t \in Threads, NEW d \in Int, OthersWait(t),
         stack'[t] \in Seq(Calls),
         \A i \in 1 .. Len(stack'[t]) : stack'[t][i].pc # "find" =>
           /\ i + d \in 1 .. Len(stack[t]) /\ stack[t][i + d].pc # "find"
           /\ stack[t][i + d].name = stack'[t][i].name
  PROVE  CallsDistinct'
<1>1. ASSUME NEW i \in 1 .. Len(stack'[t]), NEW j \in 1 .. Len(stack'[t]),
             stack'[t][i].pc # "find", stack'[t][j].pc # "find",
             stack'[t][i].name = stack'[t][j].name
      PROVE  i = j
  <2>1. i + d = j + d
    BY <1>1 DEF CallsDistinct
  <2>. QED BY <2>1
<1>. QED BY <1>1 DEF CallsDistinct, OthersWait

\* A step of t after which it has at most one call.
LEMMA DistinctSingle ==
  ASSUME CallsDistinct, NEW t \in Threads, OthersWait(t), stack'[t] = <<>> \/ \E c : stack'[t] = <<c>>
  PROVE  CallsDistinct'
<1>1. ASSUME NEW c
      PROVE  Len(<<c>>) = 1
  OBVIOUS
<1>2. Len(stack'[t]) = 0 \/ Len(stack'[t]) = 1
  BY <1>1, Zenon, EmptySeq
<1>3. ASSUME NEW i \in 1 .. Len(stack'[t]), NEW j \in 1 .. Len(stack'[t])
      PROVE  i = j
  <2>1. CASE Len(stack'[t]) = 0
    BY <2>1
  <2>2. CASE Len(stack'[t]) = 1
    BY <2>2
  <2>. QED BY <1>2, <2>1, <2>2
<1>. QED BY <1>3 DEF CallsDistinct, OthersWait

\* The innermost call goes on, and had not found its collection.
LEMMA DistinctTop ==
  ASSUME IInv, CallsDistinct, NEW t \in Threads, ~Idle(t), Top(t).pc # "find",
         NEW c \in Calls, SetTop(t, c), c.name = Top(t).name
  PROVE  CallsDistinct'
<1>1. /\ OthersWait(t) /\ stack'[t] \in Seq(Calls)
      /\ Len(stack'[t]) = Len(stack[t]) /\ Len(stack[t]) \in Nat \ {0}
      /\ stack'[t][1] = c /\ \A i \in 2 .. Len(stack[t]) : stack'[t][i] = stack[t][i]
  BY TopMoves
<1>. PICK d \in Int : d = 0
  OBVIOUS
<1>2. ASSUME NEW i \in 1 .. Len(stack'[t]), stack'[t][i].pc # "find"
      PROVE  /\ i + d \in 1 .. Len(stack[t]) /\ stack[t][i + d].pc # "find"
             /\ stack[t][i + d].name = stack'[t][i].name
  <2>1. CASE i = 1
    BY <1>1, <2>1 DEF Top
  <2>2. CASE i # 1
    BY <1>1, <1>2, <2>2
  <2>. QED BY <2>1, <2>2
<1>. QED BY <1>1, <1>2, DistinctKept

\* The innermost call returns.
LEMMA DistinctReturn ==
  ASSUME IInv, CallsDistinct, NEW t \in Threads, ~Idle(t), NEW coll, Return(t, coll)
  PROVE  CallsDistinct'
<1>1. OthersWait(t) /\ (stack'[t] = <<>> \/ ReturnsToCaller(t, coll))
  BY ReturnMoves
<1>2. CASE ReturnsToCaller(t, coll)
  <2>1. /\ stack'[t] \in Seq(Calls) /\ Len(stack[t]) \in Nat /\ Len(stack[t]) > 1
        /\ Len(stack'[t]) = Len(stack[t]) - 1
        /\ stack'[t][1].name = stack[t][2].name
        /\ \A i \in 2 .. Len(stack[t]) - 1 : stack'[t][i] = stack[t][i + 1]
    BY <1>2 DEF ReturnsToCaller
  <2>2. stack[t][2].pc = "wait"
    <3>1. 2 \in 1 .. Len(stack[t])
      BY <2>1
    <3>. QED BY <3>1, CallAt
  <2>. PICK d \in Int : d = 1
    OBVIOUS
  <2>3. ASSUME NEW i \in 1 .. Len(stack'[t]), stack'[t][i].pc # "find"
        PROVE  /\ i + d \in 1 .. Len(stack[t]) /\ stack[t][i + d].pc # "find"
               /\ stack[t][i + d].name = stack'[t][i].name
    <3>1. CASE i = 1
      BY <2>1, <2>2, <3>1
    <3>2. CASE i # 1
      BY <2>1, <2>3, <3>2
    <3>. QED BY <3>1, <3>2
  <2>. QED BY <1>1, <2>1, <2>3, DistinctKept
<1>. QED BY <1>1, <1>2, DistinctSingle

\* A call that has not found its collection is not one whose relations a waiting
\* call of the same thread resolves.
LEMMA DistinctMiss ==
  ASSUME IInv, CallsDistinct, NEW t \in Threads, FindMiss(t)
  PROVE  CallsDistinct'
<1>. DEFINE c == [Top(t) EXCEPT !.pc = "unpack"]
<1>1. /\ ~Idle(t) /\ Top(t) \in Calls /\ SetTop(t, c) /\ collections[Top(t).name] = NoColl
      /\ stack[t] \in Seq(Calls)
  BY TopOK DEF FindMiss, At
<1>2. c \in Calls /\ c.name = Top(t).name
  BY <1>1 DEF Calls
<1>. HIDE DEF c
<1>3. /\ OthersWait(t) /\ Len(stack'[t]) = Len(stack[t]) /\ Len(stack[t]) \in Nat \ {0}
      /\ stack'[t][1] = c /\ \A i \in 2 .. Len(stack[t]) : stack'[t][i] = stack[t][i]
  BY <1>1, <1>2, TopMoves
<1>4. ASSUME NEW i \in 2 .. Len(stack[t])
      PROVE  stack'[t][i].name # c.name /\ stack'[t][i].pc = "wait" /\ stack[t][i].pc = "wait"
  <2>1. i \in 1 .. Len(stack[t]) /\ i > 1
    BY <1>3
  <2>2. stack[t][i].pc = "wait" /\ CallOK(stack[t][i], collections)
    BY <2>1, CallAt
  <2>3. collections[stack[t][i].name] # NoColl
    BY <2>2 DEF CallOK
  <2>. QED BY <1>1, <1>2, <1>3, <2>2, <2>3
<1>5. ASSUME NEW i \in 1 .. Len(stack'[t]), NEW j \in 1 .. Len(stack'[t]),
             stack'[t][i].name = stack'[t][j].name
      PROVE  i = j
  <2>1. CASE i = 1 \/ j = 1
    BY <1>3, <1>4, <1>5, <2>1
  <2>2. CASE i # 1 /\ j # 1
    BY <1>3, <1>4, <1>5, <2>2 DEF CallsDistinct
  <2>. QED BY <2>1, <2>2
<1>. QED BY <1>3, <1>5 DEF CallsDistinct, OthersWait

\* A call about a related collection starts at "find".
LEMMA DistinctPush ==
  ASSUME IInv, CallsDistinct, NEW t \in Threads, InsertID(t)
  PROVE  CallsDistinct'
<1>1. /\ OthersWait(t) /\ stack'[t] \in Seq(Calls)
      /\ Len(stack[t]) \in Nat \ {0} /\ Len(stack'[t]) = Len(stack[t]) + 1
      /\ stack'[t][1].pc = "find"
      /\ stack'[t][2] = [Top(t) EXCEPT !.pc = "wait"]
      /\ \A i \in 3 .. Len(stack[t]) + 1 : stack'[t][i] = stack[t][i - 1]
  BY PushMoves
<1>2. Top(t).pc = "insert" /\ stack'[t][2].name = Top(t).name
  <2>1. Top(t) \in Calls /\ Top(t).pc = "insert"
    BY TopOK DEF InsertID, At
  <2>. QED BY <1>1, <2>1 DEF Calls
<1>. PICK d \in Int : d = 0 - 1
  OBVIOUS
<1>3. ASSUME NEW i \in 1 .. Len(stack'[t]), stack'[t][i].pc # "find"
      PROVE  /\ i + d \in 1 .. Len(stack[t]) /\ stack[t][i + d].pc # "find"
             /\ stack[t][i + d].name = stack'[t][i].name
  <2>1. CASE i = 1
    BY <1>1, <1>3, <2>1
  <2>2. CASE i = 2
    <3>1. i + d = 1 /\ 1 \in 1 .. Len(stack[t])
      BY <1>1, <2>2
    <3>2. stack[t][1].pc # "find" /\ stack[t][1].name = stack'[t][2].name
      BY <1>2 DEF Top
    <3>. QED BY <2>2, <3>1, <3>2
  <2>3. CASE i # 1 /\ i # 2
    <3>1. i \in 3 .. Len(stack[t]) + 1 /\ i + d = i - 1 /\ i - 1 \in 1 .. Len(stack[t])
      BY <1>1, <2>3
    <3>2. stack'[t][i] = stack[t][i - 1]
      BY <1>1, <3>1
    <3>. QED BY <1>3, <3>1, <3>2
  <2>. QED BY <2>1, <2>2, <2>3
<1>. QED BY <1>1, <1>3, DistinctKept

\* The steps of one call.
LEMMA DistinctStep ==
  ASSUME IInv, CallsDistinct, NEW t \in Threads, Step(t)
  PROVE  CallsDistinct'
<1>1. CASE FindHit(t) \/ UnpackNothing(t) \/ EmplaceOnly(t) \/ RefsDone(t)
  BY <1>1, DistinctReturn DEF FindHit, UnpackNothing, EmplaceOnly, RefsDone, At
<1>2. CASE Unpack(t) \/ EmplaceForRefs(t)
  <2>. PICK pc \in {"emplace", "refs"} : Top(t).pc # "find" /\ ~Idle(t) /\ SetTop(t, [Top(t) EXCEPT !.pc = pc])
    BY <1>2 DEF Unpack, EmplaceForRefs, At
  <2>. DEFINE c == [Top(t) EXCEPT !.pc = pc]
  <2>1. c \in Calls /\ c.name = Top(t).name
    BY TopOK DEF Calls
  <2>2. SetTop(t, c)
    OBVIOUS
  <2>. HIDE DEF c
  <2>. QED BY <2>1, <2>2, DistinctTop
<1>3. CASE RefUnknown(t)
  <2>. DEFINE c == [Top(t) EXCEPT !.k = @ + 1]
  <2>1. SetTop(t, c) /\ Top(t).pc # "find" /\ ~Idle(t)
    BY <1>3 DEF RefUnknown, At
  <2>2. c \in Calls /\ c.name = Top(t).name
    BY <2>1, TopOK DEF Calls
  <2>. HIDE DEF c
  <2>. QED BY <2>1, <2>2, DistinctTop
<1>4. CASE RefKnown(t)
  <2>. DEFINE name == NameOf(idTable, RefIDs(Top(t).name)[Top(t).k + 1])
              c == [Top(t) EXCEPT !.pc = "search", !.target = name]
  <2>1. SetTop(t, c) /\ Top(t).pc # "find" /\ ~Idle(t) /\ name # NoName
    BY <1>4 DEF RefKnown, At
  <2>2. name \in Names
    BY <2>1, LookupType DEF IInv, TypeOK
  <2>. HIDE DEF name
  <2>3. c \in Calls /\ c.name = Top(t).name
    BY <2>1, <2>2, TopOK DEF Calls
  <2>. HIDE DEF c
  <2>. QED BY <2>1, <2>3, DistinctTop
<1>5. CASE SearchID(t)
  <2>. DEFINE found == RefIDs(Top(t).name)[Top(t).k + 1] \in retrievedIDs
              c == [Top(t) EXCEPT !.pc = "insert", !.found = found]
  <2>1. SetTop(t, c) /\ Top(t).pc # "find" /\ ~Idle(t) /\ found \in BOOLEAN
    BY <1>5 DEF SearchID, At
  <2>. HIDE DEF found
  <2>2. c \in Calls /\ c.name = Top(t).name
    BY <2>1, TopOK DEF Calls
  <2>. HIDE DEF c
  <2>. QED BY <2>1, <2>2, DistinctTop
<1>6. CASE UnpackThrows(t) \/ PutAdd(t)
  <2>1. OthersWait(t) /\ stack'[t] = <<>>
    BY <1>6 DEF UnpackThrows, PutAdd, OthersWait, IInv, TypeOK
  <2>. QED BY <2>1, DistinctSingle
<1>. QED BY <1>1, <1>2, <1>3, <1>4, <1>5, <1>6, DistinctMiss, DistinctPush DEF Step

\* Relations may form any cycles; a thread still has no more calls in progress
\* than there are raw collections, and one.
THEOREM RecursionIsBounded == Spec => []RecursionBounded
<1>1. Init => CallsDistinct
  BY DEF Init, CallsDistinct
<1>2. IInv /\ CallsDistinct /\ [Next]_vars => CallsDistinct'
  <2>. SUFFICES ASSUME IInv, CallsDistinct, [Next]_vars
                PROVE  CallsDistinct'
    OBVIOUS
  <2>1. stack \in [Threads -> Seq(Calls)]
    BY DEF IInv, TypeOK
  <2>2. ASSUME NEW t \in Threads, NEW n, Get(t, n) \/ Put(t, n) \/ PutExists(t, n)
        PROVE  CallsDistinct'
    <3>1. CASE Get(t, n) \/ Put(t, n)
      <4>1. OthersWait(t) /\ \E c : stack'[t] = <<c>>
        BY <2>1, <3>1 DEF Get, Put, OthersWait
      <4>. QED BY <4>1, DistinctSingle
    <3>2. CASE PutExists(t, n)
      BY <3>2 DEF PutExists, CallsDistinct
    <3>. QED BY <2>2, <3>1, <3>2
  <2>3. CASE UNCHANGED vars
    BY <2>3 DEF vars, CallsDistinct
  <2>. QED BY <2>2, <2>3, DistinctStep DEF Next
<1>3. IInv /\ CallsDistinct => RecursionBounded
  <2>. SUFFICES ASSUME IInv, CallsDistinct, NEW t \in Threads
                PROVE  Len(stack[t]) <= Cardinality(RawNames) + 1
    BY DEF RecursionBounded
  <2>. DEFINE waiting == 2 .. Len(stack[t])
              f == [i \in waiting |-> stack[t][i].name]
  <2>1. Len(stack[t]) \in Nat
    BY DEF IInv, TypeOK
  <2>2. ASSUME NEW i \in waiting
        PROVE  i \in 1 .. Len(stack[t]) /\ stack[t][i].pc = "wait" /\ stack[t][i].name \in RawNames
    <3>1. i \in 1 .. Len(stack[t]) /\ i > 1
      BY <2>1
    <3>2. /\ stack[t][i].pc = "wait" /\ CallOK(stack[t][i], collections)
          /\ stack[t][i].name \in Names
      BY <3>1, CallAt
    <3>3. StoredRaw(stack[t][i].name)
      BY <3>2 DEF CallOK, StoredRaw, Stored
    <3>. QED BY <3>1, <3>2, <3>3 DEF IInv, DataOK
  <2>3. \A i, j \in waiting : f[i] = f[j] => i = j
    BY <2>2 DEF CallsDistinct
  <2>4. f \in Injection(waiting, RawNames)
    BY <2>2, <2>3 DEF Injection, IsInjective
  <2>5. /\ IsFiniteSet(RawNames) /\ Cardinality(RawNames) \in Nat
        /\ Cardinality(waiting) <= Cardinality(RawNames)
    BY <2>4, FS_Injection, FS_CardinalityType, ConstantsAssumption
  <2>6. Cardinality(waiting) = IF 2 > Len(stack[t]) THEN 0 ELSE Len(stack[t]) - 2 + 1
    BY <2>1, FS_Interval, SMTT(30)
  <2>. HIDE DEF waiting
  <2>. QED BY <2>1, <2>5, <2>6
<1>. QED BY <1>1, <1>2, <1>3, IInvInit, IInvStep, PTL DEF Spec

-----------------------------------------------------------------------------
(* One thread.                                                             *)

\* A single thread uses the frame.  With two of them the theorems below do not
\* hold: while one has unpacked a collection and not yet stored it, the other
\* finds it neither in the raw data nor in the map.
OneThread == \A t, u \in Threads : t = u

\* What a step does to the stack of the thread that takes it: the innermost call
\* goes on, all calls end, the innermost one returns to its caller, or it calls
\* doGet for its target.
Advances(t) ==
  /\ Len(stack[t]) \in Nat \ {0} /\ Len(stack'[t]) = Len(stack[t])
  /\ stack'[t][1].name = Top(t).name /\ stack'[t][1].setRefs = Top(t).setRefs
  /\ \A i \in 2 .. Len(stack[t]) : stack'[t][i] = stack[t][i]
Resumes(t) ==
  /\ Len(stack[t]) \in Nat /\ Len(stack[t]) > 1 /\ Len(stack'[t]) = Len(stack[t]) - 1
  /\ stack'[t][1].name = stack[t][2].name /\ stack'[t][1].pc = "refs"
  /\ \A i \in 2 .. Len(stack[t]) - 1 : stack'[t][i] = stack[t][i + 1]
Pushes(t) ==
  /\ Len(stack[t]) \in Nat \ {0} /\ Len(stack'[t]) = Len(stack[t]) + 1
  /\ stack'[t][1].pc = "find" /\ stack'[t][1].name = Top(t).target
  /\ stack'[t][1].setRefs = ~Top(t).found
  /\ stack'[t][2].name = Top(t).name /\ stack'[t][2].pc = "wait"
  /\ \A i \in 3 .. Len(stack[t]) + 1 : stack'[t][i] = stack[t][i - 1]

\* The innermost call returns.
LEMMA ReturnsStack ==
  ASSUME IInv, NEW t \in Threads,
         FindHit(t) \/ UnpackNothing(t) \/ EmplaceOnly(t) \/ RefsDone(t)
  PROVE  stack'[t] = <<>> \/ Resumes(t)
<1>1. ~Idle(t) /\ \E coll : Return(t, coll)
  BY DEF FindHit, UnpackNothing, EmplaceOnly, RefsDone, At
<1>. QED BY <1>1, ReturnMoves DEF ReturnsToCaller, Resumes

\* The innermost call goes on.
LEMMA AdvancesTo ==
  ASSUME IInv, NEW t \in Threads, ~Idle(t), NEW c \in Calls, SetTop(t, c),
         c.name = Top(t).name, c.setRefs = Top(t).setRefs
  PROVE  Advances(t) /\ stack'[t][1].pc = c.pc
BY TopMoves DEF Advances

LEMMA AdvanceSteps ==
  ASSUME IInv, NEW t \in Threads
  PROVE  /\ FindMiss(t) => Advances(t) /\ stack'[t][1].pc = "unpack"
         /\ Unpack(t) => Advances(t) /\ stack'[t][1].pc = "emplace"
         /\ EmplaceForRefs(t) => Advances(t) /\ stack'[t][1].pc = "refs"
         /\ RefUnknown(t) => Advances(t) /\ stack'[t][1].pc = "refs"
         /\ RefKnown(t) => Advances(t) /\ stack'[t][1].pc = "search"
         /\ SearchID(t) => Advances(t) /\ stack'[t][1].pc = "insert"
<1>1. ASSUME NEW pc \in {"unpack", "emplace", "refs"}, ~Idle(t), SetTop(t, [Top(t) EXCEPT !.pc = pc])
      PROVE  Advances(t) /\ stack'[t][1].pc = pc
  <2>. DEFINE c == [Top(t) EXCEPT !.pc = pc]
  <2>1. c \in Calls /\ c.name = Top(t).name /\ c.setRefs = Top(t).setRefs /\ c.pc = pc
    BY <1>1, TopOK DEF Calls
  <2>2. SetTop(t, c)
    BY <1>1
  <2>. HIDE DEF c
  <2>. QED BY <1>1, <2>1, <2>2, AdvancesTo
<1>2. ASSUME RefUnknown(t)
      PROVE  Advances(t) /\ stack'[t][1].pc = "refs"
  <2>. DEFINE c == [Top(t) EXCEPT !.k = @ + 1]
  <2>1. SetTop(t, c) /\ Top(t).pc = "refs" /\ ~Idle(t)
    BY <1>2 DEF RefUnknown, At
  <2>2. c \in Calls /\ c.name = Top(t).name /\ c.setRefs = Top(t).setRefs /\ c.pc = "refs"
    BY <2>1, TopOK DEF Calls
  <2>. HIDE DEF c
  <2>. QED BY <2>1, <2>2, AdvancesTo
<1>3. ASSUME RefKnown(t)
      PROVE  Advances(t) /\ stack'[t][1].pc = "search"
  <2>. DEFINE name == NameOf(idTable, RefIDs(Top(t).name)[Top(t).k + 1])
              c == [Top(t) EXCEPT !.pc = "search", !.target = name]
  <2>1. SetTop(t, c) /\ ~Idle(t) /\ name # NoName
    BY <1>3 DEF RefKnown, At
  <2>2. name \in Names
    BY <2>1, LookupType DEF IInv, TypeOK
  <2>. HIDE DEF name
  <2>3. c \in Calls /\ c.name = Top(t).name /\ c.setRefs = Top(t).setRefs /\ c.pc = "search"
    BY <2>1, <2>2, TopOK DEF Calls
  <2>. HIDE DEF c
  <2>. QED BY <2>1, <2>3, AdvancesTo
<1>4. ASSUME SearchID(t)
      PROVE  Advances(t) /\ stack'[t][1].pc = "insert"
  <2>. DEFINE found == RefIDs(Top(t).name)[Top(t).k + 1] \in retrievedIDs
              c == [Top(t) EXCEPT !.pc = "insert", !.found = found]
  <2>1. SetTop(t, c) /\ ~Idle(t) /\ found \in BOOLEAN
    BY <1>4 DEF SearchID, At
  <2>. HIDE DEF found
  <2>2. c \in Calls /\ c.name = Top(t).name /\ c.setRefs = Top(t).setRefs /\ c.pc = "insert"
    BY <2>1, TopOK DEF Calls
  <2>. HIDE DEF c
  <2>. QED BY <2>1, <2>2, AdvancesTo
<1>5. FindMiss(t) => ~Idle(t) /\ SetTop(t, [Top(t) EXCEPT !.pc = "unpack"])
  BY DEF FindMiss, At
<1>6. Unpack(t) => ~Idle(t) /\ SetTop(t, [Top(t) EXCEPT !.pc = "emplace"])
  BY DEF Unpack, At
<1>7. EmplaceForRefs(t) => ~Idle(t) /\ SetTop(t, [Top(t) EXCEPT !.pc = "refs"])
  BY DEF EmplaceForRefs, At
<1>. QED BY <1>1, <1>2, <1>3, <1>4, <1>5, <1>6, <1>7

\* get(id) calls doGet.
LEMMA PushesStack ==
  ASSUME IInv, NEW t \in Threads, InsertID(t)
  PROVE  Pushes(t)
<1>1. ~Idle(t) /\ Top(t) \in Calls /\ stack[t] \in Seq(Calls)
  BY TopOK DEF InsertID, At
<1>2. /\ Len(stack[t]) \in Nat \ {0} /\ Len(stack'[t]) = Len(stack[t]) + 1
      /\ stack'[t][2] = [Top(t) EXCEPT !.pc = "wait"]
      /\ \A i \in 3 .. Len(stack[t]) + 1 : stack'[t][i] = stack[t][i - 1]
  BY PushMoves
<1>3. stack'[t][2].name = Top(t).name /\ stack'[t][2].pc = "wait"
  BY <1>1, <1>2 DEF Calls
<1>4. /\ stack'[t][1].pc = "find" /\ stack'[t][1].name = Top(t).target
      /\ stack'[t][1].setRefs = ~Top(t).found
  <2>. DEFINE c == Call(Top(t).target, ~Top(t).found, "find")
              d == [Top(t) EXCEPT !.pc = "wait"]
  <2>1. c \in Calls /\ d \in Calls
    BY <1>1 DEF Calls, Call
  <2>4. c.pc = "find" /\ c.name = Top(t).target /\ c.setRefs = ~Top(t).found
    BY DEF Call
  <2>2. stack'[t] = <<c, d>> \o Tail(stack[t])
    BY DEF InsertID, IInv, TypeOK
  <2>. HIDE DEF c, d
  <2>3. stack'[t][1] = c
    BY <1>1, <2>1, <2>2, PushCall DEF Idle
  <2>. QED BY <2>3, <2>4
<1>. QED BY <1>2, <1>3, <1>4 DEF Pushes

\* The calls that end with all others of their thread, or start as the only one.
LEMMA UserStack ==
  ASSUME IInv, NEW t \in Threads
  PROVE  /\ UnpackThrows(t) \/ PutAdd(t) => stack'[t] = <<>>
         /\ \A n : Get(t, n) => stack'[t] = <<Call(n, TRUE, "find")>>
         /\ \A n : Put(t, n) => stack'[t] = <<Call(n, FALSE, "add")>>
BY DEF UnpackThrows, PutAdd, Get, Put, IInv, TypeOK

\* A collection that a call unpacks is not in the map.
NotStored ==
  \A t \in Threads : At(t, "unpack") \/ At(t, "emplace") => ~Stored(Top(t).name)

LEMMA NotStoredStep ==
  ASSUME OneThread, IInv, NotStored, [Next]_vars
  PROVE  NotStored'
<1>1. ASSUME NEW t \in Threads, stack'[t] = <<>> \/ stack'[t][1].pc \notin {"unpack", "emplace"}
      PROVE  NotStored'
  BY <1>1 DEF OneThread, NotStored, At, Idle, Top
<1>2. ASSUME NEW t \in Threads, FindMiss(t) \/ Unpack(t)
      PROVE  NotStored'
  <2>1. Advances(t) /\ UNCHANGED collections /\ ~Stored(Top(t).name)
    BY <1>2, AdvanceSteps DEF FindMiss, Unpack, NotStored, Stored
  <2>2. ~Stored(Top(t).name)'
    BY <2>1 DEF Advances, Stored, Top
  <2>. QED BY <2>2 DEF OneThread, NotStored
<1>3. ASSUME NEW t \in Threads, NEW n, NEW pc \in {"find", "add"}, NEW b, stack'[t] = <<Call(n, b, pc)>>
      PROVE  NotStored'
  <2>1. stack'[t][1].pc = pc
    BY <1>3 DEF Call
  <2>. QED BY <1>1, <2>1
<1>4. ASSUME NEW t \in Threads, Step(t)
      PROVE  NotStored'
  <2>1. CASE FindHit(t) \/ UnpackNothing(t) \/ EmplaceOnly(t) \/ RefsDone(t)
    <3>1. stack'[t] = <<>> \/ stack'[t][1].pc = "refs"
      BY <2>1, ReturnsStack DEF Resumes
    <3>. QED BY <1>1, <3>1
  <2>2. CASE EmplaceForRefs(t) \/ RefUnknown(t) \/ RefKnown(t) \/ SearchID(t)
    <3>1. stack'[t][1].pc \in {"refs", "search", "insert"}
      BY <2>2, AdvanceSteps
    <3>. QED BY <1>1, <3>1
  <2>3. CASE InsertID(t)
    <3>1. stack'[t][1].pc = "find"
      BY <2>3, PushesStack DEF Pushes
    <3>. QED BY <1>1, <3>1
  <2>4. CASE UnpackThrows(t) \/ PutAdd(t)
    BY <1>1, <2>4, UserStack
  <2>. QED BY <1>2, <1>4, <2>1, <2>2, <2>3, <2>4 DEF Step
<1>5. ASSUME NEW t \in Threads, NEW n, Get(t, n) \/ Put(t, n) \/ PutExists(t, n)
      PROVE  NotStored'
  <2>1. CASE PutExists(t, n)
    BY <2>1 DEF PutExists, NotStored, At, Idle, Top, Stored
  <2>. QED BY <1>3, <1>5, <2>1, UserStack
<1>6. CASE UNCHANGED vars
  BY <1>6 DEF vars, NotStored, At, Idle, Top, Stored
<1>. QED BY <1>4, <1>5, <1>6 DEF Next

\* The only thread gets buffers for every collection it does not find in the map.
LEMMA NothingUnpacked ==
  ASSUME OneThread, IInv, BuffersInOnePlace, NotStored, NEW t \in Threads, UnpackNothing(t)
  PROVE  Top(t).name \notin RawNames
<1>. SUFFICES ASSUME Top(t).name \in RawNames PROVE FALSE
  OBVIOUS
<1>1. At(t, "unpack") /\ Top(t).name \notin rawData
  BY DEF UnpackNothing
<1>2. extracting
  BY <1>1 DEF IInv, DataOK
<1>3. ~Stored(Top(t).name)
  BY <1>1 DEF NotStored
<1>4. \A u \in Threads : ~InHand(u, Top(t).name)
  BY <1>1 DEF OneThread, InHand, At
<1>. QED BY <1>1, <1>2, <1>3, <1>4 DEF BuffersInOnePlace

\* What a call of the only thread returns: nothing only for a name that the raw
\* data does not have.
LEMMA ReturnFinds ==
  ASSUME OneThread, IInv, BuffersInOnePlace, NotStored, NEW t \in Threads,
         FindHit(t) \/ UnpackNothing(t) \/ EmplaceOnly(t) \/ RefsDone(t)
  PROVE  \E coll : Return(t, coll) /\ (Top(t).name \in RawNames => coll # NoColl)
<1>1. CASE FindHit(t)
  BY <1>1 DEF FindHit
<1>2. CASE UnpackNothing(t)
  <2>1. At(t, "unpack") /\ Top(t).name \notin rawData /\ Return(t, NoColl)
    BY <1>2 DEF UnpackNothing
  <2>2. Top(t).name \notin RawNames
    BY <1>2, NothingUnpacked
  <2>. QED BY <2>1, <2>2
<1>3. CASE EmplaceOnly(t)
  <2>1. At(t, "emplace") /\ Emplaced(t) /\ Return(t, collections'[Top(t).name])
    BY <1>3 DEF EmplaceOnly
  <2>2. collections'[Top(t).name] # NoColl
    BY <2>1, EmplacedMap, ConstantsAssumption
  <2>. QED BY <2>1, <2>2
<1>4. CASE RefsDone(t)
  <2>1. At(t, "refs") /\ Return(t, collections[Top(t).name])
    BY <1>4 DEF RefsDone
  <2>2. Stored(Top(t).name)
    BY <2>1, ResolvingCall
  <2>. QED BY <2>1, <2>2 DEF Stored
<1>. QED BY <1>1, <1>2, <1>3, <1>4

\* NotStored holds in the beginning.
LEMMA NotStoredInit == Init => NotStored
BY DEF Init, NotStored, At, Idle

\* "A const pointer to a collection if it is available or a nullptr if it is
\* not": when one thread uses the frame, get finds every collection of the raw
\* data, however often and in whatever order it is asked.
THEOREM OneThreadFindsAll ==
  ASSUME OneThread
  PROVE  Spec => []GetFindsAvailable
<1>1. Init => GetFindsAvailable
  BY DEF Init, GetFindsAvailable, NoResult, Result
<1>2. IInv /\ BuffersInOnePlace /\ NotStored /\ GetFindsAvailable /\ [Next]_vars
      => GetFindsAvailable'
  <2>. SUFFICES ASSUME IInv, BuffersInOnePlace, NotStored, GetFindsAvailable, [Next]_vars
                PROVE  GetFindsAvailable'
    OBVIOUS
  <2>0. result \in [Threads -> Results]
    BY DEF IInv, TypeOK
  <2>1. ASSUME NEW t \in Threads, NEW op, NEW n, NEW coll,
               op = "get" /\ n \in RawNames => coll # NoColl,
               result' = [result EXCEPT ![t] = Result(op, n, coll)]
        PROVE  GetFindsAvailable'
    <3>. DEFINE r == Result(op, n, coll)
    <3>1. r.op = op /\ r.name = n /\ r.coll = coll
      BY DEF Result
    <3>2. result' = [result EXCEPT ![t] = r]
      BY <2>1
    <3>. HIDE DEF r
    <3>3. result'[t] = r /\ \A u \in Threads : u # t => result'[u] = result[u]
      BY <2>0, <3>2
    <3>. QED BY <2>1, <3>1, <3>3 DEF GetFindsAvailable
  <2>2. ASSUME NEW t \in Threads, Step(t)
        PROVE  GetFindsAvailable'
    <3>1. CASE FindHit(t) \/ UnpackNothing(t) \/ EmplaceOnly(t) \/ RefsDone(t)
      <4>1. PICK coll : Return(t, coll) /\ (Top(t).name \in RawNames => coll # NoColl)
        BY <3>1, ReturnFinds
      <4>2. CASE UNCHANGED result
        BY <4>2 DEF GetFindsAvailable
      <4>3. CASE result' = [result EXCEPT ![t] = Result("get", Top(t).name, coll)]
        BY <2>1, <4>1, <4>3
      <4>. QED BY <4>1, <4>2, <4>3 DEF Return
    <3>2. CASE UnpackThrows(t)
      BY <2>1, <3>2 DEF UnpackThrows
    <3>3. CASE PutAdd(t)
      BY <2>1, <3>3 DEF PutAdd
    <3>4. CASE UNCHANGED result
      BY <3>4 DEF GetFindsAvailable
    <3>. QED BY <2>2, <3>1, <3>2, <3>3, <3>4 DEF Step, FindMiss, Unpack, EmplaceForRefs,
            RefUnknown, RefKnown, SearchID, InsertID
  <2>3. ASSUME NEW t \in Threads, NEW n, Get(t, n) \/ Put(t, n) \/ PutExists(t, n)
        PROVE  GetFindsAvailable'
    BY <2>1, <2>3 DEF Get, Put, PutExists, NoResult
  <2>4. CASE UNCHANGED vars
    BY <2>4 DEF vars, GetFindsAvailable
  <2>. QED BY <2>2, <2>3, <2>4 DEF Next
<1>3. IInv /\ NotStored /\ [Next]_vars => NotStored'
  BY NotStoredStep
<1>. QED BY <1>1, <1>2, <1>3, NotStoredInit, BuffersConserved, IInvInit, IInvStep, PTL DEF Spec

\* getAvailableCollections returns "the names of all collections, including those
\* that might still need unpacking" to the only thread that uses the frame.
THEOREM OneThreadListsAll ==
  ASSUME OneThread
  PROVE  Spec => []ListsEveryCollection
<1>1. IInv /\ BuffersInOnePlace => ListsEveryCollection
  <2>. SUFFICES ASSUME IInv, BuffersInOnePlace, NEW t \in Threads, Idle(t), NEW n \in RawNames
                PROVE  Listed(n) > 0
    BY DEF ListsEveryCollection
  <2>1. \A u \in Threads : ~InHand(u, n)
    BY DEF OneThread, InHand, At
  <2>2. n \in rawData \/ collections[n] # NoColl
    BY <2>1 DEF BuffersInOnePlace, IInv, DataOK, Stored
  <2>. QED BY <2>2 DEF Listed
<1>. QED BY <1>1, BuffersConserved, IInvInit, IInvStep, PTL DEF Spec

-----------------------------------------------------------------------------
(* One thread: all relations are resolved.                                 *)

\* A name that was added to a table is the only one it gives an ID anew.
LEMMA AddedNameOf ==
  ASSUME NEW table \in Tables, WellFormed(table), NEW name \in Names, NEW id,
         NameOf(AddName(table, name), id) # NameOf(table, id)
  PROVE  ~Known(table, name) /\ NameOf(AddName(table, name), id) = name
<1>1. /\ table.ids \in Seq(Nat) /\ table.names \in Seq(Names) /\ Hash[name] \in Nat
      /\ Len(table.ids) = Len(table.names) /\ Len(table.ids) \in Nat
  BY HashAssumption DEF Tables, WellFormed
<1>2. ~Known(table, name)
  BY DEF AddName, Known
<1>. DEFINE ids == Append(table.ids, Hash[name])
            names == Append(table.names, name)
            i == FirstIndex(ids, id)
<1>3. AddName(table, name).ids = ids /\ AddName(table, name).names = names
  BY <1>2 DEF AddName, Known
<1>4. /\ ids \in Seq(Nat) /\ Len(ids) = Len(table.ids) + 1 /\ Len(names) = Len(table.names) + 1
      /\ \A k \in 1 .. Len(table.ids) : ids[k] = table.ids[k] /\ names[k] = table.names[k]
      /\ names[Len(table.names) + 1] = name
  BY <1>1
<1>5. NameOf(AddName(table, name), id) = IF i > Len(names) THEN NoName ELSE names[i]
  BY <1>3 DEF NameOf
<1>. HIDE DEF ids, names
<1>6. /\ i \in 1 .. Len(ids) + 1
      /\ i <= Len(ids) => ids[i] = id
      /\ \A j \in 1 .. i - 1 : ids[j] # id
  BY <1>4, FirstIndexProperties
<1>. DEFINE old == table.ids
            n == Len(table.ids)
<1>7. old \in Seq(Nat) /\ n = Len(old) /\ n \in Nat /\ Len(table.names) = n
  BY <1>1
<1>8. /\ Len(ids) = n + 1 /\ Len(names) = n + 1 /\ names[n + 1] = name
      /\ \A k \in 1 .. n : ids[k] = old[k] /\ names[k] = table.names[k]
  BY <1>1, <1>4
<1>9. NameOf(table, id) = IF FirstIndex(old, id) > n THEN NoName ELSE table.names[FirstIndex(old, id)]
  BY <1>7 DEF NameOf
<1>. HIDE DEF i, old, n
<1>10. CASE i <= n
  <2>1. i \in 1 .. n /\ i <= Len(ids)
    BY <1>6, <1>7, <1>8, <1>10
  <2>2. \A j \in 1 .. i - 1 : j \in 1 .. n
    BY <1>7, <2>1
  <2>3. old[i] = id /\ \A j \in 1 .. i - 1 : old[j] # id
    BY <1>6, <1>8, <2>1, <2>2
  <2>4. FirstIndex(old, id) = i
    BY <1>7, <2>1, <2>3, FirstIndexIs
  <2>. QED BY <1>5, <1>7, <1>8, <1>9, <2>1, <2>4
<1>11. CASE i = n + 1
  BY <1>2, <1>5, <1>7, <1>8, <1>11
<1>12. CASE i = n + 2
  <2>1. \A k \in 1 .. n : old[k] # id
    BY <1>6, <1>7, <1>8, <1>12
  <2>2. FirstIndex(old, id) = n + 1
    BY <1>7, <2>1 DEF FirstIndex
  <2>. QED BY <1>5, <1>7, <1>8, <1>9, <1>12, <2>2
<1>. QED BY <1>6, <1>7, <1>8, <1>10, <1>11, <1>12

\* The IDs of the file keep their names, and no other ID gets a name of a raw
\* collection.
FileNames ==
  \A id : /\ NameOf(FileTable, id) # NoName => NameOf(idTable, id) = NameOf(FileTable, id)
          /\ NameOf(idTable, id) \in RawNames => NameOf(FileTable, id) = NameOf(idTable, id)

LEMMA FileNamesInit == Init => FileNames
BY DEF Init, FileNames

LEMMA FileNamesStep ==
  ASSUME IInv, FileNames, [Next]_vars
  PROVE  FileNames'
<1>1. CASE UNCHANGED idTable
  BY <1>1 DEF FileNames
<1>2. ASSUME NEW t \in Threads, PutAdd(t)
      PROVE  FileNames'
  <2>. DEFINE n == Top(t).name
  <2>1. /\ n \in Names /\ idTable' = AddName(idTable, n)
        /\ idTable \in Tables /\ WellFormed(idTable)
    BY <1>2, TopOK DEF PutAdd, At, IInv, TypeOK, DataOK
  <2>. HIDE DEF n
  <2>2. \A m \in RawNames : Known(idTable, m)
    BY DEF IInv, DataOK
  <2>3. ASSUME NEW id
        PROVE  /\ NameOf(FileTable, id) # NoName => NameOf(idTable', id) = NameOf(FileTable, id)
               /\ NameOf(idTable', id) \in RawNames => NameOf(FileTable, id) = NameOf(idTable', id)
    <3>1. NameOf(idTable, id) # NoName => NameOf(idTable', id) = NameOf(idTable, id)
      BY <2>1, AddNameStable
    <3>2. NameOf(idTable', id) # NameOf(idTable, id) => NameOf(idTable', id) \notin RawNames
      BY <2>1, <2>2, AddedNameOf
    <3>. QED BY <3>1, <3>2 DEF FileNames
  <2>. QED BY <2>3 DEF FileNames
<1>. QED BY <1>1, <1>2 DEF Next, Step, vars, Get, Put, PutExists, FindHit, FindMiss, Unpack,
        UnpackNothing, UnpackThrows, EmplaceForRefs, EmplaceOnly, RefUnknown, RefKnown, RefsDone,
        SearchID, InsertID

\* The relations of a resolvable collection lead to resolvable ones, and all of
\* those can be read.
LEMMA ResolvableClosed ==
  /\ Resolvable \subseteq RawNames
  /\ \A n \in Resolvable : \A i \in DOMAIN Rel[n] :
       NameOf(FileTable, Rel[n][i]) \in RawNames => NameOf(FileTable, Rel[n][i]) \in Resolvable
  /\ ~extracting => \A n \in Resolvable : n \notin Unreadable
<1>. DEFINE readable == IF extracting THEN RawNames ELSE RawNames \ Unreadable
            Closed(S) == \A n \in S : \A i \in DOMAIN Rel[n] :
               LET m == NameOf(FileTable, Rel[n][i]) IN m \in RawNames => m \in S
<1>1. Resolvable = UNION {S \in SUBSET readable : Closed(S)}
  BY DEF Resolvable
<1>2. ASSUME NEW n \in Resolvable
      PROVE  \E S \in SUBSET readable : n \in S /\ Closed(S) /\ S \subseteq Resolvable
  <2>. HIDE DEF readable, Closed
  <2>1. PICK S \in {T \in SUBSET readable : Closed(T)} : n \in S
    BY <1>1
  <2>. QED BY <1>1, <2>1
<1>3. ASSUME NEW n \in Resolvable
      PROVE  /\ n \in readable
             /\ \A i \in DOMAIN Rel[n] : NameOf(FileTable, Rel[n][i]) \in RawNames
                  => NameOf(FileTable, Rel[n][i]) \in Resolvable
  BY <1>2
<1>. QED BY <1>3

LEMMA ResolvableConstant ==
  ASSUME [Next]_vars
  PROVE  extracting' = extracting /\ Resolvable' = Resolvable
<1>1. extracting' = extracting
  BY DEF Next, Step, vars, Get, Put, PutExists, FindHit, FindMiss, Unpack, UnpackNothing,
     UnpackThrows, EmplaceForRefs, EmplaceOnly, RefUnknown, RefKnown, RefsDone, SearchID,
     InsertID, PutAdd
<1>. QED BY <1>1 DEF Resolvable

\* A call that relations of resolvable collections have led to is about a
\* resolvable collection, if the raw data has it.
Led ==
  \A t \in Threads : \A i, j \in 1 .. Len(stack[t]) :
    i < j /\ stack[t][j].name \in Resolvable /\ stack[t][i].name \in RawNames
    => stack[t][i].name \in Resolvable

\* put calls nothing in the frame that could wait for it.
AddAlone == \A t \in Threads : At(t, "add") => Len(stack[t]) = 1

\* The call is still on its way to the collection.
Early(c) == c.pc \in {"find", "unpack", "emplace"}

\* An ID in m_retrievedIDs stands for a collection that is in the map, or that the
\* innermost call is about to unpack and to resolve.
Retrieved ==
  \A id \in retrievedIDs : NameOf(FileTable, id) \in Resolvable =>
    \/ Stored(NameOf(FileTable, id))
    \/ \E t \in Threads : /\ ~Idle(t) /\ Early(Top(t)) /\ Top(t).setRefs
                          /\ Top(t).name = NameOf(FileTable, id)

\* What insert has found does not get lost.
FoundOK ==
  \A t \in Threads : At(t, "insert") /\ Top(t).found =>
    RefIDs(Top(t).name)[Top(t).k + 1] \in retrievedIDs

\* A call that does not resolve relations finds the collection in the map.
NeedsRefs ==
  \A t \in Threads :
    ~Idle(t) /\ Early(Top(t)) /\ ~Top(t).setRefs /\ Top(t).name \in Resolvable
    => Stored(Top(t).name)

\* Some call resolves the relations of n.
InResolution(n) == \E t \in Threads : \E i \in 1 .. Len(stack[t]) : ResolvesAt(t, i, n)

\* What was resolved so far is there if the raw data has it.
NoneMissing(n) ==
  \A i \in DOMAIN relations[n] :
    NameOf(FileTable, Rel[n][i]) \in RawNames => relations[n][i] # NoColl

\* The relations of n are resolved or a call is at it, and nothing was missed.
ResolvedOf(n) ==
  StoredRaw(n) => (Len(relations[n]) = Len(Rel[n]) \/ InResolution(n)) /\ NoneMissing(n)

AllResolved == \A n \in Resolvable : ResolvedOf(n)

\* The inductive invariant for one thread.
OneInv ==
  /\ NotStored /\ RelInv /\ FileNames /\ Led /\ AddAlone
  /\ Retrieved /\ FoundOK /\ NeedsRefs /\ AllResolved

\* The relation that a call of a resolvable collection is about leads to a
\* resolvable one, if the raw data has it.
LEMMA TargetResolvable ==
  ASSUME IInv, RelInv, FileNames, NEW t \in Threads, NEW i \in 1 .. Len(stack[t]),
         stack[t][i].pc \in {"search", "insert", "wait"}
  PROVE  LET c == stack[t][i] IN
         /\ c.name \in RawNames /\ StoredRaw(c.name) /\ c.k + 1 \in DOMAIN Rel[c.name]
         /\ c.k = Len(relations[c.name])
         /\ c.target = NameOf(idTable, Rel[c.name][c.k + 1])
         /\ NameOf(FileTable, Rel[c.name][c.k + 1]) \in RawNames =>
              c.target = NameOf(FileTable, Rel[c.name][c.k + 1])
         /\ c.name \in Resolvable /\ c.target \in RawNames => c.target \in Resolvable
         /\ c.target \in RawNames => c.target = NameOf(FileTable, Rel[c.name][c.k + 1])
<1>. DEFINE c == stack[t][i]
<1>1. /\ CallOK(c, collections) /\ c.name \in Names /\ c.k \in Nat
      /\ Progress(c, collections, relations, idTable)
  BY CallAt DEF RelInv, InProgress
<1>. HIDE DEF c
<1>2. c.pc \in {"search", "insert", "wait"}
  BY DEF c
<1>3. StoredRaw(c.name) /\ c.k < Len(Rel[c.name])
  BY <1>1, <1>2 DEF CallOK, StoredRaw, Stored
<1>4. c.name \in RawNames
  BY <1>1, <1>3 DEF IInv, DataOK
<1>5. c.k + 1 \in DOMAIN Rel[c.name]
  <2>1. Rel[c.name] \in Seq(Nat)
    BY <1>4, ConstantsAssumption
  <2>. QED BY <1>1, <1>3, <2>1
<1>6. c.k = Len(relations[c.name]) /\ c.target = NameOf(idTable, Rel[c.name][c.k + 1])
  BY <1>1, <1>2, <1>3 DEF Progress, Resolving, RawIn, StoredRaw, Stored
<1>7. NoName \notin RawNames
  BY NoNameAssumption, ConstantsAssumption
<1>8. NameOf(FileTable, Rel[c.name][c.k + 1]) \in RawNames =>
        c.target = NameOf(FileTable, Rel[c.name][c.k + 1])
  BY <1>6, <1>7 DEF FileNames
<1>9. c.target \in RawNames => c.target = NameOf(FileTable, Rel[c.name][c.k + 1])
  BY <1>6 DEF FileNames
<1>10. c.name \in Resolvable /\ c.target \in RawNames => c.target \in Resolvable
  BY <1>5, <1>9, ResolvableClosed
<1>. QED BY <1>3, <1>4, <1>5, <1>6, <1>8, <1>9, <1>10 DEF c

LEMMA LedStep ==
  ASSUME OneThread, IInv, RelInv, FileNames, Led, AddAlone, [Next]_vars
  PROVE  Led'
<1>0. Resolvable' = Resolvable
  BY ResolvableConstant
<1>1. ASSUME NEW t \in Threads,
             \A i, j \in 1 .. Len(stack'[t]) :
               i < j /\ stack'[t][j].name \in Resolvable /\ stack'[t][i].name \in RawNames
               => stack'[t][i].name \in Resolvable
      PROVE  Led'
  BY <1>0, <1>1 DEF OneThread, Led
<1>2. ASSUME NEW t \in Threads, NEW d \in Nat, stack[t] \in Seq(Calls), stack'[t] \in Seq(Calls),
             \A i \in 1 .. Len(stack'[t]) : /\ i + d \in 1 .. Len(stack[t])
                                            /\ stack'[t][i].name = stack[t][i + d].name
      PROVE  Led'
  <2>1. ASSUME NEW i \in 1 .. Len(stack'[t]), NEW j \in 1 .. Len(stack'[t]), i < j,
               stack'[t][j].name \in Resolvable, stack'[t][i].name \in RawNames
        PROVE  stack'[t][i].name \in Resolvable
    <3>1. i + d < j + d
      BY <2>1
    <3>. QED BY <1>2, <2>1, <3>1 DEF Led
  <2>. QED BY <1>1, <2>1
<1>3. ASSUME NEW t \in Threads, Step(t)
      PROVE  Led'
  <2>0. stack[t] \in Seq(Calls) /\ stack'[t] \in Seq(Calls)
    BY IInvStep DEF IInv, TypeOK
  <2>1. CASE Advances(t)
    <3>. PICK d \in Nat : d = 0
      OBVIOUS
    <3>1. ASSUME NEW i \in 1 .. Len(stack'[t])
          PROVE  i + d \in 1 .. Len(stack[t]) /\ stack'[t][i].name = stack[t][i + d].name
      <4>1. CASE i = 1
        BY <2>1, <4>1 DEF Advances, Top
      <4>2. CASE i # 1
        BY <2>1, <4>2 DEF Advances
      <4>. QED BY <4>1, <4>2
    <3>. QED BY <1>2, <2>0, <3>1
  <2>2. CASE stack'[t] = <<>>
    BY <1>1, <2>2
  <2>3. CASE Resumes(t)
    <3>. PICK d \in Nat : d = 1
      OBVIOUS
    <3>1. ASSUME NEW i \in 1 .. Len(stack'[t])
          PROVE  i + d \in 1 .. Len(stack[t]) /\ stack'[t][i].name = stack[t][i + d].name
      <4>1. CASE i = 1
        BY <2>3, <4>1 DEF Resumes
      <4>2. CASE i # 1
        BY <2>3, <4>2 DEF Resumes
      <4>. QED BY <4>1, <4>2
    <3>. QED BY <1>2, <2>0, <3>1
  <2>4. CASE InsertID(t)
    <3>1. Pushes(t)
      BY <2>4, PushesStack
    <3>2. ASSUME NEW i \in 2 .. Len(stack'[t])
          PROVE  i - 1 \in 1 .. Len(stack[t]) /\ stack'[t][i].name = stack[t][i - 1].name
      <4>1. CASE i = 2
        BY <3>1, <4>1 DEF Pushes, Top
      <4>2. CASE i # 2
        BY <3>1, <4>2 DEF Pushes
      <4>. QED BY <4>1, <4>2
    <3>3. stack'[t][1].name = stack[t][1].target
      BY <3>1 DEF Pushes, Top
    <3>4. /\ 1 \in 1 .. Len(stack[t]) /\ stack[t][1].pc = "insert" /\ Len(stack[t]) \in Nat
          /\ Len(stack'[t]) \in Nat
      BY <2>4, <3>1 DEF InsertID, At, Top, Pushes
    <3>5. /\ stack[t][1].name \in RawNames
          /\ stack[t][1].name \in Resolvable /\ stack[t][1].target \in RawNames
               => stack[t][1].target \in Resolvable
      BY <3>4, TargetResolvable
    <3>6. ASSUME NEW i \in 1 .. Len(stack'[t]), NEW j \in 1 .. Len(stack'[t]), i < j,
                 stack'[t][j].name \in Resolvable, stack'[t][i].name \in RawNames
          PROVE  stack'[t][i].name \in Resolvable
      <4>1. j \in 2 .. Len(stack'[t])
        BY <3>4, <3>6
      <4>2. j - 1 \in 1 .. Len(stack[t]) /\ stack[t][j - 1].name \in Resolvable
        BY <3>2, <3>6, <4>1
      <4>3. CASE i = 1
        <5>1. stack[t][1].name \in Resolvable
          <6>1. CASE j - 1 = 1
            BY <4>2, <6>1
          <6>2. CASE j - 1 # 1
            <7>1. 1 < j - 1
              BY <4>1, <6>2
            <7>. QED BY <3>4, <3>5, <4>2, <7>1 DEF Led
          <6>. QED BY <6>1, <6>2
        <5>. QED BY <3>3, <3>5, <3>6, <4>3, <5>1
      <4>4. CASE i # 1
        <5>1. i \in 2 .. Len(stack'[t]) /\ i - 1 < j - 1
          BY <3>4, <3>6, <4>4
        <5>2. i - 1 \in 1 .. Len(stack[t]) /\ stack[t][i - 1].name \in RawNames
          BY <3>2, <3>6, <5>1
        <5>3. stack[t][i - 1].name \in Resolvable
          BY <4>2, <5>1, <5>2 DEF Led
        <5>. QED BY <3>2, <5>1, <5>3
      <4>. QED BY <4>3, <4>4
    <3>. QED BY <1>1, <3>6
  <2>. QED BY <1>3, <2>1, <2>2, <2>3, <2>4, AdvanceSteps, ReturnsStack, UserStack DEF Step
<1>4. ASSUME NEW t \in Threads, NEW n, Get(t, n) \/ Put(t, n) \/ PutExists(t, n)
      PROVE  Led'
  <2>1. CASE PutExists(t, n)
    BY <1>0, <2>1 DEF PutExists, Led
  <2>2. ASSUME NEW c, stack'[t] = <<c>>
        PROVE  Led'
    <3>1. Len(stack'[t]) = 1
      BY <2>2
    <3>2. \A i, j \in 1 .. Len(stack'[t]) : ~(i < j)
      BY <3>1
    <3>. QED BY <1>1, <3>2
  <2>. QED BY <1>4, <2>1, <2>2, UserStack
<1>5. CASE UNCHANGED vars
  BY <1>0, <1>5 DEF vars, Led
<1>. QED BY <1>3, <1>4, <1>5 DEF Next

LEMMA AddAloneStep ==
  ASSUME OneThread, IInv, AddAlone, [Next]_vars
  PROVE  AddAlone'
<1>1. ASSUME NEW t \in Threads, stack'[t] = <<>> \/ stack'[t][1].pc # "add" \/ Len(stack'[t]) = 1
      PROVE  AddAlone'
  BY <1>1 DEF OneThread, AddAlone, At, Idle, Top
<1>2. ASSUME NEW t \in Threads, Step(t)
      PROVE  AddAlone'
  <2>1. CASE InsertID(t)
    <3>1. stack'[t][1].pc = "find"
      BY <2>1, PushesStack DEF Pushes
    <3>. QED BY <1>1, <3>1
  <2>. QED BY <1>1, <1>2, <2>1, AdvanceSteps, ReturnsStack, UserStack DEF Step, Resumes
<1>3. ASSUME NEW t \in Threads, NEW n, Get(t, n) \/ Put(t, n) \/ PutExists(t, n)
      PROVE  AddAlone'
  <2>1. CASE PutExists(t, n)
    BY <2>1 DEF PutExists, AddAlone, At, Idle, Top
  <2>2. ASSUME NEW c, stack'[t] = <<c>>
        PROVE  AddAlone'
    <3>1. Len(stack'[t]) = 1
      BY <2>2
    <3>. QED BY <1>1, <3>1
  <2>. QED BY <1>3, <2>1, <2>2, UserStack
<1>4. CASE UNCHANGED vars
  BY <1>4 DEF vars, AddAlone, At, Idle, Top
<1>. QED BY <1>2, <1>3, <1>4 DEF Next

LEMMA FoundOKStep ==
  ASSUME OneThread, IInv, FoundOK, [Next]_vars
  PROVE  FoundOK'
<1>1. ASSUME NEW t \in Threads, stack'[t] = <<>> \/ stack'[t][1].pc # "insert"
      PROVE  FoundOK'
  BY <1>1 DEF OneThread, FoundOK, At, Idle, Top
<1>2. ASSUME NEW t \in Threads, SearchID(t)
      PROVE  FoundOK'
  <2>. DEFINE found == RefIDs(Top(t).name)[Top(t).k + 1] \in retrievedIDs
              c == [Top(t) EXCEPT !.pc = "insert", !.found = found]
  <2>1. SetTop(t, c) /\ ~Idle(t) /\ found \in BOOLEAN
    BY <1>2 DEF SearchID, At
  <2>2. UNCHANGED <<collections, retrievedIDs>>
    BY <1>2 DEF SearchID
  <2>3. c.found => RefIDs(Top(t).name)[Top(t).k + 1] \in retrievedIDs
    <3>1. c.found = found
      BY <2>1, TopOK DEF Calls
    <3>. QED BY <3>1
  <2>. HIDE DEF found
  <2>4. c \in Calls /\ c.name = Top(t).name /\ c.k = Top(t).k
    BY <2>1, TopOK DEF Calls
  <2>. HIDE DEF c
  <2>5. stack'[t][1] = c
    BY <2>1, <2>4, TopMoves
  <2>6. Top(t)'.found => RefIDs(Top(t).name)'[Top(t)'.k + 1] \in retrievedIDs'
    BY <2>2, <2>3, <2>4, <2>5 DEF Top, RefIDs
  <2>. QED BY <2>6 DEF OneThread, FoundOK
<1>3. ASSUME NEW t \in Threads, Step(t), ~SearchID(t)
      PROVE  FoundOK'
  BY <1>1, <1>3, AdvanceSteps, ReturnsStack, PushesStack, UserStack DEF Step, Resumes, Pushes
<1>4. ASSUME NEW t \in Threads, NEW n, Get(t, n) \/ Put(t, n) \/ PutExists(t, n)
      PROVE  FoundOK'
  <2>1. CASE PutExists(t, n)
    BY <2>1 DEF PutExists, FoundOK, At, Idle, Top, RefIDs
  <2>2. ASSUME NEW b, NEW pc \in {"find", "add"}, stack'[t] = <<Call(n, b, pc)>>
        PROVE  FoundOK'
    <3>1. stack'[t][1].pc = pc
      BY <2>2 DEF Call
    <3>. QED BY <1>1, <3>1
  <2>. QED BY <1>4, <2>1, <2>2, UserStack
<1>5. CASE UNCHANGED vars
  BY <1>5 DEF vars, FoundOK, At, Idle, Top, RefIDs
<1>. QED BY <1>2, <1>3, <1>4, <1>5 DEF Next

LEMMA NeedsRefsStep ==
  ASSUME OneThread, IInv, RelInv, FileNames, Retrieved, FoundOK, NeedsRefs, [Next]_vars
  PROVE  NeedsRefs'
<1>0. Resolvable' = Resolvable
  BY ResolvableConstant
<1>1. ASSUME NEW t \in Threads,
             stack'[t] = <<>> \/ ~Early(stack'[t][1]) \/ stack'[t][1].setRefs
      PROVE  NeedsRefs'
  BY <1>1 DEF OneThread, NeedsRefs, Idle, Top
<1>2. ASSUME NEW t \in Threads, FindMiss(t) \/ Unpack(t)
      PROVE  NeedsRefs'
  <2>1. /\ Advances(t) /\ UNCHANGED collections /\ ~Idle(t) /\ Early(Top(t))
    BY <1>2, AdvanceSteps DEF FindMiss, Unpack, At, Early
  <2>2. /\ Top(t)'.name = Top(t).name /\ Top(t)'.setRefs = Top(t).setRefs
    BY <2>1 DEF Advances, Top
  <2>3. ~Top(t)'.setRefs /\ Top(t)'.name \in Resolvable => Stored(Top(t)'.name)
    BY <2>1, <2>2 DEF NeedsRefs
  <2>. QED BY <1>0, <2>1, <2>3 DEF OneThread, NeedsRefs, Stored
<1>3. ASSUME NEW t \in Threads, InsertID(t)
      PROVE  NeedsRefs'
  <2>. DEFINE c == stack[t][1]
              id == Rel[c.name][c.k + 1]
  <2>1. /\ stack'[t][1].name = c.target /\ stack'[t][1].setRefs = ~c.found
        /\ UNCHANGED collections
    BY <1>3, PushesStack DEF Pushes, Top, InsertID
  <2>2. 1 \in 1 .. Len(stack[t]) /\ c.pc = "insert" /\ Top(t) = c /\ At(t, "insert")
    BY <1>3, TopOK DEF InsertID, At, Top
  <2>3. /\ c.target \in RawNames => c.target = NameOf(FileTable, id)
        /\ StoredRaw(c.name)
    BY <2>2, TargetResolvable
  <2>4. RefIDs(c.name)[c.k + 1] = id
    BY <2>3 DEF StoredRaw, RefIDs
  <2>. HIDE DEF id
  <2>5. ASSUME c.found, c.target \in Resolvable
        PROVE  Stored(c.target)
    <3>1. id \in retrievedIDs
      BY <2>2, <2>4, <2>5 DEF FoundOK
    <3>2. c.target = NameOf(FileTable, id)
      BY <2>3, <2>5, ResolvableClosed
    <3>3. ~\E u \in Threads : ~Idle(u) /\ Early(Top(u))
      BY <2>2 DEF OneThread, Early
    <3>. QED BY <2>5, <3>1, <3>2, <3>3 DEF Retrieved
  <2>. HIDE DEF c
  <2>6. c.found \in BOOLEAN
    BY <2>2, TopOK DEF At, Calls
  <2>7. ~Top(t)'.setRefs /\ Top(t)'.name \in Resolvable => Stored(Top(t)'.name)
    BY <2>1, <2>5, <2>6 DEF Top
  <2>. QED BY <1>0, <2>1, <2>7 DEF OneThread, NeedsRefs, Stored
<1>4. ASSUME NEW t \in Threads, Step(t), ~(FindMiss(t) \/ Unpack(t) \/ InsertID(t))
      PROVE  NeedsRefs'
  <2>1. stack'[t] = <<>> \/ stack'[t][1].pc \in {"refs", "search", "insert"}
    BY <1>4, AdvanceSteps, ReturnsStack, UserStack DEF Step, Resumes
  <2>. QED BY <1>1, <2>1 DEF Early
<1>5. ASSUME NEW t \in Threads, NEW n, Get(t, n) \/ Put(t, n) \/ PutExists(t, n)
      PROVE  NeedsRefs'
  <2>1. CASE PutExists(t, n)
    BY <1>0, <2>1 DEF PutExists, NeedsRefs, Idle, Top, Stored
  <2>2. CASE stack'[t] = <<Call(n, TRUE, "find")>>
    <3>1. stack'[t][1].setRefs
      BY <2>2 DEF Call
    <3>. QED BY <1>1, <3>1
  <2>3. CASE stack'[t] = <<Call(n, FALSE, "add")>>
    <3>1. stack'[t][1].pc = "add"
      BY <2>3 DEF Call
    <3>. QED BY <1>1, <3>1 DEF Early
  <2>. QED BY <1>5, <2>1, <2>2, <2>3, UserStack
<1>6. CASE UNCHANGED vars
  BY <1>0, <1>6 DEF vars, NeedsRefs, Idle, Top, Stored
<1>. QED BY <1>2, <1>3, <1>4, <1>5, <1>6 DEF Next

\* The innermost call still leads to the collection of an ID.
Leads(t, id) ==
  ~Idle(t) /\ Early(Top(t)) /\ Top(t).setRefs /\ Top(t).name = NameOf(FileTable, id)

LEMMA RetrievedStep ==
  ASSUME OneThread, IInv, RelInv, BuffersInOnePlace, NotStored, FileNames, AddAlone,
         Retrieved, FoundOK, [Next]_vars
  PROVE  Retrieved'
<1>0. Resolvable' = Resolvable /\ extracting' = extracting /\ Final(collections, collections')
  BY ResolvableConstant, MapFinalStep
<1>1. \A id \in retrievedIDs : NameOf(FileTable, id) \in Resolvable =>
        Stored(NameOf(FileTable, id)) \/ \E t \in Threads : Leads(t, id)
  BY DEF Retrieved, Leads
<1>2. \A m \in Resolvable : m \in RawNames /\ m \in Names
  BY ResolvableClosed, ConstantsAssumption
<1>3. \A m \in Resolvable : Stored(m) => Stored(m)'
  BY <1>0, <1>2 DEF Final, Stored
<1>4. SUFFICES ASSUME NEW id \in retrievedIDs', NameOf(FileTable, id) \in Resolvable
               PROVE  Stored(NameOf(FileTable, id))' \/ \E t \in Threads : Leads(t, id)'
  BY <1>0 DEF Retrieved, Leads
<1>. DEFINE m == NameOf(FileTable, id)
<1>. HIDE DEF m
<1>5. m \in RawNames /\ m \in Names /\ m \in Resolvable
  BY <1>2, <1>4 DEF m
<1>6. CASE id \in retrievedIDs /\ Stored(m)
  BY <1>3, <1>5, <1>6 DEF m
<1>7. ASSUME NEW t \in Threads, Leads(t, id), [Next]_vars
      PROVE  Stored(m)' \/ Leads(t, id)'
  <2>1. ~Idle(t) /\ Top(t).pc \in {"find", "unpack", "emplace"} /\ Top(t).setRefs /\ Top(t).name = m
    BY <1>7 DEF Leads, Early, m
  <2>2. CASE FindHit(t)
    BY <1>0, <1>5, <2>1, <2>2 DEF FindHit, Stored, Final
  <2>3. CASE FindMiss(t) \/ Unpack(t)
    <3>1. /\ Advances(t) /\ stack'[t][1].pc \in {"unpack", "emplace"}
      BY <2>3, AdvanceSteps
    <3>2. stack'[t] # <<>>
      BY <3>1 DEF Advances
    <3>. QED BY <2>1, <3>1, <3>2 DEF Leads, Early, Advances, Top, Idle, m
  <2>4. ~UnpackNothing(t)
    BY <1>5, <2>1, NothingUnpacked
  <2>5. ~UnpackThrows(t)
    BY <1>5, <2>1, ResolvableClosed DEF UnpackThrows
  <2>6. CASE EmplaceForRefs(t) \/ EmplaceOnly(t)
    <3>1. At(t, "emplace") /\ Emplaced(t)
      BY <2>6 DEF EmplaceForRefs, EmplaceOnly
    <3>2. collections'[m] \in Colls
      BY <2>1, <3>1, EmplacedMap
    <3>. QED BY <3>2, ConstantsAssumption DEF Stored
  <2>7. ~RefUnknown(t) /\ ~RefKnown(t) /\ ~RefsDone(t) /\ ~SearchID(t) /\ ~InsertID(t) /\ ~PutAdd(t)
    BY <2>1 DEF RefUnknown, RefKnown, RefsDone, SearchID, InsertID, PutAdd, At
  <2>8. CASE UNCHANGED vars
    BY <1>7, <2>8 DEF vars, Leads, Idle, Top
  <2>9. ASSUME NEW u \in Threads, NEW n
        PROVE  ~Get(u, n) /\ ~Put(u, n) /\ ~PutExists(u, n)
    BY <2>1 DEF OneThread, Get, Put, PutExists
  <2>10. ASSUME NEW u \in Threads, Step(u)
         PROVE  Stored(m)' \/ Leads(t, id)'
    BY <2>2, <2>3, <2>4, <2>5, <2>6, <2>7, <2>10 DEF OneThread, Step
  <2>. QED BY <1>7, <2>8, <2>9, <2>10 DEF Next
<1>8. ASSUME NEW t \in Threads, InsertID(t), id \notin retrievedIDs \/ ~\E u \in Threads : Leads(u, id),
             ~(id \in retrievedIDs /\ Stored(m))
      PROVE  Leads(t, id)'
  <2>. DEFINE c == stack[t][1]
              r == Rel[c.name][c.k + 1]
  <2>1. 1 \in 1 .. Len(stack[t]) /\ c.pc = "insert" /\ Top(t) = c /\ At(t, "insert")
    BY <1>8, TopOK DEF InsertID, At, Top
  <2>2. /\ NameOf(FileTable, r) \in RawNames => c.target = NameOf(FileTable, r)
        /\ StoredRaw(c.name)
    BY <2>1, TargetResolvable
  <2>3. RefIDs(c.name)[c.k + 1] = r
    BY <2>2 DEF StoredRaw, RefIDs
  <2>. HIDE DEF r
  <2>4. id \notin retrievedIDs
    BY <1>1, <1>4, <1>8 DEF m
  <2>5. id = r
    BY <1>8, <2>1, <2>3, <2>4 DEF InsertID
  <2>6. ~c.found
    BY <2>1, <2>3, <2>4, <2>5 DEF FoundOK
  <2>7. /\ stack'[t][1].name = c.target /\ stack'[t][1].setRefs = ~c.found
        /\ stack'[t][1].pc = "find" /\ stack'[t] # <<>>
    BY <1>8, PushesStack DEF Pushes, Top
  <2>. QED BY <1>5, <2>2, <2>5, <2>6, <2>7 DEF Leads, Early, Top, Idle, m
<1>9. CASE id \in retrievedIDs
  BY <1>1, <1>4, <1>6, <1>7, <1>9 DEF m
<1>10. CASE id \notin retrievedIDs
  <2>1. \E t \in Threads : InsertID(t)
    BY <1>10 DEF Next, Step, vars, Get, Put, PutExists, FindHit, FindMiss, Unpack,
        UnpackNothing, UnpackThrows, EmplaceForRefs, EmplaceOnly, RefUnknown, RefKnown, RefsDone,
        SearchID, PutAdd
  <2>. QED BY <1>8, <1>10, <2>1
<1>. QED BY <1>9, <1>10

\* A call that resolves relations is still there after a step that does not end it.
LEMMA StillResolving ==
  ASSUME IInv, NEW t \in Threads, NEW n, NEW i, ResolvesAt(t, i, n), OthersWait(t),
         \/ Advances(t) /\ (i = 1 => Resolving(stack'[t][1]))
         \/ Resumes(t) /\ i # 1
         \/ Pushes(t)
  PROVE  InResolution(n)'
<1>1. /\ i \in 1 .. Len(stack[t]) /\ Resolving(stack[t][i]) /\ stack[t][i].name = n
      /\ Len(stack[t]) \in Nat
  BY DEF ResolvesAt, IInv, TypeOK
<1>2. SUFFICES \E j \in 1 .. Len(stack'[t]) : Resolving(stack'[t][j]) /\ stack'[t][j].name = n
  BY DEF InResolution, ResolvesAt
<1>3. CASE Advances(t) /\ (i = 1 => Resolving(stack'[t][1]))
  <2>1. Resolving(stack'[t][i]) /\ stack'[t][i].name = n
    BY <1>1, <1>3 DEF Advances, Top
  <2>2. i \in 1 .. Len(stack'[t])
    BY <1>1, <1>3 DEF Advances
  <2>. QED BY <2>1, <2>2
<1>4. CASE Resumes(t) /\ i # 1
  <2>1. i - 1 \in 1 .. Len(stack'[t])
    BY <1>1, <1>4 DEF Resumes
  <2>2. CASE i = 2
    BY <1>1, <1>4, <2>1, <2>2 DEF Resumes, Resolving
  <2>3. CASE i # 2
    <3>1. i - 1 \in 2 .. Len(stack[t]) - 1 /\ (i - 1) + 1 = i
      BY <1>1, <1>4, <2>3
    <3>2. stack'[t][i - 1] = stack[t][i]
      BY <1>4, <3>1 DEF Resumes
    <3>. QED BY <1>1, <2>1, <3>2
  <2>. QED BY <2>2, <2>3
<1>5. CASE Pushes(t)
  <2>1. i + 1 \in 1 .. Len(stack'[t])
    BY <1>1, <1>5 DEF Pushes
  <2>2. CASE i = 1
    BY <1>1, <1>5, <2>1, <2>2 DEF Pushes, Resolving, Top
  <2>3. CASE i # 1
    <3>1. i + 1 \in 3 .. Len(stack[t]) + 1 /\ (i + 1) - 1 = i
      BY <1>1, <2>3
    <3>2. stack'[t][i + 1] = stack[t][i]
      BY <1>5, <3>1 DEF Pushes
    <3>. QED BY <1>1, <2>1, <3>2
  <2>. QED BY <2>2, <2>3
<1>. QED BY <1>3, <1>4, <1>5

\* One more relation is resolved, to a collection if the raw data has it.
LEMMA AppendedNoneMissing ==
  ASSUME IInv, NEW n \in Names, NoneMissing(n), NEW coll,
         relations'[n] = Append(relations[n], coll),
         NameOf(FileTable, Rel[n][Len(relations[n]) + 1]) \in RawNames => coll # NoColl
  PROVE  NoneMissing(n)'
<1>. DEFINE r == relations[n]
            s == Append(r, coll)
<1>1. r \in Seq(Colls \cup {NoColl})
  BY DEF IInv, TypeOK
<1>2. /\ DOMAIN s = 1 .. Len(r) + 1 /\ Len(r) \in Nat /\ DOMAIN r = 1 .. Len(r)
      /\ s[Len(r) + 1] = coll /\ \A i \in 1 .. Len(r) : s[i] = r[i]
  BY <1>1
<1>3. relations'[n] = s
  OBVIOUS
<1>. HIDE DEF s
<1>4. ASSUME NEW i \in DOMAIN s, NameOf(FileTable, Rel[n][i]) \in RawNames
      PROVE  s[i] # NoColl
  <2>1. CASE i = Len(r) + 1
    BY <1>2, <1>4, <2>1
  <2>2. CASE i # Len(r) + 1
    BY <1>2, <1>4, <2>2 DEF NoneMissing
  <2>. QED BY <2>1, <2>2
<1>. QED BY <1>3, <1>4 DEF NoneMissing

\* A step that leaves the map and the relations alone.
LEMMA QuietResolved ==
  ASSUME IInv, NEW t \in Threads, OthersWait(t), UNCHANGED <<collections, relations>>,
         \/ Advances(t) /\ (Resolving(Top(t)) => Resolving(stack'[t][1]))
         \/ Pushes(t)
         \/ \A i, m : ResolvesAt(t, i, m) => m \notin Resolvable,
         NEW n \in Resolvable, ResolvedOf(n)
  PROVE  ResolvedOf(n)'
<1>1. SUFFICES ASSUME StoredRaw(n), InResolution(n)
               PROVE  InResolution(n)'
  BY DEF ResolvedOf, StoredRaw, Stored, NoneMissing
<1>2. PICK u \in Threads : \E i \in 1 .. Len(stack[u]) : ResolvesAt(u, i, n)
  BY <1>1 DEF InResolution
<1>3. CASE u = t
  <2>1. PICK i \in 1 .. Len(stack[t]) : ResolvesAt(t, i, n)
    BY <1>2, <1>3
  <2>2. i = 1 => Resolving(Top(t))
    BY <2>1 DEF ResolvesAt, Top
  <2>. QED BY <2>1, <2>2, StillResolving
<1>4. CASE u # t
  BY <1>2, <1>4 DEF OthersWait, InResolution, ResolvesAt
<1>. QED BY <1>3, <1>4

\* The innermost call returns.
LEMMA ReturnResolved ==
  ASSUME OneThread, IInv, BuffersInOnePlace, NotStored, RelInv, FileNames, NeedsRefs,
         NEW t \in Threads, FindHit(t) \/ UnpackNothing(t) \/ EmplaceOnly(t) \/ RefsDone(t),
         NEW n \in Resolvable, ResolvedOf(n)
  PROVE  ResolvedOf(n)'
<1>1. PICK coll : Return(t, coll) /\ (Top(t).name \in RawNames => coll # NoColl)
  BY ReturnFinds
<1>2. /\ ~Idle(t) /\ n \in Names /\ stack[t] \in Seq(Calls) /\ Len(stack[t]) \in Nat \ {0}
      /\ Top(t).name \in Names /\ 1 \in 1 .. Len(stack[t])
  <2>1. ~Idle(t)
    BY DEF FindHit, UnpackNothing, EmplaceOnly, RefsDone, At
  <2>. QED BY <2>1, TopOK, ResolvableClosed, ConstantsAssumption
<1>3. /\ OthersWait(t)
      /\ \/ Len(stack[t]) = 1 /\ stack'[t] = <<>> /\ relations' = relations
         \/ ReturnsToCaller(t, coll)
  BY <1>1, <1>2, ReturnMoves
<1>4. StoredRaw(n)' => StoredRaw(n)
  <2>1. CASE UNCHANGED collections
    BY <2>1 DEF StoredRaw, Stored
  <2>2. CASE EmplaceOnly(t)
    <3>1. At(t, "emplace") /\ Emplaced(t) /\ ~Top(t).setRefs
      BY <2>2 DEF EmplaceOnly
    <3>2. Top(t).name \notin Resolvable
      BY <3>1 DEF NotStored, NeedsRefs, At, Early
    <3>3. collections'[n] = collections[n]
      BY <1>2, <3>1, <3>2, EmplacedMap
    <3>. QED BY <3>3 DEF StoredRaw, Stored
  <2>. QED BY <2>1, <2>2 DEF FindHit, UnpackNothing, RefsDone
<1>5. SUFFICES ASSUME StoredRaw(n)
               PROVE  (Len(relations[n]) = Len(Rel[n]) \/ InResolution(n))' /\ NoneMissing(n)'
  BY <1>4 DEF ResolvedOf
<1>6. (Len(relations[n]) = Len(Rel[n]) \/ InResolution(n)) /\ NoneMissing(n)
  BY <1>5 DEF ResolvedOf
<1>7. ResolvesAt(t, 1, n) => Len(relations[n]) = Len(Rel[n])
  <2>. SUFFICES ASSUME ResolvesAt(t, 1, n)
                PROVE  Len(relations[n]) = Len(Rel[n])
    OBVIOUS
  <2>1. Top(t).name = n /\ Top(t).pc \in {"refs", "search", "insert", "wait"}
    BY DEF ResolvesAt, Resolving, Top
  <2>2. RefsDone(t) /\ Top(t).k >= Len(RefIDs(n))
    BY <2>1 DEF FindHit, UnpackNothing, EmplaceOnly, RefsDone, At
  <2>3. RefIDs(n) = Rel[n] /\ n \in RawNames
    BY <1>5, ResolvableClosed DEF RefIDs, StoredRaw
  <2>4. Top(t).k = Len(relations[n])
    BY <1>2, <1>5, <2>1 DEF RelInv, InProgress, Progress, Resolving, RawIn, StoredRaw, Stored, Top
  <2>5. Len(relations[n]) <= Len(Rel[n])
    BY <1>2, <1>5 DEF RelInv, RelationsOK, RelationsOf, RawIn, StoredRaw, Stored
  <2>6. Len(relations[n]) \in Nat /\ Len(Rel[n]) \in Nat
    BY <1>2, <2>3, ConstantsAssumption DEF IInv, TypeOK
  <2>. QED BY <2>2, <2>3, <2>4, <2>5, <2>6
<1>8. ASSUME NEW i \in 1 .. Len(stack[t]), ResolvesAt(t, i, n), i # 1
      PROVE  InResolution(n)'
  <2>0. Len(stack[t]) # 1
    <3>1. ASSUME NEW len, len = 1, i \in 1 .. len
          PROVE  i = 1
      BY <3>1
    <3>. QED BY <1>8, <3>1
  <2>1. ReturnsToCaller(t, coll)
    BY <1>3, <2>0
  <2>2. Resumes(t)
    BY <2>1 DEF ReturnsToCaller, Resumes
  <2>. QED BY <1>3, <1>8, <2>2, StillResolving
<1>9. InResolution(n) => Len(relations[n]) = Len(Rel[n]) \/ InResolution(n)'
  BY <1>7, <1>8 DEF OneThread, InResolution
<1>10. CASE relations'[n] = relations[n]
  BY <1>6, <1>9, <1>10 DEF NoneMissing
<1>11. CASE relations'[n] # relations[n]
  <2>. DEFINE c == stack[t][2]
  <2>1. ReturnsToCaller(t, coll)
    BY <1>3, <1>11
  <2>2. /\ Len(stack[t]) > 1 /\ Resumes(t)
        /\ relations' = [relations EXCEPT ![c.name] = Append(@, coll)]
    BY <2>1 DEF ReturnsToCaller, Resumes
  <2>3. 2 \in 1 .. Len(stack[t]) /\ 2 \in 2 .. Len(stack[t])
    BY <1>2, <2>2
  <2>4. c.pc = "wait" /\ c.name \in Names
    BY <2>3, CallAt
  <2>5. c.name = n /\ relations'[n] = Append(relations[n], coll)
    BY <1>2, <1>11, <2>2, <2>4 DEF IInv, TypeOK
  <2>6. ResolvesAt(t, 2, n)
    BY <2>3, <2>4, <2>5 DEF ResolvesAt, Resolving
  <2>7. InResolution(n)'
    BY <1>8, <2>3, <2>6
  <2>8. /\ c.k = Len(relations[n])
        /\ NameOf(FileTable, Rel[n][c.k + 1]) \in RawNames =>
             c.target = NameOf(FileTable, Rel[n][c.k + 1])
    BY <2>3, <2>4, <2>5, TargetResolvable
  <2>9. c.target = Top(t).name
    <3>1. stack[t][2 - 1].name = c.target
      BY <2>3 DEF RelInv, Linked
    <3>. QED BY <3>1 DEF Top
  <2>10. NameOf(FileTable, Rel[n][Len(relations[n]) + 1]) \in RawNames => coll # NoColl
    BY <1>1, <2>8, <2>9
  <2>11. NoneMissing(n)'
    BY <1>2, <1>6, <2>5, <2>10, AppendedNoneMissing
  <2>. QED BY <2>7, <2>11
<1>. QED BY <1>10, <1>11

\* The ID of a relation is not in the table, so the raw data does not have it.
LEMMA UnknownResolved ==
  ASSUME IInv, RelInv, FileNames, NEW t \in Threads, RefUnknown(t),
         NEW n \in Resolvable, ResolvedOf(n)
  PROVE  ResolvedOf(n)'
<1>. DEFINE m == Top(t).name
<1>1. /\ ~Idle(t) /\ m \in Names /\ Top(t).k \in Nat /\ Stored(m) /\ n \in Names
      /\ Top(t).pc = "refs" /\ 1 \in 1 .. Len(stack[t]) /\ Top(t).k < Len(RefIDs(m))
      /\ NameOf(idTable, RefIDs(m)[Top(t).k + 1]) = NoName
      /\ relations' = [relations EXCEPT ![m] = Append(@, NoColl)]
      /\ UNCHANGED collections
  BY TopOK, ResolvingCall, ResolvableClosed, ConstantsAssumption DEF RefUnknown, At
<1>2. OthersWait(t) /\ Advances(t) /\ Resolving(stack'[t][1])
  <2>1. stack \in [Threads -> Seq(Calls)]
    BY DEF IInv, TypeOK
  <2>. QED BY <2>1, AdvanceSteps DEF RefUnknown, SetTop, OthersWait, Resolving
<1>3. RefIDs(m) = Rel[m] /\ RawIn(collections, m)
  BY <1>1, RefIDsType DEF RawIn, Stored
<1>4. Top(t).k = Len(relations[m])
  BY <1>1, <1>3 DEF RelInv, InProgress, Progress, Resolving, Top
<1>5. InResolution(n) => InResolution(n)'
  <2>1. ASSUME NEW u \in Threads, NEW i \in 1 .. Len(stack[u]), ResolvesAt(u, i, n)
        PROVE  InResolution(n)'
    <3>1. CASE u = t
      BY <1>2, <2>1, <3>1, StillResolving
    <3>2. CASE u # t
      BY <1>2, <2>1, <3>2 DEF OthersWait, InResolution, ResolvesAt
    <3>. QED BY <3>1, <3>2
  <2>. QED BY <2>1 DEF InResolution
<1>. HIDE DEF m
<1>6. StoredRaw(n)' = StoredRaw(n)
  BY <1>1 DEF StoredRaw, Stored
<1>7. CASE n # m
  <2>1. relations'[n] = relations[n]
    BY <1>1, <1>7
  <2>. QED BY <1>5, <1>6, <2>1 DEF ResolvedOf, NoneMissing
<1>8. CASE n = m
  <2>1. relations'[n] = Append(relations[n], NoColl)
    BY <1>1, <1>8 DEF IInv, TypeOK
  <2>2. NameOf(FileTable, Rel[n][Len(relations[n]) + 1]) \notin RawNames
    <3>1. NameOf(idTable, Rel[n][Len(relations[n]) + 1]) = NoName
      BY <1>1, <1>3, <1>4, <1>8
    <3>2. NoName \notin RawNames
      BY NoNameAssumption, ConstantsAssumption
    <3>. QED BY <3>1, <3>2 DEF FileNames
  <2>3. StoredRaw(n) => NoneMissing(n)'
    BY <1>1, <2>1, <2>2, AppendedNoneMissing DEF ResolvedOf
  <2>4. ResolvesAt(t, 1, n)
    BY <1>1, <1>8 DEF ResolvesAt, Resolving, Top, m
  <2>5. InResolution(n)'
    BY <1>1, <1>5, <2>4 DEF InResolution
  <2>. QED BY <1>6, <2>3, <2>5 DEF ResolvedOf
<1>. QED BY <1>7, <1>8

\* The collection is in the map, and the call starts with its relations.
LEMMA EmplacedResolved ==
  ASSUME IInv, RelInv, NEW t \in Threads, EmplaceForRefs(t),
         NEW n \in Resolvable, ResolvedOf(n)
  PROVE  ResolvedOf(n)'
<1>1. /\ ~Idle(t) /\ At(t, "emplace") /\ Emplaced(t) /\ n \in Names /\ UNCHANGED relations
      /\ 1 \in 1 .. Len(stack[t])
  BY TopOK, ResolvableClosed, ConstantsAssumption DEF EmplaceForRefs, At
<1>2. OthersWait(t) /\ Advances(t) /\ Resolving(stack'[t][1])
  <2>1. stack \in [Threads -> Seq(Calls)]
    BY DEF IInv, TypeOK
  <2>. QED BY <2>1, AdvanceSteps DEF EmplaceForRefs, SetTop, OthersWait, Resolving
<1>3. ASSUME StoredRaw(n), InResolution(n)
      PROVE  InResolution(n)'
  <2>1. ASSUME NEW u \in Threads, NEW i \in 1 .. Len(stack[u]), ResolvesAt(u, i, n)
        PROVE  InResolution(n)'
    <3>1. CASE u = t
      BY <1>2, <2>1, <3>1, StillResolving
    <3>2. CASE u # t
      BY <1>2, <2>1, <3>2 DEF OthersWait, InResolution, ResolvesAt
    <3>. QED BY <3>1, <3>2
  <2>. QED BY <1>3, <2>1 DEF InResolution
<1>4. CASE StoredRaw(n)
  BY <1>1, <1>3, <1>4 DEF ResolvedOf, NoneMissing
<1>5. CASE ~StoredRaw(n) /\ StoredRaw(n)'
  <2>1. n = Top(t).name
    BY <1>1, <1>5, EmplacedMap DEF StoredRaw, Stored
  <2>2. 1 \in 1 .. Len(stack'[t]) /\ stack'[t][1].name = n
    BY <1>2, <2>1 DEF Advances
  <2>3. InResolution(n)'
    BY <1>2, <2>2 DEF InResolution, ResolvesAt
  <2>4. relations'[n] = <<>>
    BY <1>1, <1>5 DEF RelInv, RelationsOK, RelationsOf, RawIn, StoredRaw, Stored
  <2>5. NoneMissing(n)'
    BY <2>4 DEF NoneMissing
  <2>. QED BY <2>3, <2>5 DEF ResolvedOf
<1>. QED BY <1>4, <1>5 DEF ResolvedOf

LEMMA AllResolvedStep ==
  ASSUME OneThread, IInv, BuffersInOnePlace, OneInv, [Next]_vars
  PROVE  AllResolved'
<1>0. Resolvable' = Resolvable /\ stack \in [Threads -> Seq(Calls)]
  BY ResolvableConstant DEF IInv, TypeOK
<1>. SUFFICES ASSUME NEW n \in Resolvable
              PROVE  ResolvedOf(n)'
  BY <1>0 DEF AllResolved
<1>1. ResolvedOf(n) /\ n \in Names
  BY ResolvableClosed, ConstantsAssumption DEF OneInv, AllResolved
<1>2. ASSUME NEW t \in Threads, FindMiss(t) \/ Unpack(t) \/ RefKnown(t) \/ SearchID(t)
      PROVE  ResolvedOf(n)'
  <2>1. OthersWait(t) /\ UNCHANGED <<collections, relations>>
    BY <1>0, <1>2 DEF FindMiss, Unpack, RefKnown, SearchID, SetTop, OthersWait
  <2>2. Advances(t) /\ (Resolving(Top(t)) => Resolving(stack'[t][1]))
    BY <1>2, AdvanceSteps DEF FindMiss, Unpack, At, Resolving
  <2>. QED BY <1>1, <2>1, <2>2, QuietResolved
<1>3. ASSUME NEW t \in Threads, InsertID(t)
      PROVE  ResolvedOf(n)'
  <2>1. OthersWait(t) /\ UNCHANGED <<collections, relations>>
    BY <1>0, <1>3 DEF InsertID, OthersWait
  <2>. QED BY <1>1, <1>3, <2>1, PushesStack, QuietResolved
<1>4. ASSUME NEW t \in Threads, UnpackThrows(t)
      PROVE  ResolvedOf(n)'
  <2>1. OthersWait(t) /\ UNCHANGED <<collections, relations>>
    BY <1>0, <1>4 DEF UnpackThrows, OthersWait
  <2>2. Top(t).pc = "unpack" /\ Top(t).name \in Unreadable /\ ~extracting /\ ~Idle(t)
    BY <1>4 DEF UnpackThrows, At
  <2>3. Top(t).name \notin Resolvable /\ Top(t).name \in RawNames
    BY <2>2, ResolvableClosed, ConstantsAssumption
  <2>4. 1 \in 1 .. Len(stack[t]) /\ Len(stack[t]) \in Nat
    BY <2>2, TopOK
  <2>5. ASSUME NEW i, NEW m, ResolvesAt(t, i, m), m \in Resolvable
        PROVE  FALSE
    <3>1. i \in 1 .. Len(stack[t]) /\ Resolving(stack[t][i]) /\ stack[t][i].name = m
      BY <2>5 DEF ResolvesAt
    <3>2. i # 1
      BY <2>2, <3>1 DEF Resolving, Top
    <3>3. 1 < i
      BY <2>4, <3>1, <3>2
    <3>. QED BY <2>3, <2>4, <2>5, <3>1, <3>3 DEF OneInv, Led, Top
  <2>. QED BY <1>1, <2>1, <2>5, QuietResolved
<1>5. ASSUME NEW t \in Threads, PutAdd(t)
      PROVE  ResolvedOf(n)'
  <2>1. OthersWait(t) /\ UNCHANGED <<collections, relations>> /\ At(t, "add") /\ Len(stack[t]) = 1
    BY <1>0, <1>5 DEF PutAdd, OthersWait, OneInv, AddAlone
  <2>2. ASSUME NEW i, NEW m, ResolvesAt(t, i, m)
        PROVE  FALSE
    <3>1. i \in 1 .. 1 /\ Resolving(stack[t][i])
      BY <2>1, <2>2 DEF ResolvesAt
    <3>2. i = 1
      BY <3>1
    <3>. QED BY <2>1, <3>1, <3>2 DEF At, Top, Resolving
  <2>. QED BY <1>1, <2>1, <2>2, QuietResolved
<1>6. ASSUME NEW t \in Threads, Step(t)
      PROVE  ResolvedOf(n)'
  <2>1. CASE FindHit(t) \/ UnpackNothing(t) \/ EmplaceOnly(t) \/ RefsDone(t)
    BY <1>1, <2>1, ReturnResolved DEF OneInv
  <2>2. CASE RefUnknown(t)
    BY <1>1, <2>2, UnknownResolved DEF OneInv
  <2>3. CASE EmplaceForRefs(t)
    BY <1>1, <2>3, EmplacedResolved DEF OneInv
  <2>. QED BY <1>2, <1>3, <1>4, <1>5, <1>6, <2>1, <2>2, <2>3 DEF Step
<1>7. ASSUME NEW t \in Threads, NEW m \in Names, Get(t, m) \/ Put(t, m) \/ PutExists(t, m)
      PROVE  ResolvedOf(n)'
  <2>1. Idle(t) /\ UNCHANGED relations /\ ~InResolution(n)
    <3>1. Idle(t) /\ UNCHANGED relations
      BY <1>7 DEF Get, Put, PutExists
    <3>2. \A u \in Threads : Len(stack[u]) = 0
      BY <3>1 DEF OneThread, Idle
    <3>. QED BY <3>1, <3>2 DEF InResolution
  <2>2. StoredRaw(n)' => StoredRaw(n)
    <3>1. CASE Put(t, m)
      BY <1>1, <3>1, PutMap DEF StoredRaw, Stored
    <3>2. CASE UNCHANGED collections
      BY <3>2 DEF StoredRaw, Stored
    <3>. QED BY <1>7, <3>1, <3>2 DEF Get, PutExists
  <2>. QED BY <1>1, <2>1, <2>2 DEF ResolvedOf, NoneMissing
<1>8. CASE UNCHANGED vars
  BY <1>1, <1>8 DEF vars, ResolvedOf, StoredRaw, Stored, InResolution, ResolvesAt, NoneMissing
<1>. QED BY <1>6, <1>7, <1>8, ConstantsAssumption DEF Next

\* When one thread uses the frame and no call of it is in progress, the relations of
\* every unpacked collection are resolved, and to a collection wherever the raw data
\* has one, unless they lead to a collection that cannot be read.
THEOREM OneThreadResolvesAll ==
  ASSUME OneThread
  PROVE  Spec => []RelationsComplete
<1>1. Init => OneInv
  <2>. SUFFICES ASSUME Init PROVE OneInv
    OBVIOUS
  <2>1. \A t \in Threads : stack[t] = <<>>
    BY DEF Init
  <2>2. Led /\ AddAlone /\ FoundOK /\ NeedsRefs
    BY <2>1 DEF Led, AddAlone, FoundOK, NeedsRefs, At, Idle
  <2>3. Retrieved /\ AllResolved
    <3>1. \A n \in Resolvable : ~StoredRaw(n)
      BY ResolvableClosed, ConstantsAssumption DEF Init, StoredRaw, Stored
    <3>. QED BY <3>1 DEF Init, Retrieved, AllResolved, ResolvedOf
  <2>. QED BY <2>2, <2>3, NotStoredInit, RelInvInit, FileNamesInit DEF OneInv
<1>2. IInv /\ BuffersInOnePlace /\ OneInv /\ [Next]_vars => OneInv'
  <2>. SUFFICES ASSUME IInv, BuffersInOnePlace, OneInv, [Next]_vars
                PROVE  OneInv'
    OBVIOUS
  <2>1. NotUnpacked
    BY DEF OneInv, NotStored, NotUnpacked, StoredRaw
  <2>2. NotStored' /\ RelInv' /\ FileNames'
    BY <2>1, NotStoredStep, RelInvStep, FileNamesStep DEF OneInv
  <2>3. Led' /\ AddAlone' /\ FoundOK'
    BY LedStep, AddAloneStep, FoundOKStep DEF OneInv
  <2>4. Retrieved' /\ NeedsRefs'
    BY RetrievedStep, NeedsRefsStep DEF OneInv
  <2>. QED BY <2>2, <2>3, <2>4, AllResolvedStep DEF OneInv
<1>3. IInv /\ OneInv => RelationsComplete
  <2>. SUFFICES ASSUME IInv, OneInv, \A t \in Threads : Idle(t), NEW n \in Resolvable, StoredRaw(n)
                PROVE  /\ Len(relations[n]) = Len(Rel[n])
                       /\ \A i \in DOMAIN relations[n] :
                            NameOf(FileTable, Rel[n][i]) \in RawNames => relations[n][i] # NoColl
    BY DEF RelationsComplete
  <2>1. ~InResolution(n)
    BY DEF InResolution, Idle
  <2>. QED BY <2>1 DEF OneInv, AllResolved, ResolvedOf, NoneMissing
<1>. QED BY <1>1, <1>2, <1>3, BuffersConserved, IInvInit, IInvStep, PTL DEF Spec
=============================================================================
