-------------------------- MODULE SharedHandles_proofs --------------------------
(***************************************************************************)
(* For any number of handles and objects: the control block counts the     *)
(* handles that have it and is deleted once, by the last of them, and an   *)
(* object is deleted once, by the handles or by the collection.            *)
(***************************************************************************)
EXTENDS SharedHandles, TLAPS, FiniteSetTheorems

\* The two kinds of references that are counted, and those who clean up: the
\* destructors that have taken off the last reference.
Holding(o) == {h \in Handles : handle[h] = OwnedPtr(o)}
Leaving(o) == {h \in Handles : dying[h] = OwnedPtr(o) /\ pc[h] \in {"push", "destruct"}}
Cleaning(o) == {h \in Handles : dying[h] = OwnedPtr(o) /\ pc[h] \in {"last", "free"}}

\* The types without the bound of the count, which follows from what it counts.
Types ==
  /\ handle \in [Handles -> Contents]
  /\ dying \in [Handles -> Contents]
  /\ pc \in [Handles -> {"idle", "push", "destruct", "last", "free"}]
  /\ made \subseteq Objects
  /\ count \in [Objects -> Nat]
  /\ owned \in [Objects -> BOOLEAN]
  /\ entries \subseteq made
  /\ deleted \in [Objects -> Nat]
  /\ freed \in [Objects -> Nat]

\* What a thread inside push_back or a destructor relies on: an object is pushed
\* by one thread at a time, which finds it owned.
InCall ==
  \A h \in Handles :
    /\ pc[h] = "push" =>
         /\ dying[h].ctrl
         /\ owned[dying[h].ptr]
         /\ \A g \in Handles : pc[g] = "push" /\ dying[g] = dying[h] => g = h
    /\ pc[h] \in {"last", "free"} => dying[h].ctrl

\* Nobody refers to an object that was not made.
NotMade ==
  \A o \in Objects \ made :
    /\ Holding(o) = {} /\ Leaving(o) = {} /\ Cleaning(o) = {}
    /\ ~owned[o] /\ deleted[o] = 0 /\ freed[o] = 0

\* While a reference is left nobody cleans up, one thread does afterwards, and the
\* block goes last.
BlockLife ==
  \A o \in Objects :
    /\ count[o] = Counted(o)
    /\ freed[o] <= 1
    /\ count[o] > 0 => freed[o] = 0 /\ Cleaning(o) = {}
    /\ Cleaning(o) # {} => freed[o] = 0
    /\ \A g, h \in Cleaning(o) : g = h

\* The collection does not manage what handles own, and who may delete an object
\* finds it undeleted.
ObjectLife ==
  \A o \in Objects :
    /\ deleted[o] <= 1
    /\ o \in entries => deleted[o] = 0 /\ ~owned[o]
    /\ owned[o] /\ count[o] > 0 => deleted[o] = 0
    /\ owned[o] => \A h \in Cleaning(o) : pc[h] = "last" => deleted[o] = 0

IInv == Types /\ InCall /\ NotMade /\ BlockLife /\ ObjectLife
-----------------------------------------------------------------------------
(* Contents and the sets of references.                                    *)

\* A content that has the control block is the owning handle of its object.
LEMMA ContentFacts ==
  /\ Nothing \in Contents
  /\ \A o \in Objects : OwnedPtr(o) \in Contents /\ Ptr(o) \in Contents
  /\ \A o : OwnedPtr(o).ctrl /\ OwnedPtr(o).ptr = o /\ ~Ptr(o).ctrl /\ OwnedPtr(o) # Ptr(o)
  /\ ~Nothing.ctrl /\ \A o : OwnedPtr(o) # Nothing
  /\ \A o, p : OwnedPtr(o) = OwnedPtr(p) => o = p
  /\ \A o, p : OwnedPtr(o) # Ptr(p)
  /\ \A c \in Contents : c.ctrl => c.ptr \in Objects /\ c = OwnedPtr(c.ptr)
<1>1. /\ Nothing \in Contents
      /\ \A o \in Objects : OwnedPtr(o) \in Contents /\ Ptr(o) \in Contents
  BY DEF Contents
<1>2. \A o : OwnedPtr(o).ctrl
  BY DEF OwnedPtr
<1>3. \A o : OwnedPtr(o).ptr = o
  BY DEF OwnedPtr
<1>4. \A o : ~Ptr(o).ctrl
  BY DEF Ptr
<1>5. ~Nothing.ctrl
  BY DEF Nothing
<1>6. \A c \in Contents : c = Nothing \/ (\E o \in Objects : c = Ptr(o)) \/ (\E o \in Objects : c = OwnedPtr(o))
  BY DEF Contents
<1>7. \A c \in Contents : c.ctrl => c.ptr \in Objects /\ c = OwnedPtr(c.ptr)
  BY <1>2, <1>3, <1>4, <1>5, <1>6
<1>8. \A o, p : OwnedPtr(o) = OwnedPtr(p) => o = p
  BY <1>3
<1>9. /\ \A o : OwnedPtr(o) # Nothing
      /\ \A o, p : OwnedPtr(o) # Ptr(p)
  BY <1>2, <1>4, <1>5
<1> QED
  BY <1>1, <1>2, <1>3, <1>4, <1>5, <1>7, <1>8, <1>9

\* The number of elements of two sets that differ in one element at most.
LEMMA CardinalityChange ==
  ASSUME NEW S, NEW T, NEW x, IsFiniteSet(S), S \ {x} = T \ {x}
  PROVE  /\ IsFiniteSet(T)
         /\ Cardinality(S) \in Nat /\ Cardinality(T) \in Nat
         /\ (x \in S <=> x \in T) => Cardinality(T) = Cardinality(S)
         /\ x \in S /\ x \notin T => Cardinality(T) = Cardinality(S) - 1
         /\ x \notin S /\ x \in T => Cardinality(T) = Cardinality(S) + 1
<1>1. CASE x \in S /\ x \notin T
  <2>1. T = S \ {x}
    BY <1>1
  <2> QED
    BY <1>1, <2>1, FS_RemoveElement, FS_CardinalityType
<1>2. CASE x \notin S /\ x \in T
  <2>1. T = S \cup {x}
    BY <1>2
  <2> QED
    BY <1>2, <2>1, FS_AddElement, FS_CardinalityType
<1>3. CASE x \in S <=> x \in T
  <2>1. T = S
    BY <1>3
  <2> QED
    BY <1>3, <2>1, FS_CardinalityType
<1> QED
  BY <1>1, <1>2, <1>3

\* The sets of references are finite, in any state.
LEMMA HandlesFinite ==
  \A S \in SUBSET Handles : /\ IsFiniteSet(S) /\ Cardinality(S) \in Nat
                            /\ Cardinality(S) = 0 <=> S = {}
BY HandlesAssumption, FS_Subset, FS_CardinalityType, FS_EmptySet

\* Every control block counts what refers to it, and those who clean up.
LEMMA CountedFacts ==
  ASSUME NEW o \in Objects
  PROVE  /\ Holding(o) \in SUBSET Handles /\ Leaving(o) \in SUBSET Handles
         /\ Counted(o) = Cardinality(Holding(o)) + Cardinality(Leaving(o))
         /\ Counted(o) \in Nat
         /\ Counted(o) = 0 <=> Holding(o) = {} /\ Leaving(o) = {}
<1>1. Holding(o) \in SUBSET Handles /\ Leaving(o) \in SUBSET Handles
  BY DEF Holding, Leaving
<1>2. Counted(o) = Cardinality(Holding(o)) + Cardinality(Leaving(o))
  BY DEF Counted, Holding, Leaving
<1> QED
  BY <1>1, <1>2, HandlesFinite

\* The same after a step.
LEMMA CountedNext ==
  ASSUME NEW o \in Objects
  PROVE  /\ Holding(o)' \in SUBSET Handles /\ Leaving(o)' \in SUBSET Handles
         /\ Counted(o)' = Cardinality(Holding(o)') + Cardinality(Leaving(o)')
<1>1. Holding(o)' \in SUBSET Handles /\ Leaving(o)' \in SUBSET Handles
  BY DEF Holding, Leaving
<1>2. Counted(o)' = Cardinality(Holding(o)') + Cardinality(Leaving(o)')
  BY DEF Counted, Holding, Leaving
<1> QED
  BY <1>1, <1>2

\* Replacing the content of a handle counts the new content: what the handle had
\* is counted until its destructor has taken it off.
LEMMA SwapInEffect ==
  ASSUME Types, NEW h \in Handles, NEW c \in Contents, SwapIn(h, c), NEW o \in Objects
  PROVE  /\ Cleaning(o)' = Cleaning(o)
         /\ Holding(o) = {} /\ c # OwnedPtr(o) => Holding(o)' = {}
         /\ Holding(o) = {} /\ Leaving(o) = {} => Leaving(o)' = {}
         /\ Counted(o)' = IF c = OwnedPtr(o) THEN Counted(o) + 1 ELSE Counted(o)
<1>1. Holding(o) \ {h} = Holding(o)' \ {h}
  BY DEF Types, SwapIn, Holding
<1>2. Leaving(o) \ {h} = Leaving(o)' \ {h}
  BY DEF Types, SwapIn, Leaving
<1>3. h \in Holding(o)' <=> c = OwnedPtr(o)
  BY DEF Types, SwapIn, Holding
<1>4. h \notin Leaving(o) /\ (h \in Leaving(o)' <=> h \in Holding(o))
  BY DEF Types, SwapIn, Leaving, Holding
<1>5. Cleaning(o)' = Cleaning(o)
  BY DEF Types, SwapIn, Cleaning
<1>6. /\ IsFiniteSet(Holding(o)) /\ IsFiniteSet(Leaving(o))
      /\ Cardinality(Holding(o)) \in Nat /\ Cardinality(Leaving(o)) \in Nat
  BY CountedFacts, HandlesFinite
<1>7. /\ (h \in Holding(o) <=> h \in Holding(o)') => Cardinality(Holding(o)') = Cardinality(Holding(o))
      /\ h \in Holding(o) /\ h \notin Holding(o)' => Cardinality(Holding(o)') = Cardinality(Holding(o)) - 1
      /\ h \notin Holding(o) /\ h \in Holding(o)' => Cardinality(Holding(o)') = Cardinality(Holding(o)) + 1
  BY <1>1, <1>6, CardinalityChange
<1>8. /\ (h \in Leaving(o) <=> h \in Leaving(o)') => Cardinality(Leaving(o)') = Cardinality(Leaving(o))
      /\ h \notin Leaving(o) /\ h \in Leaving(o)' => Cardinality(Leaving(o)') = Cardinality(Leaving(o)) + 1
  BY <1>2, <1>6, CardinalityChange
<1>9. Counted(o)' = IF c = OwnedPtr(o) THEN Counted(o) + 1 ELSE Counted(o)
  BY <1>3, <1>4, <1>6, <1>7, <1>8, CountedFacts, CountedNext
<1> QED
  BY <1>1, <1>2, <1>3, <1>4, <1>5, <1>9

\* Moving a content from one handle to another changes nothing that counts.
LEMMA MoveEffect ==
  ASSUME Types, NEW h \in Handles, NEW from \in Handles, Move(h, from), NEW o \in Objects
  PROVE  /\ Cleaning(o)' = Cleaning(o)
         /\ Holding(o) = {} => Holding(o)' = {}
         /\ Holding(o) = {} /\ Leaving(o) = {} => Leaving(o)' = {}
         /\ Counted(o)' = Counted(o)
<1> DEFINE Rest == Holding(o) \ {from}
<1>1. /\ Holding(o) \ {from} = Rest \ {from} /\ from \notin Rest
      /\ Rest \ {h} = Holding(o)' \ {h}
      /\ h \in Rest <=> h \in Holding(o)
      /\ h \in Holding(o)' <=> from \in Holding(o)
  BY DEF Types, Move, Holding, OwnedPtr, Nothing
<1>2. Leaving(o) \ {h} = Leaving(o)' \ {h}
  BY DEF Types, Move, Leaving
<1>3. h \notin Leaving(o) /\ (h \in Leaving(o)' <=> h \in Holding(o))
  BY DEF Types, Move, Leaving, Holding
<1>4. Cleaning(o)' = Cleaning(o)
  BY DEF Types, Move, Cleaning
<1>5. IsFiniteSet(Holding(o)) /\ IsFiniteSet(Leaving(o)) /\ IsFiniteSet(Rest)
  BY CountedFacts, HandlesFinite
<1> HIDE DEF Rest
<1>6. /\ Cardinality(Holding(o)) \in Nat /\ Cardinality(Rest) \in Nat
      /\ from \in Holding(o) => Cardinality(Rest) = Cardinality(Holding(o)) - 1
      /\ from \notin Holding(o) => Cardinality(Rest) = Cardinality(Holding(o))
  BY <1>1, <1>5, CardinalityChange
<1>7. /\ (h \in Rest <=> h \in Holding(o)') => Cardinality(Holding(o)') = Cardinality(Rest)
      /\ h \in Rest /\ h \notin Holding(o)' => Cardinality(Holding(o)') = Cardinality(Rest) - 1
      /\ h \notin Rest /\ h \in Holding(o)' => Cardinality(Holding(o)') = Cardinality(Rest) + 1
  BY <1>1, <1>5, CardinalityChange
<1>8. /\ Cardinality(Leaving(o)) \in Nat
      /\ (h \in Leaving(o) <=> h \in Leaving(o)') => Cardinality(Leaving(o)') = Cardinality(Leaving(o))
      /\ h \notin Leaving(o) /\ h \in Leaving(o)' => Cardinality(Leaving(o)') = Cardinality(Leaving(o)) + 1
  BY <1>2, <1>5, CardinalityChange
<1>9. Counted(o)' = Counted(o)
  BY <1>1, <1>3, <1>6, <1>7, <1>8, CountedFacts, CountedNext
<1>10. Holding(o) = {} => Holding(o)' = {}
  BY <1>1
<1> QED
  BY <1>2, <1>3, <1>4, <1>9, <1>10

\* The copy that push_back gets is one reference more.
LEMMA StartPushEffect ==
  ASSUME Types, NEW h \in Handles, StartPush(h), NEW o \in Objects
  PROVE  /\ Cleaning(o)' = Cleaning(o) /\ Holding(o)' = Holding(o)
         /\ handle[h] # OwnedPtr(o) => Leaving(o)' = Leaving(o)
         /\ Counted(o)' = IF handle[h] = OwnedPtr(o) THEN Counted(o) + 1 ELSE Counted(o)
<1>1. Cleaning(o)' = Cleaning(o) /\ Holding(o)' = Holding(o)
  BY DEF Types, StartPush, Cleaning, Holding
<1>2. /\ Leaving(o) \ {h} = Leaving(o)' \ {h} /\ h \notin Leaving(o)
      /\ h \in Leaving(o)' <=> handle[h] = OwnedPtr(o)
  BY DEF Types, StartPush, Leaving
<1>3. IsFiniteSet(Leaving(o)) /\ Cardinality(Leaving(o)) \in Nat /\ Cardinality(Holding(o)) \in Nat
  BY CountedFacts, HandlesFinite
<1>4. /\ h \in Leaving(o)' => Cardinality(Leaving(o)') = Cardinality(Leaving(o)) + 1
      /\ h \notin Leaving(o)' => Cardinality(Leaving(o)') = Cardinality(Leaving(o))
  BY <1>2, <1>3, CardinalityChange
<1>5. handle[h] # OwnedPtr(o) => Leaving(o)' = Leaving(o)
  BY <1>2
<1> QED
  BY <1>1, <1>2, <1>3, <1>4, <1>5, CountedFacts, CountedNext

\* A destructor that takes its reference off is not counted any more; if it was
\* the last, it cleans up.
LEMMA DecrementEffect ==
  ASSUME Types, NEW h \in Handles, Decrement(h), NEW o \in Objects
  PROVE  /\ Holding(o)' = Holding(o)
         /\ Leaving(o)' \subseteq Leaving(o)
         /\ Counted(o)' = IF dying[h] = OwnedPtr(o) THEN Counted(o) - 1 ELSE Counted(o)
         /\ dying[h] = OwnedPtr(o) => Counted(o) > 0
         /\ Cleaning(o)' = IF dying[h] = OwnedPtr(o) /\ count[o] = 1
                           THEN Cleaning(o) \cup {h} ELSE Cleaning(o)
<1> USE ContentFacts
<1>1. /\ Holding(o)' = Holding(o)
      /\ Leaving(o) \ {h} = Leaving(o)' \ {h}
      /\ h \in Leaving(o) <=> dying[h] = OwnedPtr(o)
  BY DEF Types, Decrement, Holding, Leaving
<1>2. h \notin Leaving(o)'
  <2>1. CASE dying[h].ctrl
    BY <2>1 DEF Types, Decrement, Leaving
  <2>2. CASE ~dying[h].ctrl
    BY <2>2 DEF Types, Decrement, Leaving
  <2> QED
    BY <2>1, <2>2
<1>3. IsFiniteSet(Leaving(o)) /\ Cardinality(Leaving(o)) \in Nat /\ Cardinality(Holding(o)) \in Nat
  BY CountedFacts, HandlesFinite
<1>4. /\ h \in Leaving(o) => Cardinality(Leaving(o)') = Cardinality(Leaving(o)) - 1
      /\ h \notin Leaving(o) => Cardinality(Leaving(o)') = Cardinality(Leaving(o))
  BY <1>1, <1>2, <1>3, CardinalityChange
<1>5. Cleaning(o)' = IF dying[h] = OwnedPtr(o) /\ count[o] = 1 THEN Cleaning(o) \cup {h} ELSE Cleaning(o)
  <2>1. CASE dying[h].ctrl
    <3>1. dying[h].ptr \in Objects /\ dying[h] = OwnedPtr(dying[h].ptr)
      BY <2>1 DEF Types
    <3>2. pc'[h] = IF count[dying[h].ptr] = 1 THEN "last" ELSE "idle"
      BY <2>1, <3>1 DEF Types, Decrement, IsLast
    <3>3. /\ dying' = IF pc'[h] = "idle" THEN [dying EXCEPT ![h] = Nothing] ELSE dying
          /\ \A g \in Handles \ {h} : pc'[g] = pc[g]
      BY <2>1 DEF Types, Decrement
    <3>4. h \notin Cleaning(o)
      BY DEF Decrement, Cleaning
    <3>5. h \in Cleaning(o)' <=> dying[h] = OwnedPtr(o) /\ count[o] = 1
      BY <3>1, <3>2, <3>3 DEF Types, Cleaning
    <3>6. Cleaning(o)' \ {h} = Cleaning(o) \ {h}
      BY <3>3 DEF Types, Cleaning
    <3> QED
      BY <3>4, <3>5, <3>6
  <2>2. CASE ~dying[h].ctrl
    BY <2>2 DEF Types, Decrement, Cleaning
  <2> QED
    BY <2>1, <2>2
<1>6. dying[h] = OwnedPtr(o) => Counted(o) > 0
  BY <1>1, CountedFacts
<1>7. Leaving(o)' \subseteq Leaving(o)
  BY <1>1, <1>2
<1> QED
  BY <1>1, <1>3, <1>4, <1>5, <1>6, <1>7, CountedFacts, CountedNext
-----------------------------------------------------------------------------
(* One lemma per action.                                                   *)

\* A handle that gets a new content is not in push_back, and others do not see it.
LEMMA CallsUndisturbed ==
  ASSUME Types, InCall, NEW h \in Handles,
         pc[h] = "idle",
         dying' = [dying EXCEPT ![h] = handle[h]],
         pc' = [pc EXCEPT ![h] = "destruct"],
         \A o \in Objects : owned[o] => owned'[o]
  PROVE  InCall'
<1>1. \A g \in Handles : pc'[g] \in {"push", "last", "free"} =>
        g # h /\ pc'[g] = pc[g] /\ dying'[g] = dying[g]
  BY DEF Types
<1>2. ASSUME NEW g \in Handles, pc'[g] = "push"
      PROVE  /\ dying'[g].ctrl /\ owned'[dying'[g].ptr]
             /\ \A f \in Handles : pc'[f] = "push" /\ dying'[f] = dying'[g] => f = g
  <2>1. pc[g] = "push" /\ dying'[g] = dying[g] /\ dying[g].ctrl /\ owned[dying[g].ptr]
    BY <1>1, <1>2 DEF InCall
  <2>2. dying[g].ptr \in Objects
    BY <2>1, ContentFacts DEF Types
  <2>3. \A f \in Handles : pc'[f] = "push" /\ dying'[f] = dying'[g] => f = g
    BY <1>1, <2>1 DEF InCall
  <2> QED
    BY <2>1, <2>2, <2>3
<1>3. \A g \in Handles : pc'[g] \in {"last", "free"} => dying'[g].ctrl
  BY <1>1 DEF InCall
<1> QED
  BY <1>2, <1>3 DEF InCall

\* Make: a new object, with a control block and one reference or in the collection.
LEMMA MakeKeepsIInv ==
  ASSUME IInv, NEW h \in Handles, NEW p \in Objects, Make(h, p)
  PROVE  IInv'
<1> USE DEF IInv
<1>1. PICK c \in {OwnedPtr(p), Ptr(p)} :
        /\ SwapIn(h, c)
        /\ c = OwnedPtr(p) => /\ count' = [count EXCEPT ![p] = 1]
                              /\ owned' = [owned EXCEPT ![p] = TRUE]
                              /\ entries' = entries
        /\ c = Ptr(p) => count' = count /\ owned' = owned /\ entries' = entries \cup {p}
  BY ContentFacts DEF Make
<1>2. /\ p \notin made /\ made' = made \cup {p} /\ deleted' = deleted /\ freed' = freed
      /\ c \in Contents
  BY <1>1, ContentFacts DEF Make
<1>3. Types'
  <2>1. /\ handle' \in [Handles -> Contents] /\ dying' \in [Handles -> Contents]
        /\ pc' \in [Handles -> {"idle", "push", "destruct", "last", "free"}]
    BY <1>1, <1>2 DEF SwapIn, Types
  <2>2. made' \subseteq Objects /\ entries' \subseteq made'
    BY <1>1, <1>2 DEF Types
  <2>3. count' \in [Objects -> Nat]
    BY <1>1 DEF Types
  <2>4. owned' \in [Objects -> BOOLEAN]
    BY <1>1 DEF Types
  <2> QED
    BY <1>2, <2>1, <2>2, <2>3, <2>4 DEF Types
<1>4. InCall'
  <2>1. \A o \in Objects : owned[o] => owned'[o]
    BY <1>1 DEF Types
  <2> QED
    BY <1>1, <2>1, CallsUndisturbed DEF SwapIn
<1>5. /\ Holding(p) = {} /\ Leaving(p) = {} /\ Cleaning(p) = {} /\ Counted(p) = 0 /\ count[p] = 0
      /\ ~owned[p] /\ deleted[p] = 0 /\ freed[p] = 0
  BY <1>2, CountedFacts DEF NotMade, BlockLife
<1>6. NotMade'
  <2>1. ASSUME NEW o \in Objects, o \notin made'
        PROVE  /\ Holding(o)' = {} /\ Leaving(o)' = {} /\ Cleaning(o)' = {}
               /\ ~owned'[o] /\ deleted'[o] = 0 /\ freed'[o] = 0
    <3>1. o # p /\ c # OwnedPtr(o) /\ owned'[o] = owned[o]
      BY <1>1, <1>2, <2>1, ContentFacts DEF Types
    <3> QED
      BY <1>1, <1>2, <2>1, <3>1, SwapInEffect DEF NotMade
  <2> QED
    BY <2>1 DEF NotMade
<1>7. ASSUME NEW o \in Objects
      PROVE  /\ Cleaning(o)' = Cleaning(o) /\ \A g \in Cleaning(o) : pc'[g] = pc[g]
             /\ Counted(o)' = IF c = OwnedPtr(o) THEN Counted(o) + 1 ELSE Counted(o)
             /\ c = OwnedPtr(o) => o = p
  <2>1. SwapIn(h, c) /\ c \in Contents
    BY <1>1, <1>2
  <2>2. Cleaning(o)' = Cleaning(o) /\ Counted(o)' = IF c = OwnedPtr(o) THEN Counted(o) + 1 ELSE Counted(o)
    BY <2>1, SwapInEffect
  <2>3. \A g \in Cleaning(o) : pc'[g] = pc[g]
    BY <2>1 DEF SwapIn, Cleaning, Types
  <2>4. c = OwnedPtr(o) => o = p
    BY <1>1, ContentFacts
  <2>. QED BY <2>2, <2>3, <2>4
<1>8. BlockLife'
  <2>1. ASSUME NEW o \in Objects
        PROVE  count'[o] = Counted(o)' /\ (o # p => count'[o] = count[o])
    BY <1>1, <1>5, <1>7, ContentFacts DEF Types, BlockLife
  <2> QED
    BY <1>2, <1>5, <1>7, <2>1 DEF BlockLife
<1>9. ObjectLife'
  <2>1. ASSUME NEW o \in Objects
        PROVE  /\ deleted'[o] <= 1
               /\ o \in entries' => deleted'[o] = 0 /\ ~owned'[o]
               /\ owned'[o] /\ count'[o] > 0 => deleted'[o] = 0
               /\ owned'[o] => \A g \in Cleaning(o)' : pc'[g] = "last" => deleted'[o] = 0
    <3>1. CASE o = p
      BY <1>1, <1>2, <1>5, <3>1, ContentFacts DEF Types, ObjectLife
    <3>2. CASE o # p
      <4>1. owned'[o] = owned[o] /\ count'[o] = count[o] /\ (o \in entries' <=> o \in entries)
        BY <1>1, <3>2 DEF Types
      <4> QED
        BY <1>2, <1>7, <4>1 DEF ObjectLife
    <3> QED
      BY <3>1, <3>2
  <2> QED
    BY <2>1 DEF ObjectLife
<1> QED
  BY <1>3, <1>4, <1>6, <1>8, <1>9

\* Copy: one reference more, or none for an object of a collection.
LEMMA CopyKeepsIInv ==
  ASSUME IInv, NEW h \in Handles, NEW from \in Handles, Copy(h, from)
  PROVE  IInv'
<1> USE DEF IInv
<1> DEFINE c == handle[from]
<1>1. c \in Contents /\ SwapIn(h, c)
  BY DEF Copy, Types
<1>2. \A o \in Objects : count'[o] = IF c = OwnedPtr(o) THEN count[o] + 1 ELSE count[o]
  <2>1. CASE c.ctrl
    BY <1>1, <2>1, ContentFacts DEF Copy, Increment, Types
  <2>2. CASE ~c.ctrl
    BY <1>1, <2>2, ContentFacts DEF Copy, Increment, Types
  <2> QED
    BY <2>1, <2>2
<1>3. Types'
  <2>1. count' \in [Objects -> Nat]
    <3>1. count' = [o \in Objects |-> count'[o]]
      BY <1>1, ContentFacts DEF Copy, Increment, Types
    <3> QED
      BY <1>2, <3>1 DEF Types
  <2>2. /\ handle' \in [Handles -> Contents] /\ dying' \in [Handles -> Contents]
        /\ pc' \in [Handles -> {"idle", "push", "destruct", "last", "free"}]
    BY <1>1 DEF SwapIn, Types
  <2> QED
    BY <2>1, <2>2 DEF Copy, Types
<1>4. InCall'
  BY <1>1, CallsUndisturbed DEF SwapIn, Copy
<1>5. \A o \in Objects : c = OwnedPtr(o) => Holding(o) # {} /\ count[o] > 0
  <2>1. ASSUME NEW o \in Objects, c = OwnedPtr(o)
        PROVE  from \in Holding(o)
    BY <2>1 DEF Holding
  <2> QED
    BY <2>1, CountedFacts DEF BlockLife
<1>6. ASSUME NEW o \in Objects
      PROVE  /\ Cleaning(o)' = Cleaning(o) /\ \A g \in Cleaning(o) : pc'[g] = pc[g]
             /\ Counted(o)' = count'[o]
             /\ count'[o] > 0 <=> count[o] > 0
             /\ Holding(o) = {} /\ Leaving(o) = {} => Holding(o)' = {} /\ Leaving(o)' = {}
  <2>1. /\ Cleaning(o)' = Cleaning(o)
        /\ Holding(o) = {} /\ c # OwnedPtr(o) => Holding(o)' = {}
        /\ Holding(o) = {} /\ Leaving(o) = {} => Leaving(o)' = {}
        /\ Counted(o)' = IF c = OwnedPtr(o) THEN Counted(o) + 1 ELSE Counted(o)
    BY <1>1, SwapInEffect
  <2>2. \A g \in Cleaning(o) : pc'[g] = pc[g]
    BY <1>1 DEF SwapIn, Cleaning, Types
  <2> QED
    BY <1>2, <1>5, <2>1, <2>2 DEF BlockLife, Types
<1>7. UNCHANGED <<made, owned, entries, deleted, freed>>
  BY DEF Copy
<1>8. NotMade' /\ BlockLife' /\ ObjectLife'
  BY <1>6, <1>7 DEF NotMade, BlockLife, ObjectLife, Types
<1> QED
  BY <1>3, <1>4, <1>8

\* FromCollection and Drop: the new content has no control block.
LEMMA SwapInKeepsIInv ==
  ASSUME IInv, NEW h \in Handles, NEW c \in Contents, ~c.ctrl, SwapIn(h, c),
         UNCHANGED <<made, count, owned, entries, deleted, freed>>
  PROVE  IInv'
<1> USE DEF IInv
<1>1. Types'
  BY DEF SwapIn, Types
<1>2. InCall'
  BY CallsUndisturbed DEF SwapIn
<1>3. ASSUME NEW o \in Objects
      PROVE  /\ Cleaning(o)' = Cleaning(o) /\ \A g \in Cleaning(o) : pc'[g] = pc[g]
             /\ Counted(o)' = Counted(o)
             /\ Holding(o) = {} /\ Leaving(o) = {} => Holding(o)' = {} /\ Leaving(o)' = {}
  <2>1. c # OwnedPtr(o)
    BY ContentFacts
  <2>2. \A g \in Cleaning(o) : pc'[g] = pc[g]
    BY DEF SwapIn, Cleaning, Types
  <2> QED
    BY <2>1, <2>2, SwapInEffect
<1>4. NotMade' /\ BlockLife' /\ ObjectLife'
  BY <1>3 DEF NotMade, BlockLife, ObjectLife
<1> QED
  BY <1>1, <1>2, <1>4

\* Move: the references are those that were there.
LEMMA MoveKeepsIInv ==
  ASSUME IInv, NEW h \in Handles, NEW from \in Handles, Move(h, from)
  PROVE  IInv'
<1> USE DEF IInv
<1>1. Types'
  BY ContentFacts DEF Move, Types
<1>2. InCall'
  BY CallsUndisturbed DEF Move
<1>3. ASSUME NEW o \in Objects
      PROVE  /\ Cleaning(o)' = Cleaning(o) /\ \A g \in Cleaning(o) : pc'[g] = pc[g]
             /\ Counted(o)' = Counted(o)
             /\ Holding(o) = {} /\ Leaving(o) = {} => Holding(o)' = {} /\ Leaving(o)' = {}
  <2>1. \A g \in Cleaning(o) : pc'[g] = pc[g]
    BY DEF Move, Cleaning, Types
  <2> QED
    BY <2>1, MoveEffect
<1>4. UNCHANGED <<made, count, owned, entries, deleted, freed>>
  BY DEF Move
<1>5. NotMade' /\ BlockLife' /\ ObjectLife'
  BY <1>3, <1>4 DEF NotMade, BlockLife, ObjectLife
<1> QED
  BY <1>1, <1>2, <1>5

\* StartPush: push_back gets a copy, and counts it.
LEMMA StartPushKeepsIInv ==
  ASSUME IInv, NEW h \in Handles, StartPush(h)
  PROVE  IInv'
<1> USE DEF IInv
<1> DEFINE p == handle[h].ptr
<1>1. /\ p \in Objects /\ handle[h] = OwnedPtr(p) /\ handle[h].ctrl /\ owned[p]
      /\ handle[h] \in Contents
  BY ContentFacts DEF StartPush, Types
<1>2. count' = [count EXCEPT ![p] = @ + 1]
  BY <1>1 DEF StartPush, Increment
<1>3. UNCHANGED <<handle, made, owned, entries, deleted, freed>>
  BY DEF StartPush
<1>4. /\ dying' = [dying EXCEPT ![h] = handle[h]] /\ pc[h] = "idle"
      /\ pc' = [pc EXCEPT ![h] = "push"]
      /\ \A g \in Handles : pc[g] = "push" => dying[g] # handle[h]
  BY DEF StartPush
<1>5. Types'
  <2>1. count' \in [Objects -> Nat]
    BY <1>1, <1>2 DEF Types
  <2>2. dying' \in [Handles -> Contents] /\ pc' \in [Handles -> {"idle", "push", "destruct", "last", "free"}]
    BY <1>1, <1>4 DEF Types
  <2> QED
    BY <1>3, <2>1, <2>2 DEF Types
<1>6. InCall'
  <2>1. ASSUME NEW g \in Handles, g # h
        PROVE  pc'[g] = pc[g] /\ dying'[g] = dying[g]
    BY <1>4, <2>1 DEF Types
  <2>2. pc'[h] = "push" /\ dying'[h] = handle[h]
    BY <1>4 DEF Types
  <2>3. ASSUME NEW g \in Handles, pc'[g] = "push"
        PROVE  /\ dying'[g].ctrl /\ owned'[dying'[g].ptr]
               /\ \A f \in Handles : pc'[f] = "push" /\ dying'[f] = dying'[g] => f = g
    <3>1. CASE g = h
      BY <1>1, <1>3, <1>4, <2>1, <2>2, <3>1
    <3>2. CASE g # h
      BY <1>3, <1>4, <2>1, <2>2, <2>3, <3>2 DEF InCall
    <3> QED
      BY <3>1, <3>2
  <2>4. \A g \in Handles : pc'[g] \in {"last", "free"} => dying'[g].ctrl
    BY <2>1, <2>2 DEF InCall
  <2> QED
    BY <2>3, <2>4 DEF InCall
<1>7. h \in Holding(p) /\ count[p] > 0
  <2>1. h \in Holding(p)
    BY <1>1 DEF Holding
  <2> QED
    BY <1>1, <2>1, CountedFacts DEF BlockLife
<1>8. ASSUME NEW o \in Objects
      PROVE  /\ Cleaning(o)' = Cleaning(o) /\ \A g \in Cleaning(o) : pc'[g] = pc[g]
             /\ Counted(o)' = count'[o]
             /\ count'[o] > 0 <=> count[o] > 0
             /\ Holding(o)' = Holding(o) /\ (o # p => Leaving(o)' = Leaving(o))
  <2>1. \A g \in Cleaning(o) : pc'[g] = pc[g]
    BY <1>4 DEF Cleaning, Types
  <2>2. handle[h] = OwnedPtr(o) <=> o = p
    BY <1>1, ContentFacts
  <2> QED
    BY <1>1, <1>2, <1>7, <2>1, <2>2, StartPushEffect DEF BlockLife, Types
<1>9. NotMade' /\ BlockLife' /\ ObjectLife'
  BY <1>3, <1>7, <1>8 DEF NotMade, BlockLife, ObjectLife
<1> QED
  BY <1>5, <1>6, <1>9

\* Push: the object is of the collection from then on, and the handles let go of it.
LEMMA PushKeepsIInv ==
  ASSUME IInv, NEW h \in Handles, Push(h)
  PROVE  IInv'
<1> USE DEF IInv
<1> DEFINE p == dying[h].ptr
<1>1. /\ p \in Objects /\ dying[h] = OwnedPtr(p) /\ pc[h] = "push" /\ owned[p]
      /\ \A g \in Handles : pc[g] = "push" /\ dying[g] = dying[h] => g = h
  BY ContentFacts DEF Push, InCall, Types
<1>2. /\ owned' = [owned EXCEPT ![p] = FALSE] /\ entries' = entries \cup {p}
      /\ pc' = [pc EXCEPT ![h] = "destruct"]
      /\ UNCHANGED <<handle, dying, made, count, deleted, freed>>
  BY DEF Push, Release
<1>3. h \in Leaving(p) /\ count[p] > 0 /\ p \in made
  <2>1. h \in Leaving(p)
    BY <1>1 DEF Leaving
  <2> QED
    BY <1>1, <2>1, CountedFacts DEF BlockLife, NotMade
<1>4. Types'
  <2>1. owned' \in [Objects -> BOOLEAN]
    BY <1>2 DEF Types
  <2>2. pc' \in [Handles -> {"idle", "push", "destruct", "last", "free"}]
    BY <1>2 DEF Types
  <2> QED
    BY <1>2, <1>3, <2>1, <2>2 DEF Types
<1>5. InCall'
  <2>1. ASSUME NEW g \in Handles, pc'[g] = "push"
        PROVE  /\ dying'[g].ctrl /\ owned'[dying'[g].ptr]
               /\ \A f \in Handles : pc'[f] = "push" /\ dying'[f] = dying'[g] => f = g
    <3>1. g # h /\ pc[g] = "push" /\ dying[g].ctrl /\ dying[g] \in Contents
      BY <1>2, <2>1 DEF Types, InCall
    <3>2. dying[g].ptr \in Objects /\ dying[g].ptr # p
      BY <1>1, <3>1, ContentFacts
    <3>3. \A f \in Handles : pc'[f] = "push" => pc[f] = "push"
      BY <1>2 DEF Types
    <3> QED
      BY <1>2, <3>1, <3>2, <3>3 DEF InCall, Types
  <2>2. \A g \in Handles : pc'[g] \in {"last", "free"} => dying'[g].ctrl
    BY <1>2 DEF InCall, Types
  <2> QED
    BY <2>1, <2>2 DEF InCall
<1>6. ASSUME NEW o \in Objects
      PROVE  /\ Cleaning(o)' = Cleaning(o) /\ \A g \in Cleaning(o) : pc'[g] = pc[g]
             /\ Holding(o)' = Holding(o) /\ Leaving(o)' = Leaving(o)
             /\ Counted(o)' = Counted(o)
  <2>1. Holding(o)' = Holding(o)
    BY <1>2 DEF Holding
  <2>2. Leaving(o)' = Leaving(o)
    BY <1>1, <1>2 DEF Leaving, Types
  <2>3. Cleaning(o)' = Cleaning(o)
    BY <1>1, <1>2 DEF Cleaning, Types
  <2>4. \A g \in Cleaning(o) : pc'[g] = pc[g]
    BY <1>1, <1>2 DEF Cleaning, Types
  <2> QED
    BY <2>1, <2>2, <2>3, <2>4, CountedFacts, CountedNext
<1>7. NotMade' /\ BlockLife'
  BY <1>2, <1>3, <1>6 DEF NotMade, BlockLife, Types
<1>8. ObjectLife'
  BY <1>1, <1>2, <1>3, <1>6 DEF ObjectLife, Types
<1> QED
  BY <1>4, <1>5, <1>7, <1>8

\* Clear: the objects of the collection are deleted.
LEMMA ClearKeepsIInv ==
  ASSUME IInv, ClearCollection
  PROVE  IInv'
<1> USE DEF IInv
<1>1. /\ deleted' = [o \in Objects |-> IF o \in entries THEN deleted[o] + 1 ELSE deleted[o]]
      /\ entries' = {} /\ UNCHANGED <<handle, dying, pc, made, count, owned, freed>>
  BY DEF ClearCollection
<1>2. Types' /\ InCall'
  BY <1>1 DEF Types, InCall
<1>3. \A o \in Objects : /\ Holding(o)' = Holding(o) /\ Leaving(o)' = Leaving(o)
                         /\ Cleaning(o)' = Cleaning(o) /\ Counted(o)' = Counted(o)
  BY <1>1 DEF Holding, Leaving, Cleaning, Counted
<1>4. NotMade' /\ BlockLife'
  BY <1>1, <1>3 DEF NotMade, BlockLife, Types
<1>5. ObjectLife'
  BY <1>1, <1>3 DEF ObjectLife, Types
<1> QED
  BY <1>2, <1>4, <1>5

\* Decrement: one reference less, and the last one cleans up.
LEMMA DecrementKeepsIInv ==
  ASSUME IInv, NEW h \in Handles, Decrement(h)
  PROVE  IInv'
<1> USE DEF IInv
<1>1. /\ pc[h] = "destruct" /\ dying[h] \in Contents
      /\ UNCHANGED <<handle, made, owned, entries, deleted, freed>>
  BY DEF Decrement, Types
<1>2. \A o \in Objects : count'[o] = IF dying[h] = OwnedPtr(o) THEN count[o] - 1 ELSE count[o]
  <2>1. CASE dying[h].ctrl
    BY <1>1, <2>1, ContentFacts DEF Decrement, Types
  <2>2. CASE ~dying[h].ctrl
    BY <1>1, <2>2, ContentFacts DEF Decrement, Types
  <2> QED
    BY <2>1, <2>2
<1>3. ASSUME NEW o \in Objects
      PROVE  count'[o] = Counted(o)' /\ count'[o] \in Nat
  BY <1>2, DecrementEffect DEF BlockLife, Types
<1>4. /\ pc' \in [Handles -> {"idle", "push", "destruct", "last", "free"}]
      /\ pc'[h] \in {"idle", "last"}
      /\ dying' \in [Handles -> Contents]
      /\ pc'[h] = "last" => dying[h].ctrl /\ dying'[h] = dying[h]
      /\ \A g \in Handles \ {h} : pc'[g] = pc[g] /\ dying'[g] = dying[g]
  BY ContentFacts DEF Decrement, Types
<1>5. Types'
  <2>1. count' \in [Objects -> Nat]
    <3>1. count' = [o \in Objects |-> count'[o]]
      BY <1>1, ContentFacts DEF Decrement, Types
    <3> QED
      BY <1>3, <3>1
  <2> QED
    BY <1>1, <1>4, <2>1 DEF Types
<1>6. InCall'
  BY <1>1, <1>4 DEF InCall
<1>7. ASSUME NEW o \in Objects
      PROVE  /\ Holding(o)' = Holding(o) /\ Leaving(o)' \subseteq Leaving(o)
             /\ count'[o] <= count[o]
             /\ Cleaning(o)' = IF dying[h] = OwnedPtr(o) /\ count[o] = 1
                               THEN Cleaning(o) \cup {h} ELSE Cleaning(o)
             /\ dying[h] = OwnedPtr(o) => count[o] > 0 /\ h \in Leaving(o)
             /\ \A g \in Cleaning(o) : pc'[g] = pc[g]
  <2>1. dying[h] = OwnedPtr(o) => count[o] > 0 /\ h \in Leaving(o)
    BY <1>1, DecrementEffect DEF BlockLife, Leaving
  <2>2. \A g \in Cleaning(o) : pc'[g] = pc[g]
    BY <1>1, <1>4 DEF Cleaning
  <2> QED
    BY <1>2, <2>1, <2>2, DecrementEffect DEF Types
<1>8. NotMade'
  BY <1>1, <1>7 DEF NotMade
<1>9. BlockLife'
  <2>1. ASSUME NEW o \in Objects
        PROVE  /\ count'[o] > 0 => freed'[o] = 0 /\ Cleaning(o)' = {}
               /\ Cleaning(o)' # {} => freed'[o] = 0
               /\ \A f, g \in Cleaning(o)' : f = g
    <3>1. CASE dying[h] = OwnedPtr(o)
      <4>1. Cleaning(o) = {} /\ freed[o] = 0
        BY <1>7, <3>1 DEF BlockLife
      <4> QED
        BY <1>1, <1>2, <1>7, <3>1, <4>1 DEF Types
    <3>2. CASE dying[h] # OwnedPtr(o)
      BY <1>1, <1>2, <1>7, <3>2 DEF BlockLife
    <3> QED
      BY <3>1, <3>2
  <2> QED
    BY <1>1, <1>3, <2>1 DEF BlockLife
<1>10. ObjectLife'
  <2>1. ASSUME NEW o \in Objects, owned[o], NEW g \in Cleaning(o)', pc'[g] = "last"
        PROVE  deleted[o] = 0
    <3>1. CASE g \in Cleaning(o)
      BY <1>7, <2>1, <3>1 DEF ObjectLife
    <3>2. CASE g \notin Cleaning(o)
      BY <1>7, <2>1, <3>2 DEF ObjectLife
    <3> QED
      BY <3>1, <3>2
  <2>2. \A o \in Objects : count'[o] > 0 => count[o] > 0
    BY <1>3, <1>7 DEF Types
  <2> QED
    BY <1>1, <2>1, <2>2 DEF ObjectLife
<1> QED
  BY <1>5, <1>6, <1>8, <1>9, <1>10

\* The object is deleted unless it is of a collection by now.
LEMMA DeleteObjectKeepsIInv ==
  ASSUME IInv, NEW h \in Handles, DeleteObject(h)
  PROVE  IInv'
<1> USE DEF IInv
<1> DEFINE p == dying[h].ptr
<1>1. /\ p \in Objects /\ dying[h] = OwnedPtr(p) /\ pc[h] = "last" /\ h \in Cleaning(p)
      /\ pc' = [pc EXCEPT ![h] = "free"]
      /\ UNCHANGED <<handle, dying, made, count, owned, entries, freed>>
  BY ContentFacts DEF DeleteObject, InCall, Types, Cleaning
<1>2. deleted' = [deleted EXCEPT ![p] = IF owned[p] THEN @ + 1 ELSE @]
  BY DEF DeleteObject
<1>3. /\ p \in made /\ count[p] = 0
      /\ owned[p] => deleted[p] = 0 /\ p \notin entries
      /\ \A g \in Cleaning(p) : g = h
  BY <1>1 DEF NotMade, BlockLife, ObjectLife, Types
<1>4. Types'
  <2>1. deleted' = [deleted EXCEPT ![p] = @ + 1] \/ deleted' = [deleted EXCEPT ![p] = @]
    BY <1>2
  <2>2. deleted' \in [Objects -> Nat]
    BY <2>1 DEF Types
  <2> QED
    BY <1>1, <2>2 DEF Types
<1>5. InCall'
  BY <1>1, ContentFacts DEF InCall, Types
<1>6. ASSUME NEW o \in Objects
      PROVE  /\ Holding(o)' = Holding(o) /\ Leaving(o)' = Leaving(o) /\ Cleaning(o)' = Cleaning(o)
             /\ Counted(o)' = Counted(o)
  <2>1. /\ Holding(o)' = Holding(o) /\ Leaving(o)' = Leaving(o) /\ Cleaning(o)' = Cleaning(o)
    BY <1>1 DEF Holding, Leaving, Cleaning, Types
  <2> QED
    BY <2>1, CountedFacts, CountedNext
<1>7. NotMade' /\ BlockLife'
  BY <1>1, <1>2, <1>3, <1>6 DEF NotMade, BlockLife, Types
<1>8. ObjectLife'
  <2>1. ASSUME NEW o \in Objects
        PROVE  /\ deleted'[o] <= 1
               /\ o \in entries => deleted'[o] = 0
               /\ owned[o] /\ count[o] > 0 => deleted'[o] = 0
               /\ owned[o] => \A g \in Cleaning(o) : pc'[g] = "last" => deleted'[o] = 0
    <3>1. CASE o = p
      <4>1. \A g \in Cleaning(o) : pc'[g] = "free"
        BY <1>1, <1>3, <3>1 DEF Types
      <4>2. deleted'[o] = IF owned[o] THEN deleted[o] + 1 ELSE deleted[o]
        BY <1>1, <1>2, <3>1 DEF Types
      <4> QED
        BY <1>3, <3>1, <4>1, <4>2 DEF ObjectLife, Types
    <3>2. CASE o # p
      <4>1. deleted'[o] = deleted[o] /\ \A g \in Cleaning(o) : g # h /\ pc'[g] = pc[g]
        BY <1>1, <1>2, <3>2, ContentFacts DEF Types, Cleaning
      <4> QED
        BY <4>1 DEF ObjectLife
    <3> QED
      BY <3>1, <3>2
  <2> QED
    BY <1>1, <1>6, <2>1 DEF ObjectLife
<1> QED
  BY <1>4, <1>5, <1>7, <1>8

\* The control block is deleted after that.
LEMMA DeleteBlockKeepsIInv ==
  ASSUME IInv, NEW h \in Handles, DeleteBlock(h)
  PROVE  IInv'
<1> USE DEF IInv
<1> DEFINE p == dying[h].ptr
<1>1. /\ p \in Objects /\ dying[h] = OwnedPtr(p) /\ pc[h] = "free" /\ h \in Cleaning(p)
      /\ pc' = [pc EXCEPT ![h] = "idle"] /\ dying' = [dying EXCEPT ![h] = Nothing]
      /\ freed' = [freed EXCEPT ![p] = @ + 1]
      /\ UNCHANGED <<handle, made, count, owned, entries, deleted>>
  BY ContentFacts DEF DeleteBlock, InCall, Types, Cleaning
<1>2. p \in made /\ count[p] = 0 /\ freed[p] = 0 /\ Cleaning(p) = {h}
  BY <1>1 DEF NotMade, BlockLife, Types
<1>3. Types'
  <2>1. freed' \in [Objects -> Nat] /\ dying' \in [Handles -> Contents]
    BY <1>1, ContentFacts DEF Types
  <2> QED
    BY <1>1, <2>1 DEF Types
<1>4. InCall'
  BY <1>1 DEF InCall, Types
<1>5. ASSUME NEW o \in Objects
      PROVE  /\ Holding(o)' = Holding(o) /\ Leaving(o)' = Leaving(o)
             /\ Cleaning(o)' = Cleaning(o) \ {h} /\ \A g \in Cleaning(o)' : pc'[g] = pc[g]
             /\ Counted(o)' = Counted(o)
             /\ o # p => Cleaning(o)' = Cleaning(o)
  <2>1. Holding(o)' = Holding(o)
    BY <1>1 DEF Holding
  <2>2. Leaving(o)' = Leaving(o)
    BY <1>1 DEF Leaving, Types
  <2>3. Cleaning(o)' = Cleaning(o) \ {h} /\ \A g \in Cleaning(o)' : pc'[g] = pc[g]
    BY <1>1 DEF Cleaning, Types
  <2>4. o # p => h \notin Cleaning(o)
    BY <1>1, ContentFacts DEF Cleaning
  <2> QED
    BY <2>1, <2>2, <2>3, <2>4, CountedFacts, CountedNext
<1>6. NotMade' /\ BlockLife'
  BY <1>1, <1>2, <1>5 DEF NotMade, BlockLife, Types
<1>7. ObjectLife'
  BY <1>1, <1>5 DEF ObjectLife
<1> QED
  BY <1>3, <1>4, <1>6, <1>7
-----------------------------------------------------------------------------
(* Theorems.                                                               *)

\* There are no objects at first.
LEMMA InitIInv == Init => IInv
<1> SUFFICES ASSUME Init PROVE IInv
  OBVIOUS
<1>1. Types /\ InCall
  BY ContentFacts DEF Init, Types, InCall
<1>2. \A o \in Objects : Holding(o) = {} /\ Leaving(o) = {} /\ Cleaning(o) = {}
  BY ContentFacts DEF Init, Holding, Leaving, Cleaning
<1>3. NotMade /\ BlockLife /\ ObjectLife
  BY <1>2, CountedFacts DEF Init, NotMade, BlockLife, ObjectLife
<1> QED
  BY <1>1, <1>3 DEF IInv

\* Every step preserves the invariant.
LEMMA NextKeepsIInv == IInv /\ [Next]_vars => IInv'
<1> SUFFICES ASSUME IInv, [Next]_vars PROVE IInv'
  OBVIOUS
<1>1. ASSUME NEW h \in Handles, NEW o \in Objects, FromCollection(h, o)
      PROVE  IInv'
  BY <1>1, SwapInKeepsIInv, ContentFacts DEF FromCollection
<1>2. ASSUME NEW h \in Handles, Drop(h)
      PROVE  IInv'
  BY <1>2, SwapInKeepsIInv, ContentFacts DEF Drop
<1>3. CASE UNCHANGED vars
  <2>1. Types' /\ InCall'
    BY <1>3 DEF vars, IInv, Types, InCall
  <2>2. \A o \in Objects : /\ Holding(o)' = Holding(o) /\ Leaving(o)' = Leaving(o)
                           /\ Cleaning(o)' = Cleaning(o) /\ Counted(o)' = Counted(o)
    BY <1>3 DEF vars, Holding, Leaving, Cleaning, Counted
  <2>3. NotMade' /\ BlockLife' /\ ObjectLife'
    BY <1>3, <2>2 DEF vars, IInv, NotMade, BlockLife, ObjectLife
  <2> QED
    BY <2>1, <2>3 DEF IInv
<1> QED
  BY <1>1, <1>2, <1>3, MakeKeepsIInv, CopyKeepsIInv, MoveKeepsIInv, StartPushKeepsIInv, PushKeepsIInv,
     ClearKeepsIInv, DecrementKeepsIInv, DeleteObjectKeepsIInv, DeleteBlockKeepsIInv DEF Next, Destruct

\* The invariant holds at any time.
LEMMA Inductive == Spec => []IInv
BY InitIInv, NextKeepsIInv, PTL DEF Spec

\* Every variable keeps its type, and no control block counts more than the handles
\* and the temporaries in their destructors.
THEOREM TypeCorrect == Spec => []TypeOK
<1>1. IInv => TypeOK
  <2> SUFFICES ASSUME IInv PROVE TypeOK
    OBVIOUS
  <2>1. ASSUME NEW o \in Objects
        PROVE  count[o] \in 0 .. 2 * Cardinality(Handles)
    <3>1. /\ Cardinality(Holding(o)) \in Nat /\ Cardinality(Holding(o)) <= Cardinality(Handles)
          /\ Cardinality(Leaving(o)) \in Nat /\ Cardinality(Leaving(o)) <= Cardinality(Handles)
          /\ Cardinality(Handles) \in Nat
      BY CountedFacts, HandlesAssumption, FS_Subset, FS_CardinalityType
    <3> QED
      BY <3>1, CountedFacts DEF IInv, BlockLife
  <2>2. count \in [Objects -> 0 .. 2 * Cardinality(Handles)]
    BY <2>1 DEF IInv, Types
  <2> QED
    BY <2>2 DEF IInv, Types, TypeOK
<1> QED
  BY <1>1, Inductive, PTL

\* The control block counts the handles that have it, and is there while one does:
\* whatever threads copy, move, push and drop, it is deleted once, and after the
\* last reference was taken off (MaybeSharedPtr.h:23).
THEOREM BlockOutlivesHandles == Spec => []BlockInUse
<1>1. IInv => BlockInUse
  BY CountedFacts DEF IInv, BlockLife, BlockInUse
<1> QED
  BY <1>1, Inductive, PTL

\* An object is deleted once: by the last handle if the handles own it, and by the
\* collection that took it over otherwise, never while it is used.
THEOREM ObjectsStayAlive == Spec => []ManagedObjectAlive
<1>1. IInv => ManagedObjectAlive
  BY CountedFacts DEF IInv, BlockLife, ObjectLife, ManagedObjectAlive
<1> QED
  BY <1>1, Inductive, PTL
=============================================================================
