----------------------------- MODULE Memory_proofs -----------------------------
(***************************************************************************)
(* For any number of buffers, collections, threads and types of            *)
(* parameters: vectors of data have one owner or were deleted once, what   *)
(* is written of user data is what is there, and a copy of parameters is   *)
(* what they were at one moment; no key of them is lost when keys are      *)
(* listed, or written and read.  For any link collections, objects and     *)
(* providers: a link is known by its position from when it is added on, a  *)
(* collection is read as it was prepared first and written as it was read, *)
(* and a navigator has all links.  For any frames: a row of an Arrow table *)
(* is the frame that it was made of.                                       *)
(***************************************************************************)
EXTENDS Memory, Recursion_proofs

-----------------------------------------------------------------------------
(* Buffers, user data and parameters.                                      *)

\* The members of the records and what the pointers can be: 0, or a vector that was made.
Slot == [there : BOOLEAN, data : 0 .. Len(kinds), functions : BOOLEAN]
Place ==
  [kind : {"none", "user", "links"}, data : 0 .. Len(kinds), size : Nat, vecPtr : Places \cup {"null"}]

\* The type invariant.
BTypes ==
  /\ kinds \in Seq({"user", "links"})
  /\ frees \in Seq(Nat)
  /\ Len(frees) = Len(kinds)
  /\ slots \in [Slots -> Slot]
  /\ places \in [Places -> Place]

\* Buffers that have a vector are there and have their functions, without which a
\* destructor would not know how to delete it; and a vector is of a collection.
PointersValid ==
  /\ \A b \in Slots : slots[b].data # 0 => slots[b].there /\ slots[b].functions
  /\ \A p \in Places : places[p].data # 0 => places[p].kind # "none"

\* A vector was deleted at most once.  As long as it was not it has one owner,
\* among the buffers or among the collections, and none from then on.
OneOwner(v) ==
  /\ frees[v] \in {0, 1}
  /\ frees[v] = 0 <=> \/ \E b \in Slots : slots[b].data = v
                      \/ \E p \in Places : places[p].data = v
  /\ \A b, c \in Slots : slots[b].data = v /\ slots[c].data = v => b = c
  /\ \A p, q \in Places : places[p].data = v /\ places[q].data = v => p = q
  /\ \A b \in Slots, p \in Places : ~ (slots[b].data = v /\ places[p].data = v)

\* The inductive invariant.
BInv == BTypes /\ PointersValid /\ \A v \in DOMAIN kinds : OneOwner(v)

\* There are no vectors at first.
LEMMA BInit == B!Init => BInv
  BY DEF B!Init, BInv, BTypes, Slot, Place, PointersValid, OneOwner, B!NoBuffers, B!NoCollection

\* What is in the buffers and collections, and in those that are made or moved from.
LEMMA BContents ==
  ASSUME BTypes
  PROVE  /\ \A b \in Slots : slots[b].data \in 0 .. Len(kinds)
         /\ \A p \in Places : places[p].data \in 0 .. Len(kinds)
         /\ DOMAIN kinds = 1 .. Len(kinds) /\ Len(kinds) \in Nat
         /\ B!NoBuffers \in Slot /\ B!MovedFrom \in Slot /\ B!NoCollection \in Place
  BY DEF BTypes, Slot, Place, B!NoBuffers, B!MovedFrom, B!NoCollection

\* Delete counts for the vector that it is given, and does nothing for a null pointer.
LEMMA DeleteEffect ==
  ASSUME BTypes, NEW v \in 0 .. Len(kinds)
  PROVE  /\ B!Delete(v) \in Seq(Nat)
         /\ Len(B!Delete(v)) = Len(kinds)
         /\ \A w \in DOMAIN kinds : B!Delete(v)[w] = IF w = v THEN frees[w] + 1 ELSE frees[w]
  BY DEF BTypes, B!Delete

\* CreateBuffers: the new vector is owned by buffers that had none.
LEMMA CreateBuffersB ==
  ASSUME BInv, NEW b \in Slots, NEW kind \in {"user", "links"}, B!CreateBuffers(b, kind)
  PROVE  BInv'
<1>1. BTypes'
  BY DEF BInv, BTypes, Slot, Place, B!CreateBuffers
<1>2. slots[b].data = 0
  BY DEF BInv, PointersValid, B!CreateBuffers
<1>3. /\ slots' = [slots EXCEPT ![b] = [there |-> TRUE, data |-> Len(kinds) + 1, functions |-> TRUE]]
      /\ DOMAIN kinds' = DOMAIN kinds \cup {Len(kinds) + 1}
      /\ Len(kinds) + 1 \notin DOMAIN kinds /\ 0 \notin DOMAIN kinds
      /\ Len(kinds) + 1 \notin 0 .. Len(kinds) /\ Len(kinds) + 1 # 0
      /\ places' = places
  BY DEF BInv, BTypes, B!CreateBuffers
<1>4. \A c \in Slots : slots'[c] = IF c = b THEN [there |-> TRUE, data |-> Len(kinds) + 1, functions |-> TRUE]
                                    ELSE slots[c]
  BY <1>3 DEF BInv, BTypes
<1>5. \A v \in DOMAIN kinds' : frees'[v] = IF v = Len(kinds) + 1 THEN 0 ELSE frees[v]
  BY DEF BInv, BTypes, B!CreateBuffers
<1>6. PointersValid'
  BY <1>3, <1>4 DEF BInv, PointersValid
<1>7. ASSUME NEW v \in DOMAIN kinds'
      PROVE  OneOwner(v)'
  <2>1. \A c \in Slots : slots'[c].data = IF c = b THEN Len(kinds) + 1 ELSE slots[c].data
    BY <1>4
  <2>2. CASE v = Len(kinds) + 1
    <3>1. (\A c \in Slots : slots[c].data # v) /\ (\A p \in Places : places[p].data # v)
      BY <1>3, <2>2, BContents DEF BInv
    <3>2. frees'[v] = 0
      BY <1>5, <2>2
    <3>. QED BY <1>3, <2>1, <2>2, <3>1, <3>2 DEF OneOwner
  <2>3. CASE v \in DOMAIN kinds
    <3>1. OneOwner(v) /\ v # Len(kinds) + 1 /\ v # 0
      BY <1>3, <2>3 DEF BInv
    <3>2. frees'[v] = frees[v]
      BY <1>5, <3>1
    <3>. QED BY <1>2, <1>3, <2>1, <3>1, <3>2 DEF OneOwner
  <2>. QED BY <1>3, <2>2, <2>3
<1>. QED BY <1>1, <1>6, <1>7 DEF BInv

\* MoveConstruct: the vector changes hands.
LEMMA MoveConstructB ==
  ASSUME BInv, NEW b \in Slots, NEW from \in Slots, B!MoveConstruct(b, from)
  PROVE  BInv'
<1>1. /\ b # from /\ slots[b].data = 0
      /\ UNCHANGED <<kinds, frees, places>>
      /\ slots' = [slots EXCEPT ![b] = slots[from], ![from] = B!MovedFrom]
  BY DEF BInv, PointersValid, B!MoveConstruct
<1>2. BTypes'
  BY <1>1, BContents DEF BInv, BTypes, Slot, Place
<1>3. \A c \in Slots : slots'[c] = IF c = b THEN slots[from] ELSE IF c = from THEN B!MovedFrom ELSE slots[c]
  BY <1>1 DEF BInv, BTypes
<1>4. PointersValid'
  <2>1. B!MovedFrom.data = 0
    BY DEF B!MovedFrom
  <2>2. ASSUME NEW c \in Slots, slots'[c].data # 0
        PROVE  slots'[c].there /\ slots'[c].functions
    <3>1. \E e \in Slots : slots'[c] = slots[e]
      BY <1>3, <2>1, <2>2
    <3>. QED BY <2>2, <3>1 DEF BInv, PointersValid
  <2>. QED BY <1>1, <2>2 DEF BInv, PointersValid
<1>5. ASSUME NEW v \in DOMAIN kinds'
      PROVE  OneOwner(v)'
  <2>1. OneOwner(v) /\ v # 0
    BY <1>1 DEF BInv, BTypes
  <2>2. \A c \in Slots : slots'[c].data = IF c = b THEN slots[from].data ELSE IF c = from THEN 0 ELSE slots[c].data
    BY <1>3 DEF B!MovedFrom
  <2>3. \A c \in Slots : slots'[c].data = v <=>
      (c = b /\ slots[from].data = v) \/ (c \notin {b, from} /\ slots[c].data = v)
    BY <2>1, <2>2
  <2>4. (\E c \in Slots : slots'[c].data = v) <=> (\E c \in Slots : slots[c].data = v)
    BY <1>1, <2>1, <2>3
  <2>5. \A c, d \in Slots : slots'[c].data = v /\ slots'[d].data = v => c = d
    BY <2>1, <2>3 DEF OneOwner
  <2>6. \A c \in Slots, d \in Places : ~ (slots'[c].data = v /\ places'[d].data = v)
    BY <1>1, <2>1, <2>3 DEF OneOwner
  <2>7. /\ frees'[v] \in {0, 1} /\ frees'[v] = frees[v]
        /\ \A c, d \in Places : places'[c].data = v /\ places'[d].data = v => c = d
    BY <1>1, <2>1 DEF OneOwner
  <2>8. frees'[v] = 0 <=> (\E c \in Slots : slots'[c].data = v) \/ (\E d \in Places : places'[d].data = v)
    BY <1>1, <2>1, <2>4 DEF OneOwner
  <2>. QED BY <2>5, <2>6, <2>7, <2>8 DEF OneOwner
<1>. QED BY <1>2, <1>4, <1>5 DEF BInv

\* MoveAssign: the vector of the one that is assigned to is deleted, that of the
\* other changes hands; nothing happens if they are the same.
LEMMA MoveAssignB ==
  ASSUME BInv, NEW b \in Slots, NEW from \in Slots, B!MoveAssign(b, from)
  PROVE  BInv'
<1>1. CASE b = from
  BY <1>1 DEF B!MoveAssign, BInv, BTypes, Slot, Place, PointersValid, OneOwner
<1>2. CASE b # from
  <2>1. B!OwnData(b) = slots[b].data /\ slots[b].data \in 0 .. Len(kinds)
    BY BContents DEF B!OwnData, BInv, PointersValid
  <2>2. /\ frees' \in Seq(Nat) /\ Len(frees') = Len(kinds)
        /\ \A w \in DOMAIN kinds : frees'[w] = IF w = slots[b].data THEN frees[w] + 1 ELSE frees[w]
    BY <1>2, <2>1, DeleteEffect DEF BInv, B!MoveAssign
  <2>3. slots' = [slots EXCEPT ![b] = slots[from], ![from] = B!MovedFrom] /\ UNCHANGED <<kinds, places>>
    BY <1>2 DEF B!MoveAssign
  <2>4. BTypes'
    BY <1>2, <2>2, <2>3, BContents DEF BInv, BTypes, Slot, Place
  <2>5. \A c \in Slots : slots'[c] = IF c = from THEN B!MovedFrom ELSE IF c = b THEN slots[from] ELSE slots[c]
    BY <1>2, <2>3 DEF BInv, BTypes
  <2>6. PointersValid'
    <3>1. B!MovedFrom.data = 0
      BY DEF B!MovedFrom
    <3>2. ASSUME NEW c \in Slots, slots'[c].data # 0
          PROVE  slots'[c].there /\ slots'[c].functions
      <4>1. \E e \in Slots : slots'[c] = slots[e]
        BY <2>5, <3>1, <3>2
      <4>. QED BY <3>2, <4>1 DEF BInv, PointersValid
    <3>. QED BY <2>3, <3>2 DEF BInv, PointersValid
  <2>7. ASSUME NEW v \in DOMAIN kinds'
        PROVE  OneOwner(v)'
    <3>1. OneOwner(v) /\ v # 0
      BY <2>3 DEF BInv, BTypes
    <3>2. \A c \in Slots : slots'[c].data = IF c = from THEN 0 ELSE IF c = b THEN slots[from].data ELSE slots[c].data
      BY <2>5 DEF B!MovedFrom
    <3>3. \A c \in Slots : slots'[c].data = v <=>
        (c = b /\ slots[from].data = v) \/ (c \notin {b, from} /\ slots[c].data = v)
      BY <1>2, <3>1, <3>2
    <3>4. frees'[v] = IF v = slots[b].data THEN frees[v] + 1 ELSE frees[v]
      BY <2>2, <2>3
    <3>5. CASE v = slots[b].data
      <4>1. frees[v] = 0 /\ frees'[v] = 1
        BY <3>1, <3>4, <3>5 DEF OneOwner
      <4>2. (\A c \in Slots : slots'[c].data # v) /\ (\A p \in Places : places'[p].data # v)
        BY <1>2, <2>3, <3>1, <3>3, <3>5 DEF OneOwner
      <4>. QED BY <4>1, <4>2 DEF OneOwner
    <3>6. CASE v # slots[b].data
      <4>1. (\E c \in Slots : slots'[c].data = v) <=> (\E c \in Slots : slots[c].data = v)
        BY <3>3, <3>6
      <4>2. \A c, d \in Slots : slots'[c].data = v /\ slots'[d].data = v => c = d
        BY <3>1, <3>3, <3>6 DEF OneOwner
      <4>3. \A c \in Slots, p \in Places : ~ (slots'[c].data = v /\ places'[p].data = v)
        BY <2>3, <3>1, <3>3, <3>6 DEF OneOwner
      <4>4. frees'[v] = frees[v] /\ places' = places
        BY <2>3, <3>4, <3>6
      <4>5. /\ frees'[v] \in {0, 1}
            /\ frees'[v] = 0 <=> (\E c \in Slots : slots'[c].data = v) \/ (\E p \in Places : places'[p].data = v)
            /\ \A p, q \in Places : places'[p].data = v /\ places'[q].data = v => p = q
        BY <3>1, <4>1, <4>4 DEF OneOwner
      <4>. QED BY <4>2, <4>3, <4>5 DEF OneOwner
    <3>. QED BY <3>5, <3>6
  <2>. QED BY <2>4, <2>6, <2>7 DEF BInv
<1>. QED BY <1>1, <1>2

\* Destroy: the vector is deleted if there is one still.
LEMMA DestroyB ==
  ASSUME BInv, NEW b \in Slots, B!Destroy(b)
  PROVE  BInv'
<1>1. B!OwnData(b) = slots[b].data /\ slots[b].data \in 0 .. Len(kinds)
  BY BContents DEF B!OwnData, BInv, PointersValid
<1>2. /\ frees' \in Seq(Nat) /\ Len(frees') = Len(kinds)
      /\ \A w \in DOMAIN kinds : frees'[w] = IF w = slots[b].data THEN frees[w] + 1 ELSE frees[w]
  BY <1>1, DeleteEffect DEF BInv, B!Destroy
<1>3. slots' = [slots EXCEPT ![b] = B!NoBuffers] /\ UNCHANGED <<kinds, places>>
  BY DEF B!Destroy
<1>4. BTypes'
  BY <1>2, <1>3, BContents DEF BInv, BTypes, Slot, Place
<1>5. \A c \in Slots : slots'[c] = IF c = b THEN B!NoBuffers ELSE slots[c]
  BY <1>3 DEF BInv, BTypes
<1>6. PointersValid'
  BY <1>3, <1>5 DEF BInv, PointersValid, B!NoBuffers
<1>7. ASSUME NEW v \in DOMAIN kinds'
      PROVE  OneOwner(v)'
  <2>1. OneOwner(v) /\ v # 0
    BY <1>3 DEF BInv, BTypes
  <2>2. \A c \in Slots : slots'[c].data = IF c = b THEN 0 ELSE slots[c].data
    BY <1>5 DEF B!NoBuffers
  <2>3. frees'[v] = IF v = slots[b].data THEN frees[v] + 1 ELSE frees[v]
    BY <1>2, <1>3
  <2>. QED BY <1>3, <2>1, <2>2, <2>3 DEF OneOwner
<1>. QED BY <1>4, <1>6, <1>7 DEF BInv

\* CreateCollection: the collection has the vector, or has its own and deletes it.
LEMMA CreateCollectionB ==
  ASSUME BInv, NEW b \in Slots, NEW p \in Places, B!CreateCollection(b, p)
  PROVE  BInv'
<1> DEFINE d == slots[b].data
           adopted == [kind |-> "links", data |-> d, size |-> 0, vecPtr |-> "null"]
           moved == [kind |-> "user", data |-> 0, size |-> 1, vecPtr |-> "null"]
           emptied == [there |-> slots[b].there, data |-> 0, functions |-> slots[b].functions]
<1>1. d \in 1 .. Len(kinds) /\ d \in 0 .. Len(kinds) /\ d # 0
  BY BContents DEF BInv, B!CreateCollection
<1>2. places[p].data = 0
  BY DEF BInv, PointersValid, B!CreateCollection
<1>3. /\ kinds' = kinds
      /\ \/ frees' = frees /\ places' = [places EXCEPT ![p] = adopted]
         \/ frees' = B!Delete(d) /\ places' = [places EXCEPT ![p] = moved]
  BY DEF B!CreateCollection, B!AdoptLinks, B!MoveUserData, B!NoCollection
<1>4. slots' = [slots EXCEPT ![b] = emptied]
  <2>1. slots' = [slots EXCEPT ![b] = [slots[b] EXCEPT !.data = 0]]
    BY DEF BInv, BTypes, B!CreateCollection, B!Consumed
  <2>2. slots[b] \in Slot
    BY DEF BInv, BTypes
  <2>3. [slots[b] EXCEPT !.data = 0] = emptied
    BY <2>2 DEF Slot
  <2>. QED BY <2>1, <2>3
<1>5. adopted \in Place /\ moved \in Place /\ emptied \in Slot
  BY <1>1, BContents DEF BInv, BTypes, Place, Slot
<1>6. /\ places' \in [Places -> Place]
      /\ \A q \in Places : q # p => places'[q] = places[q]
      /\ places'[p] \in {adopted, moved}
      /\ slots' \in [Slots -> Slot]
      /\ \A c \in Slots : slots'[c] = IF c = b THEN emptied ELSE slots[c]
  <2> HIDE DEF adopted, moved, emptied
  <2>. QED BY <1>3, <1>4, <1>5 DEF BInv, BTypes
<1>7. /\ frees' \in Seq(Nat) /\ Len(frees') = Len(kinds)
      /\ \A w \in DOMAIN kinds : frees'[w] = IF w = d /\ places'[p].data = 0 THEN frees[w] + 1 ELSE frees[w]
  <2>1. CASE frees' = frees /\ places' = [places EXCEPT ![p] = adopted]
    <3>1. places'[p].data = d
      BY <2>1 DEF BInv, BTypes
    <3>. QED BY <1>1, <2>1, <3>1 DEF BInv, BTypes
  <2>2. CASE frees' = B!Delete(d) /\ places' = [places EXCEPT ![p] = moved]
    <3>1. places'[p].data = 0
      BY <2>2 DEF BInv, BTypes
    <3>. QED BY <1>1, <2>2, <3>1, DeleteEffect DEF BInv
  <2>. QED BY <1>3, <2>1, <2>2
<1>8. BTypes'
  BY <1>3, <1>6, <1>7 DEF BInv, BTypes, Slot, Place
<1>9. PointersValid'
  BY <1>6 DEF BInv, PointersValid
<1>10. ASSUME NEW v \in DOMAIN kinds'
       PROVE  OneOwner(v)'
  <2>1. OneOwner(v) /\ v # 0
    BY <1>3 DEF BInv, BTypes
  <2>2. \A c \in Slots : slots'[c].data = IF c = b THEN 0 ELSE slots[c].data
    BY <1>6
  <2>3. /\ \A q \in Places : q # p => places'[q].data = places[q].data
        /\ places'[p].data \in {0, d}
    BY <1>6
  <2>4. frees'[v] = IF v = d /\ places'[p].data = 0 THEN frees[v] + 1 ELSE frees[v]
    BY <1>3, <1>7
  <2> HIDE DEF d
  <2>5. (d = v) = (slots[b].data = v)
    BY DEF d
  <2>. QED BY <1>1, <1>2, <2>1, <2>2, <2>3, <2>4, <2>5 DEF OneOwner
<1>. QED BY <1>8, <1>9, <1>10 DEF BInv

\* DestroyCollection: what the collection had is deleted.
LEMMA DestroyCollectionB ==
  ASSUME BInv, NEW p \in Places, B!DestroyCollection(p)
  PROVE  BInv'
<1>1. /\ frees' \in Seq(Nat) /\ Len(frees') = Len(kinds)
      /\ \A w \in DOMAIN kinds : frees'[w] = IF w = places[p].data THEN frees[w] + 1 ELSE frees[w]
  BY BContents, DeleteEffect DEF BInv, B!DestroyCollection
<1>2. places' = [places EXCEPT ![p] = B!NoCollection] /\ UNCHANGED <<kinds, slots>>
  BY DEF B!DestroyCollection
<1>3. BTypes'
  BY <1>1, <1>2, BContents DEF BInv, BTypes, Slot, Place
<1>4. \A q \in Places : places'[q] = IF q = p THEN B!NoCollection ELSE places[q]
  BY <1>2 DEF BInv, BTypes
<1>5. PointersValid'
  BY <1>2, <1>4 DEF BInv, PointersValid, B!NoCollection
<1>6. ASSUME NEW v \in DOMAIN kinds'
      PROVE  OneOwner(v)'
  <2>1. OneOwner(v) /\ v # 0
    BY <1>2 DEF BInv, BTypes
  <2>2. \A q \in Places : places'[q].data = IF q = p THEN 0 ELSE places[q].data
    BY <1>4 DEF B!NoCollection
  <2>3. frees'[v] = IF v = places[p].data THEN frees[v] + 1 ELSE frees[v]
    BY <1>1, <1>2
  <2>. QED BY <1>2, <2>1, <2>2, <2>3 DEF OneOwner
<1>. QED BY <1>3, <1>5, <1>6 DEF BInv

\* NewUserData, ChangeUserData and GetBuffers: no vector changes hands.
LEMMA UserDataB ==
  ASSUME BInv, NEW p \in Places, NEW n \in Nat,
         \/ B!NewUserData(p, n) \/ B!ChangeUserData(p, n) \/ B!GetBuffers(p)
  PROVE  BInv'
<1>1. UNCHANGED <<kinds, frees, slots>>
  BY DEF B!NewUserData, B!ChangeUserData, B!GetBuffers
<1>2. \A q \in Places : q # p => places'[q] = places[q]
  BY DEF BInv, BTypes, B!NewUserData, B!ChangeUserData, B!GetBuffers
<1>3. places' \in [Places -> Place] /\ places'[p].kind = "user" /\ places'[p].data = places[p].data
  <2>1. CASE B!NewUserData(p, n)
    <3>1. places[p].data = 0
      BY <2>1 DEF BInv, PointersValid, B!NewUserData
    <3>2. places' = [places EXCEPT ![p] = [kind |-> "user", data |-> 0, size |-> n, vecPtr |-> "null"]]
      <4>1. [B!NoCollection EXCEPT !.kind = "user", !.size = n] =
              [kind |-> "user", data |-> 0, size |-> n, vecPtr |-> "null"]
        <5>1. [B!NoCollection EXCEPT !.kind = "user"] = [kind |-> "user", data |-> 0, size |-> 0, vecPtr |-> "null"]
          BY DEF B!NoCollection
        <5>2. [[kind |-> "user", data |-> 0, size |-> 0, vecPtr |-> "null"] EXCEPT !.size = n] =
                [kind |-> "user", data |-> 0, size |-> n, vecPtr |-> "null"]
          OBVIOUS
        <5>3. [B!NoCollection EXCEPT !.kind = "user", !.size = n] =
                [[B!NoCollection EXCEPT !.kind = "user"] EXCEPT !.size = n]
          BY DEF B!NoCollection
        <5>. QED BY <5>1, <5>2, <5>3
      <4>. QED BY <2>1, <4>1 DEF B!NewUserData
    <3>3. [kind |-> "user", data |-> 0, size |-> n, vecPtr |-> "null"] \in Place
      BY BContents DEF BInv, Place
    <3>4. places'[p] = [kind |-> "user", data |-> 0, size |-> n, vecPtr |-> "null"]
      BY <3>2 DEF BInv, BTypes
    <3>. QED BY <3>1, <3>2, <3>3, <3>4 DEF BInv, BTypes
  <2>2. CASE B!ChangeUserData(p, n)
    <3>1. /\ places[p] \in Place /\ places[p].kind = "user"
          /\ places' = [places EXCEPT ![p] = [places[p] EXCEPT !.size = n]]
      BY <2>2 DEF BInv, BTypes, B!ChangeUserData
    <3>2. /\ [places[p] EXCEPT !.size = n] \in Place
          /\ [places[p] EXCEPT !.size = n].kind = "user"
          /\ [places[p] EXCEPT !.size = n].data = places[p].data
      BY <3>1 DEF Place
    <3>. QED BY <3>1, <3>2 DEF BInv, BTypes
  <2>3. CASE B!GetBuffers(p)
    <3>1. /\ places[p] \in Place /\ places[p].kind = "user"
          /\ places' = [places EXCEPT ![p] = [places[p] EXCEPT !.vecPtr = p]]
      BY <2>3 DEF BInv, BTypes, B!GetBuffers, B!VecPtr
    <3>2. /\ [places[p] EXCEPT !.vecPtr = p] \in Place
          /\ [places[p] EXCEPT !.vecPtr = p].kind = "user"
          /\ [places[p] EXCEPT !.vecPtr = p].data = places[p].data
      BY <3>1 DEF Place
    <3>. QED BY <3>1, <3>2 DEF BInv, BTypes
  <2>. QED BY <2>1, <2>2, <2>3
<1>4. BTypes'
  BY <1>1, <1>3 DEF BInv, BTypes, Slot, Place
<1>5. PointersValid'
  BY <1>1, <1>2, <1>3 DEF BInv, PointersValid
<1>6. ASSUME NEW v \in DOMAIN kinds'
      PROVE  OneOwner(v)'
  <2>1. OneOwner(v)
    BY <1>1 DEF BInv
  <2>2. \A q \in Places : places'[q].data = places[q].data
    BY <1>2, <1>3
  <2>. QED BY <1>1, <2>1, <2>2 DEF OneOwner
<1>. QED BY <1>4, <1>5, <1>6 DEF BInv

\* MoveCollection: the vector goes with the collection, and nothing is left of it.
LEMMA MoveCollectionB ==
  ASSUME BInv, NEW p \in Places, NEW from \in Places, B!MoveCollection(p, from)
  PROVE  BInv'
<1> DEFINE left == [places[from] EXCEPT !.data = 0, !.size = 0]
<1>1. p # from /\ places[p].data = 0 /\ places' = [places EXCEPT ![p] = places[from], ![from] = left]
      /\ UNCHANGED <<kinds, frees, slots>>
  BY DEF BInv, PointersValid, B!MoveCollection
<1>2. places[from] \in Place
  BY DEF BInv, BTypes
<1>3. left \in Place /\ left.data = 0
  <2>1. 0 \in 0 .. Len(kinds) /\ 0 \in Nat
    BY BContents DEF BInv
  <2>2. left = [kind |-> places[from].kind, data |-> 0, size |-> 0, vecPtr |-> places[from].vecPtr]
    <3>1. [places[from] EXCEPT !.data = 0] =
            [kind |-> places[from].kind, data |-> 0, size |-> places[from].size, vecPtr |-> places[from].vecPtr]
      BY <1>2 DEF Place
    <3>2. [[kind |-> places[from].kind, data |-> 0, size |-> places[from].size, vecPtr |-> places[from].vecPtr]
             EXCEPT !.size = 0] =
            [kind |-> places[from].kind, data |-> 0, size |-> 0, vecPtr |-> places[from].vecPtr]
      OBVIOUS
    <3>3. left = [[places[from] EXCEPT !.data = 0] EXCEPT !.size = 0]
      BY <1>2 DEF Place
    <3>. QED BY <3>1, <3>2, <3>3
  <2>3. [kind |-> places[from].kind, data |-> 0, size |-> 0, vecPtr |-> places[from].vecPtr] \in Place
    BY <1>2, <2>1 DEF Place
  <2>. QED BY <2>2, <2>3
<1>4. /\ places' \in [Places -> Place]
      /\ \A q \in Places : places'[q] = IF q = p THEN places[from] ELSE IF q = from THEN left ELSE places[q]
  <2> HIDE DEF left
  <2>. QED BY <1>1, <1>2, <1>3 DEF BInv, BTypes
<1>5. BTypes'
  BY <1>1, <1>4 DEF BInv, BTypes, Slot, Place
<1>6. PointersValid'
  <2> HIDE DEF left
  <2>. QED BY <1>1, <1>3, <1>4 DEF BInv, PointersValid
<1>7. ASSUME NEW v \in DOMAIN kinds'
      PROVE  OneOwner(v)'
  <2>1. OneOwner(v) /\ v # 0
    BY <1>1 DEF BInv, BTypes
  <2>2. \A q \in Places : places'[q].data = IF q = p THEN places[from].data ELSE IF q = from THEN 0 ELSE places[q].data
    BY <1>3, <1>4
  <2>3. \A q \in Places : places'[q].data = v <=>
      (q = p /\ places[from].data = v) \/ (q \notin {p, from} /\ places[q].data = v)
    BY <2>1, <2>2
  <2>4. (\E q \in Places : places'[q].data = v) <=> (\E q \in Places : places[q].data = v)
    BY <1>1, <2>1, <2>3
  <2>5. \A c, d \in Places : places'[c].data = v /\ places'[d].data = v => c = d
    BY <2>1, <2>3 DEF OneOwner
  <2>6. \A c \in Places, d \in Slots : ~ (places'[c].data = v /\ slots'[d].data = v)
    BY <1>1, <2>1, <2>3 DEF OneOwner
  <2>7. /\ frees'[v] \in {0, 1} /\ frees'[v] = frees[v]
        /\ \A c, d \in Slots : slots'[c].data = v /\ slots'[d].data = v => c = d
    BY <1>1, <2>1 DEF OneOwner
  <2>8. frees'[v] = 0 <=> (\E c \in Slots : slots'[c].data = v) \/ (\E d \in Places : places'[d].data = v)
    BY <1>1, <2>1, <2>4 DEF OneOwner
  <2>. QED BY <2>5, <2>6, <2>7, <2>8 DEF OneOwner
<1>. QED BY <1>5, <1>6, <1>7 DEF BInv

\* Nothing happens to the buffers when something else is looked at.
LEMMA BUnchanged ==
  ASSUME BInv, UNCHANGED bufVars
  PROVE  BInv'
  BY DEF BInv, BTypes, Slot, Place, PointersValid, OneOwner, bufVars

\* Every step of the buffers preserves the invariant.
LEMMA BNext ==
  ASSUME BInv, B!Next
  PROVE  BInv'
<1>1. ASSUME NEW b \in Slots, NEW kind \in {"user", "links"}, B!CreateBuffers(b, kind)
      PROVE  BInv'
  BY <1>1, CreateBuffersB
<1>2. ASSUME NEW b \in Slots, NEW from \in Slots, B!MoveConstruct(b, from) \/ B!MoveAssign(b, from)
      PROVE  BInv'
  BY <1>2, MoveConstructB, MoveAssignB
<1>3. ASSUME NEW b \in Slots, B!Destroy(b)
      PROVE  BInv'
  BY <1>3, DestroyB
<1>4. ASSUME NEW b \in Slots, NEW p \in Places, B!CreateCollection(b, p)
      PROVE  BInv'
  BY <1>4, CreateCollectionB
<1>5. ASSUME NEW p \in Places, NEW n \in 0 .. MaxValues, B!NewUserData(p, n) \/ B!ChangeUserData(p, n)
      PROVE  BInv'
  BY <1>5, UserDataB, n \in Nat
<1>6. ASSUME NEW p \in Places, NEW from \in Places, B!MoveCollection(p, from)
      PROVE  BInv'
  BY <1>6, MoveCollectionB
<1>7. ASSUME NEW p \in Places, B!AskBuffers(p) \/ B!Bind(p)
      PROVE  BInv'
  BY <1>7, UserDataB, 0 \in Nat DEF B!AskBuffers, B!Bind
<1>8. ASSUME NEW p \in Places, B!DestroyCollection(p)
      PROVE  BInv'
  BY <1>8, DestroyCollectionB
<1>9. CASE B!Fill
  BY <1>9 DEF B!Fill, BInv, BTypes, Slot, Place, PointersValid, OneOwner
<1>. QED BY <1>1, <1>2, <1>3, <1>4, <1>5, <1>6, <1>7, <1>8, <1>9 DEF B!Next

\* A set with one element and at most one has a cardinality of 1.
LEMMA SameCardinality ==
  ASSUME NEW S
  PROVE  B!Cardinality(S) = Cardinality(S)
  BY DEF Cardinality, B!Cardinality

\* With at most one owner among each kind, the owners are counted: 1 or none.
LEMMA OwnersCounted ==
  ASSUME BInv
  PROVE  BuffersOwnedOnce
<1> SUFFICES ASSUME NEW v \in DOMAIN kinds
             PROVE  frees[v] + B!Owners(v) = 1
  BY DEF BuffersOwnedOnce, B!BuffersOwnedOnce, B!Vectors
<1> DEFINE S == {b \in Slots : slots[b].data = v}
           T == {p \in Places : places[p].data = v}
<1>1. OneOwner(v)
  BY DEF BInv
<1>2. B!Owners(v) = Cardinality(S) + Cardinality(T)
  BY SameCardinality DEF B!Owners
<1>3. Cardinality({}) = 0
  BY FS_EmptySet
<1>4. CASE frees[v] = 1
  <2>1. S = {} /\ T = {}
    BY <1>1, <1>4 DEF OneOwner
  <2> HIDE DEF S, T
  <2>. QED BY <1>2, <1>3, <1>4, <2>1
<1>5. CASE frees[v] = 0
  <2>1. CASE \E b \in Slots : slots[b].data = v
    <3>1. PICK b \in Slots : slots[b].data = v
      BY <2>1
    <3>2. S = {b} /\ T = {}
      BY <1>1, <3>1 DEF OneOwner
    <3>3. Cardinality({b}) = 1
      BY FS_Singleton
    <3> HIDE DEF S, T
    <3>. QED BY <1>2, <1>3, <1>5, <3>2, <3>3
  <2>2. CASE \E p \in Places : places[p].data = v
    <3>1. PICK p \in Places : places[p].data = v
      BY <2>2
    <3>2. T = {p} /\ S = {}
      BY <1>1, <3>1 DEF OneOwner
    <3>3. Cardinality({p}) = 1
      BY FS_Singleton
    <3> HIDE DEF S, T
    <3>. QED BY <1>2, <1>3, <1>5, <3>2, <3>3
  <2>. QED BY <1>1, <1>5, <2>1, <2>2 DEF OneOwner
<1>. QED BY <1>1, <1>4, <1>5 DEF OneOwner

\* Every vector of data that read buffers or collections have is owned once or was
\* deleted, once, whatever is created, moved, adopted, or destroyed in whatever
\* order: the destructor, the move operations and deleteBuffers of
\* CollectionReadBuffers, and the collections that are made of them.
THEOREM VectorsOwnedOnce == MemorySpec => []BuffersOwnedOnce
<1>1. MemoryInit => BInv
  BY BInit DEF MemoryInit
<1>2. BInv /\ [MemoryNext]_memoryVars => BInv'
  BY BNext, BUnchanged DEF MemoryNext, memoryVars, OnHandles
<1>3. BInv => BuffersOwnedOnce
  BY OwnersCounted
<1>. QED BY <1>1, <1>2, <1>3, PTL DEF MemorySpec

\* What a writer has bound leads to the vector of that collection: getBuffers has
\* set the member, and neither the collection nor its member is moved or copied to
\* until it is written.
Bound ==
  \A p \in DOMAIN bound :
    p \in Places /\ places[p].kind = "user" /\ places[p].vecPtr = p /\ bound[p] \in {"vecPtr", p}

\* The inductive invariant, along with BInv.
WInv == Bound /\ WrittenIsCurrent

\* Bind: the member points to the own vector, and what was bound before is as it was.
LEMMA BindW ==
  ASSUME BInv, Bound, NEW p \in Places, B!Bind(p)
  PROVE  WInv'
<1>1. /\ places[p].kind = "user"
      /\ places' = [places EXCEPT ![p].vecPtr = p]
      /\ filled' = B!Nothing
      /\ DOMAIN bound' = DOMAIN bound \cup {p}
      /\ \A q \in DOMAIN bound \cup {p} : (q # p /\ bound'[q] = bound[q]) \/ (q = p /\ bound'[q] \in {"vecPtr", p})
  BY DEF B!Bind, B!GetBuffers, B!VecPtr
<1>2. /\ places'[p].vecPtr = p /\ places'[p].kind = "user"
      /\ \A q \in Places : q # p => places'[q] = places[q]
  BY <1>1 DEF BInv, BTypes, Place
<1>3. Bound'
  BY <1>1, <1>2 DEF Bound
<1>4. WrittenIsCurrent'
  BY <1>1 DEF WrittenIsCurrent, B!WrittenIsCurrent, B!Nothing
<1>. QED BY <1>3, <1>4 DEF WInv

\* Fill: the values are read where the collection has them.
LEMMA FillW ==
  ASSUME Bound, B!Fill
  PROVE  WInv'
<1>1. \A p \in DOMAIN bound : B!Source(p) = p
  BY DEF Bound, B!Source
<1>2. \A p \in DOMAIN bound, any \in 0 .. MaxValues : B!SizeAt(B!Source(p), any) = places[p].size
  BY <1>1 DEF Bound, B!SizeAt
<1>3. WrittenIsCurrent'
  BY <1>2 DEF WrittenIsCurrent, B!WrittenIsCurrent, B!Fill
<1>4. Bound'
  BY DEF Bound, B!Fill, B!Nothing
<1>. QED BY <1>3, <1>4 DEF WInv

\* A collection that is written stays where it is and as it is, whatever becomes of
\* the others; somebody else who gets its buffers points the member to the same vector.
LEMMA OthersW ==
  ASSUME BInv, WInv, UNCHANGED <<bound, filled>>, B!Next
  PROVE  WInv'
<1> DEFINE Same(p) == places'[p].kind = places[p].kind /\ places'[p].vecPtr = places[p].vecPtr
<1>1. SUFFICES ASSUME NEW p \in DOMAIN bound
               PROVE  Same(p)
  BY DEF WInv, Bound, WrittenIsCurrent, B!WrittenIsCurrent
<1>2. p \in Places /\ places[p].kind = "user" /\ places[p].vecPtr = p /\ B!Written(p)
  BY <1>1 DEF WInv, Bound, B!Written
<1>3. ASSUME NEW b \in Slots, NEW q \in Places, B!CreateCollection(b, q)
      PROVE  Same(p)
  <2>1. q # p
    BY <1>2, <1>3 DEF B!CreateCollection
  <2>2. \E c : places' = [places EXCEPT ![q] = c]
    BY <1>3 DEF B!CreateCollection, B!AdoptLinks, B!MoveUserData
  <2>. QED BY <1>2, <2>1, <2>2 DEF BInv, BTypes
<1>4. ASSUME NEW q \in Places, NEW n \in 0 .. MaxValues, B!NewUserData(q, n) \/ B!ChangeUserData(q, n)
      PROVE  Same(p)
  <2>1. q # p
    BY <1>2, <1>4 DEF B!NewUserData, B!ChangeUserData
  <2>2. \E c : places' = [places EXCEPT ![q] = c]
    BY <1>4 DEF B!NewUserData, B!ChangeUserData
  <2>. QED BY <1>2, <2>1, <2>2 DEF BInv, BTypes
<1>5. ASSUME NEW q \in Places, NEW from \in Places, B!MoveCollection(q, from)
      PROVE  Same(p)
  <2>1. q # p /\ from # p
    BY <1>2, <1>5 DEF B!MoveCollection
  <2>2. \E c, d : places' = [places EXCEPT ![q] = c, ![from] = d]
    BY <1>5 DEF B!MoveCollection
  <2>. QED BY <1>2, <2>1, <2>2 DEF BInv, BTypes
<1>6. ASSUME NEW q \in Places, B!GetBuffers(q)
      PROVE  Same(p)
  <2>1. places' = [places EXCEPT ![q] = [places[q] EXCEPT !.vecPtr = q]]
    BY <1>6 DEF B!GetBuffers, B!VecPtr
  <2>2. places[q] \in Place
    BY DEF BInv, BTypes
  <2>3. [places[q] EXCEPT !.vecPtr = q].vecPtr = q /\ [places[q] EXCEPT !.vecPtr = q].kind = places[q].kind
    BY <2>2 DEF Place
  <2>. QED BY <1>2, <2>1, <2>3 DEF BInv, BTypes
<1>7. ASSUME NEW q \in Places, B!DestroyCollection(q)
      PROVE  Same(p)
  <2>1. q # p
    BY <1>2, <1>7 DEF B!DestroyCollection
  <2>2. \E c : places' = [places EXCEPT ![q] = c]
    BY <1>7 DEF B!DestroyCollection
  <2>. QED BY <1>2, <2>1, <2>2 DEF BInv, BTypes
<1>8. CASE UNCHANGED places
  BY <1>8
<1> HIDE DEF Same
<1>. QED
  BY <1>3, <1>4, <1>5, <1>6, <1>7, <1>8
  DEF B!Next, B!CreateBuffers, B!MoveConstruct, B!MoveAssign, B!Destroy, B!AskBuffers, B!Bind, B!Fill

\* What is written of a UserDataCollection is what it has when it is written, though
\* a writer only keeps the address of a member that getBuffers set some time before:
\* whatever was moved, changed or destroyed in between, the member leads to the vector
\* of the collection that is written.
THEOREM WritesCurrent == MemorySpec => []WrittenIsCurrent
<1>1. MemoryInit => BInv /\ WInv
  BY BInit DEF MemoryInit, B!Init, B!Nothing, WInv, Bound, WrittenIsCurrent, B!WrittenIsCurrent
<1>2. ASSUME BInv, WInv, B!Next
      PROVE  WInv'
  <2>1. ASSUME NEW p \in Places, B!Bind(p)
        PROVE  WInv'
    BY <1>2, <2>1, BindW DEF WInv
  <2>2. CASE B!Fill
    BY <1>2, <2>2, FillW DEF WInv
  <2>3. CASE UNCHANGED <<bound, filled>>
    BY <1>2, <2>3, OthersW
  <2>. QED
    BY <1>2, <2>1, <2>2, <2>3 DEF B!Next, B!CreateBuffers, B!MoveConstruct, B!MoveAssign, B!Destroy,
         B!CreateCollection, B!NewUserData, B!ChangeUserData, B!MoveCollection, B!AskBuffers, B!DestroyCollection
<1>3. ASSUME BInv, WInv, UNCHANGED bufVars
      PROVE  WInv'
  BY <1>3 DEF WInv, Bound, WrittenIsCurrent, B!WrittenIsCurrent, bufVars
<1>4. BInv /\ WInv /\ [MemoryNext]_memoryVars => BInv' /\ WInv'
  BY <1>2, <1>3, BNext, BUnchanged DEF MemoryNext, memoryVars, OnHandles
<1>5. WInv => WrittenIsCurrent
  BY DEF WInv
<1>. QED BY <1>1, <1>4, <1>5, PTL DEF MemorySpec
-----------------------------------------------------------------------------
\* Where a thread can be.
Labels == {"idle", "copy", "keys", "given", "fill", "loaded"}

\* The maps are members of some set M, which grows when a parameter is set.
ParTypes(M) ==
  /\ P!NoMap \in M
  /\ maps \in [Types -> M]
  /\ heldBy \in [Types -> Threads \cup {P!Nobody}]
  /\ at \in [Threads -> Labels]
  /\ done \in [Threads -> SUBSET Types]
  /\ copy \in [Threads -> [Types -> M]]

\* A thread that copies has all locks, and what it has copied is what is there:
\* nobody changes a map until it is done.
CopiesUnderLocks ==
  \A r \in Threads : at[r] = "copy" =>
    /\ \A t \in Types : heldBy[t] = r
    /\ \A t \in done[r] : copy[r][t] = maps[t]

\* The inductive invariant.
CopyInv == (\E M : ParTypes(M)) /\ CopiesUnderLocks

\* Set: the map of a type is changed under its lock, so that nobody is copying.
LEMMA SetC ==
  ASSUME CopyInv, NEW t \in Types, NEW k \in Keys, P!Set(t, k)
  PROVE  CopyInv'
<1>1. /\ heldBy[t] = P!Nobody
      /\ UNCHANGED <<heldBy, at, done, copy>>
      /\ \E m : maps' = [maps EXCEPT ![t] = m]
  BY DEF P!Set, P!Free
<1>2. \A r \in Threads : at[r] # "copy"
  BY <1>1, ThreadsAssumption DEF CopyInv, CopiesUnderLocks
<1>3. PICK m : maps' = [maps EXCEPT ![t] = m]
  BY <1>1
<1>4. PICK M : ParTypes(M)
  BY DEF CopyInv
<1>5. ParTypes(M \cup {m})'
  <2> DEFINE N == M \cup {m}
  <2>1. maps' \in [Types -> N]
    BY <1>3, <1>4 DEF ParTypes
  <2>2. copy' \in [Threads -> [Types -> N]]
    BY <1>1, <1>4 DEF ParTypes
  <2>. QED BY <1>1, <1>4, <2>1, <2>2 DEF ParTypes
<1>. QED BY <1>1, <1>2, <1>5 DEF CopyInv, CopiesUnderLocks

\* StartCopy: all locks are taken at once, and nothing is copied yet.
LEMMA StartCopyC ==
  ASSUME CopyInv, NEW r \in Threads, P!StartCopy(r)
  PROVE  CopyInv'
<1>1. /\ heldBy' = [t \in Types |-> r]
      /\ done' = [done EXCEPT ![r] = {}]
      /\ at' = [at EXCEPT ![r] = "copy"]
      /\ UNCHANGED <<maps, copy>>
      /\ \A t \in Types : heldBy[t] = P!Nobody
  BY DEF P!StartCopy, P!LockAll, P!Goto, P!Free
<1>2. PICK M : ParTypes(M)
  BY DEF CopyInv
<1>3. ParTypes(M)'
  BY <1>1, <1>2 DEF ParTypes, Labels
<1>4. ASSUME NEW q \in Threads, at'[q] = "copy"
      PROVE  /\ \A t \in Types : heldBy'[t] = q
             /\ \A t \in done'[q] : copy'[q][t] = maps'[t]
  <2>1. CASE q = r
    BY <1>1, <1>2, <2>1 DEF ParTypes
  <2>2. CASE q # r
    <3>1. at[q] = "copy" /\ done'[q] = done[q] /\ done[q] \subseteq Types
      BY <1>1, <1>2, <1>4, <2>2 DEF ParTypes
    <3>2. Types = {}
      BY <1>1, <3>1, ThreadsAssumption DEF CopyInv, CopiesUnderLocks
    <3>. QED BY <3>1, <3>2
  <2>. QED BY <2>1, <2>2
<1>. QED BY <1>3, <1>4 DEF CopyInv, CopiesUnderLocks

\* CopyMap: one more map is copied.
LEMMA CopyMapC ==
  ASSUME CopyInv, NEW r \in Threads, NEW t \in Types, P!CopyMap(r, t)
  PROVE  CopyInv'
<1>1. /\ copy' = [copy EXCEPT ![r][t] = maps[t]]
      /\ done' = [done EXCEPT ![r] = done[r] \cup {t}]
      /\ UNCHANGED <<maps, heldBy, at>>
  BY DEF P!CopyMap
<1>2. PICK M : ParTypes(M)
  BY DEF CopyInv
<1>3. ParTypes(M)'
  BY <1>1, <1>2 DEF ParTypes, Labels
<1>4. ASSUME NEW q \in Threads, at'[q] = "copy", NEW u \in Types
      PROVE  heldBy'[u] = q /\ (u \in done'[q] => copy'[q][u] = maps'[u])
  <2>1. done'[q] = IF q = r THEN done[r] \cup {t} ELSE done[q]
    BY <1>1, <1>2 DEF ParTypes
  <2>2. copy'[q][u] = IF q = r /\ u = t THEN maps[t] ELSE copy[q][u]
    BY <1>1, <1>2 DEF ParTypes
  <2>. QED BY <1>1, <1>4, <2>1, <2>2 DEF CopyInv, CopiesUnderLocks
<1>5. \A q \in Threads : done'[q] \subseteq Types
  BY <1>3 DEF ParTypes
<1>. QED BY <1>3, <1>4, <1>5 DEF CopyInv, CopiesUnderLocks

\* EndCopy: the locks are let go.
LEMMA EndCopyC ==
  ASSUME CopyInv, NEW r \in Threads, P!EndCopy(r)
  PROVE  CopyInv'
<1>1. /\ heldBy' = [t \in Types |-> IF heldBy[t] = r THEN P!Nobody ELSE heldBy[t]]
      /\ copy' = [copy EXCEPT ![r] = [t \in Types |-> P!NoMap]]
      /\ done' = [done EXCEPT ![r] = {}]
      /\ at' = [at EXCEPT ![r] = "idle"]
      /\ UNCHANGED maps
  BY DEF P!EndCopy, P!Goto
<1>2. PICK M : ParTypes(M)
  BY DEF CopyInv
<1>3. ParTypes(M)'
  BY <1>1, <1>2 DEF ParTypes, Labels
<1>4. \A q \in Threads : at'[q] = "copy" => q # r /\ at[q] = "copy" /\ done'[q] = done[q] /\ copy'[q] = copy[q]
  BY <1>1, <1>2 DEF ParTypes
<1>5. \A q \in Threads : done'[q] \subseteq Types
  BY <1>3 DEF ParTypes
<1>. QED BY <1>1, <1>3, <1>4, <1>5 DEF CopyInv, CopiesUnderLocks

\* What a thread does that copies nothing and changes no map.
LEMMA OthersC ==
  ASSUME CopyInv, NEW r \in Threads, NEW label \in Labels, NEW types \in SUBSET Types,
         UNCHANGED <<maps, heldBy, copy>>,
         at[r] # "copy", label # "copy",
         at' = [at EXCEPT ![r] = label] \/ at' = at,
         done' = [done EXCEPT ![r] = types] \/ done' = done
  PROVE  CopyInv'
<1>1. PICK M : ParTypes(M)
  BY DEF CopyInv
<1>2. ParTypes(M)'
  BY <1>1 DEF ParTypes, Labels
<1>3. \A q \in Threads : at'[q] = "copy" => q # r /\ at[q] = "copy" /\ done'[q] = done[q]
  BY <1>1 DEF ParTypes
<1>. QED BY <1>2, <1>3 DEF CopyInv, CopiesUnderLocks

\* Every step of the parameters preserves the invariant.
LEMMA PNext ==
  ASSUME CopyInv, P!Next
  PROVE  CopyInv'
<1>1. ASSUME NEW t \in Types, NEW k \in Keys, P!Set(t, k)
      PROVE  CopyInv'
  BY <1>1, SetC
<1>2. ASSUME NEW r \in Threads, P!StartCopy(r) \/ P!EndCopy(r)
      PROVE  CopyInv'
  BY <1>2, StartCopyC, EndCopyC
<1>3. ASSUME NEW r \in Threads, NEW t \in Types, P!CopyMap(r, t)
      PROVE  CopyInv'
  BY <1>3, CopyMapC
<1>4. ASSUME NEW r \in Threads, P!DropKeys(r) \/ P!StartFill(r) \/ P!ReadEntry(r) \/ P!ReadBlock(r) \/ P!DropLoaded(r)
      PROVE  CopyInv'
  <2>1. /\ at[r] # "copy" /\ UNCHANGED <<maps, heldBy, copy>>
        /\ \E label \in {"idle", "fill", "loaded"} : at' = [at EXCEPT ![r] = label]
        /\ done' = [done EXCEPT ![r] = {}] \/ done' = done
    BY <1>4 DEF P!DropKeys, P!StartFill, P!ReadEntry, P!ReadBlock, P!DropLoaded, P!Goto, P!fileVars
  <2>2. PICK label \in {"idle", "fill", "loaded"} : at' = [at EXCEPT ![r] = label]
    BY <2>1
  <2>3. label \in Labels /\ label # "copy" /\ {} \in SUBSET Types
    BY <2>2 DEF Labels
  <2>. QED BY <2>1, <2>2, <2>3, OthersC
<1>5. ASSUME NEW r \in Threads, NEW t \in Types, P!StartGetKeys(r, t) \/ P!GetKeys(r, t) \/ P!FillParams(r, t)
      PROVE  CopyInv'
  <2>1. /\ at[r] # "copy" /\ UNCHANGED <<maps, heldBy, copy>>
        /\ \E label \in {"keys", "given"} : at' = [at EXCEPT ![r] = label] \/ at' = at
        /\ \E types \in {{t}, done[r] \cup {t}} : done' = [done EXCEPT ![r] = types] \/ done' = done
    BY <1>5 DEF P!StartGetKeys, P!GetKeys, P!FillParams, P!Goto, P!fileVars
  <2>2. PICK label \in {"keys", "given"} : at' = [at EXCEPT ![r] = label] \/ at' = at
    BY <2>1
  <2>3. PICK types \in {{t}, done[r] \cup {t}} : done' = [done EXCEPT ![r] = types] \/ done' = done
    BY <2>1
  <2>4. label \in Labels /\ label # "copy" /\ types \in SUBSET Types
    BY <2>2, <2>3 DEF CopyInv, ParTypes, Labels
  <2>. QED BY <2>1, <2>2, <2>3, <2>4, OthersC
<1>. QED BY <1>1, <1>2, <1>3, <1>4, <1>5 DEF P!Next

\* A finished copy has all maps, as they are.
LEMMA CopyInvSuffices == CopyInv => CopyIsSnapshot
  BY DEF CopyInv, ParTypes, CopiesUnderLocks, CopyIsSnapshot, P!CopyIsSnapshot

\* The locks that a thread has while it copies keep the maps as they are.
THEOREM CopyInvariant == MemorySpec => []CopyInv
<1>1. ASSUME MemoryInit
      PROVE  CopyInv
  <2> DEFINE M == {maps[t] : t \in Types} \cup {P!NoMap}
  <2>1. ParTypes(M)
    BY <1>1 DEF MemoryInit, P!Init, ParTypes, Labels
  <2>2. CopiesUnderLocks
    BY <1>1 DEF MemoryInit, P!Init, CopiesUnderLocks
  <2>. QED BY <2>1, <2>2 DEF CopyInv
<1>2. CopyInv /\ UNCHANGED parVars => CopyInv'
  BY DEF CopyInv, ParTypes, CopiesUnderLocks, parVars
<1>3. CopyInv /\ [MemoryNext]_memoryVars => CopyInv'
  BY <1>2, PNext DEF MemoryNext, memoryVars, OnHandles
<1>. QED BY <1>1, <1>3, PTL DEF MemorySpec

\* A copy of GenericParameters has all types of parameters as they were at one
\* moment: the copy constructor takes the mutexes of all the maps before it copies
\* the first, and setters take the one of theirs.
THEOREM CopiesAreSnapshots == MemorySpec => []CopyIsSnapshot
BY CopyInvariant, CopyInvSuffices, PTL

-----------------------------------------------------------------------------
(* Links.                                                                  *)

\* The sets that the values are from: an end of a link is an object or missing, a
\* weight is 1 or one that is set, and IDs are pairs.
Ends == DOMAIN ObjectIDs \cup {L!None}
Weights == {1} \cup {Values[n].weight : n \in 1 .. MaxLinks}
IDs == [index : Int, coll : Int]
LinkObjects == [id : IDs, weight : Weights, from : Ends, to : Ends]
LinkValues == [from : Ends, to : Ends, weight : Weights]
Collections ==
  [subset : BOOLEAN, id : Int, prepared : BOOLEAN, entries : Seq(Int), data : Seq(Weights), refs : Seq(Seq(IDs))]
Files == [written : BOOLEAN, subset : BOOLEAN, id : Int, data : Seq(Weights), refs : Seq(Seq(IDs))]

\* The type invariant.  MaxLinks bounds what is made, not what is read.
LinkTypes ==
  /\ mode \in {"build", "read"}
  /\ objs \in Seq(LinkObjects)
  /\ mode = "build" => Len(objs) <= MaxLinks
  /\ colls \in [Colls -> Collections]
  /\ asPrepared \in [Colls -> Seq(IDs \cup LinkValues)]
  /\ file \in [Colls -> Files]
  /\ resolved \subseteq Colls
  /\ rewritten \in [Colls -> Files]

\* TrackedByPosition of a collection, and that its links exist.
Tracked(c) ==
  ~ colls[c].subset =>
    \A k \in DOMAIN colls[c].entries :
      /\ colls[c].entries[k] \in DOMAIN objs
      /\ objs[colls[c].entries[k]].id = L!ID(k - 1, colls[c].id)

\* No link is in two normal collections, which is why an ID says where it is.
Apart(c, d) ==
  c # d /\ ~ colls[c].subset /\ ~ colls[d].subset =>
    \A i \in DOMAIN colls[c].entries, j \in DOMAIN colls[d].entries : colls[c].entries[i] # colls[d].entries[j]

\* Buffers and what was prepared: the IDs of the links of a subset collection; or
\* the weights, and the IDs of the objects at either end.
Matches(subset, data, refs, prep) ==
  IF subset THEN prep \in Seq(IDs) /\ refs = <<prep>>
  ELSE /\ prep \in Seq(LinkValues)
       /\ data = [k \in DOMAIN prep |-> prep[k].weight]
       /\ refs = << [k \in DOMAIN prep |-> L!GetObjectID(prep[k].from)],
                    [k \in DOMAIN prep |-> L!GetObjectID(prep[k].to)] >>

\* While the collections are filled: an ID that says a link is in a collection and a
\* frame says in which one, and that one is not a subset collection.
Placed(id) ==
  id.index >= 0 =>
    \/ id.coll = 0
    \/ \E d \in Colls : id.coll = L!CollectionID(d) /\ colls[d].id = id.coll /\ ~ colls[d].subset

\* What is known of a collection before anything is read: its buffers are what it
\* was when it was prepared, if it was, and no data are left otherwise (the first
\* prepareForWrite appends to them); what is in the file are these buffers; and the
\* links of a subset collection are in some normal collection.
Built(c) ==
  /\ colls[c].id \in {0, L!CollectionID(c)}
  /\ IF colls[c].prepared
     THEN /\ Matches(colls[c].subset, colls[c].data, colls[c].refs, asPrepared[c])
          /\ Len(asPrepared[c]) <= Len(colls[c].entries)
          /\ colls[c].subset => \A k \in DOMAIN asPrepared[c] : asPrepared[c][k].index >= 0 /\ Placed(asPrepared[c][k])
     ELSE colls[c].data = <<>>
  /\ file[c].written => colls[c].prepared /\ colls[c].id # 0 /\ file[c] = L!GetBuffers(colls[c])
  /\ colls[c].subset => \A k \in DOMAIN colls[c].entries : /\ colls[c].entries[k] \in DOMAIN objs
                                                           /\ objs[colls[c].entries[k]].id.index >= 0
  /\ ~ rewritten[c].written

BuildInv ==
  /\ \A c \in Colls : Built(c)
  /\ \A o \in DOMAIN objs : Placed(objs[o].id)
  /\ resolved = {}

\* The same of what was written: the collection that an ID is of is a normal one
\* in the file, if it is there.
PlacedInFile(id) ==
  /\ id.index >= 0
  /\ \/ id.coll = 0
     \/ \E d \in Colls : id.coll = L!CollectionID(d) /\ (file[d].written => ~ file[d].subset)

\* What is in the file is what was prepared.
FileInv(c) ==
  file[c].written =>
    /\ file[c].id = L!CollectionID(c)
    /\ Matches(file[c].subset, file[c].data, file[c].refs, asPrepared[c])
    /\ file[c].subset => \A k \in DOMAIN asPrepared[c] : PlacedInFile(asPrepared[c][k])

\* The links of a normal collection are those that were written.
LinksRead(c) ==
  /\ Len(colls[c].entries) = Len(asPrepared[c])
  /\ \A k \in DOMAIN colls[c].entries :
       LET o == objs[colls[c].entries[k]] IN
       /\ o.weight = asPrepared[c][k].weight
       /\ L!SameOrGone(o.from, asPrepared[c][k].from)
       /\ L!SameOrGone(o.to, asPrepared[c][k].to)

\* A subset collection has nothing before it has its references, and then a link
\* with the right ID for each, unless there is none.
SubsetRead(c) ==
  IF c \notin resolved THEN colls[c].entries = <<>>
  ELSE /\ Len(colls[c].entries) = Len(asPrepared[c])
       /\ \A k \in DOMAIN colls[c].entries :
            \/ colls[c].entries[k] \in {L!NotPresent, L!Outside}
            \/ colls[c].entries[k] \in DOMAIN objs /\ objs[colls[c].entries[k]].id = asPrepared[c][k]

\* What is known of a collection in a process that reads: it was not read yet, or
\* it still has the buffers of the file and is marked as prepared, so that it is
\* never prepared again.
Read(c) ==
  /\ FileInv(c)
  /\ IF colls[c].id = 0 THEN colls[c] = L!NewCollection /\ c \notin resolved
     ELSE /\ file[c].written /\ colls[c].prepared /\ L!GetBuffers(colls[c]) = file[c]
          /\ IF colls[c].subset THEN SubsetRead(c) ELSE LinksRead(c)
  /\ rewritten[c].written => rewritten[c] = file[c]

\* The inductive invariant.
LinkInv ==
  /\ LinkTypes
  /\ \A c \in Colls : Tracked(c)
  /\ \A c, d \in Colls : Apart(c, d)
  /\ mode = "build" => BuildInv
  /\ mode = "read" => \A c \in Colls : Read(c)
-----------------------------------------------------------------------------
\* Collections have different IDs, and none has the ID 0.
LEMMA CollectionIDs ==
  /\ \A c \in Colls : L!CollectionID(c) \in Int /\ L!CollectionID(c) # 0
  /\ \A c, d \in Colls : L!CollectionID(c) = L!CollectionID(d) => c = d
<1> DEFINE n == Cardinality(Colls)
           seq == L!SetToSeq(Colls)
<1>1. IsFiniteSet(Colls) /\ n \in Nat /\ ExistsBijection(1 .. n, Colls)
  BY LinksAssumption, FS_CardinalityType
<1>2. IsFiniteSet(1 .. n) /\ Cardinality(1 .. n) = n
  BY <1>1, FS_Interval
<1>3. \E f \in [1 .. n -> Colls] : \A a, b \in DOMAIN f : f[a] = f[b] => a = b
  BY <1>1 DEF ExistsBijection, Bijection, Injection, IsInjective
<1>4. seq = CHOOSE f \in [1 .. n -> Colls] : \A a, b \in DOMAIN f : f[a] = f[b] => a = b
  BY DEF L!SetToSeq, L!IsInjective, L!Cardinality, Cardinality
<1>5. seq \in [1 .. n -> Colls] /\ \A a, b \in 1 .. n : seq[a] = seq[b] => a = b
  BY <1>3, <1>4
<1>6. seq \in Injection(1 .. n, Colls)
  BY <1>5 DEF Injection, IsInjective
<1>7. \A c \in Colls : \E i \in 1 .. n : seq[i] = c
  BY <1>1, <1>2, <1>6, FS_Injection DEF Surjection
<1>8. \A c \in Colls : \E i \in 1 .. n : seq[i] = c /\ L!CollectionID(c) = 100 + i
  <2> SUFFICES ASSUME NEW c \in Colls
               PROVE  \E i \in 1 .. n : seq[i] = c /\ L!CollectionID(c) = 100 + i
    OBVIOUS
  <2>1. L!CollectionID(c) = 100 + CHOOSE i \in DOMAIN seq : seq[i] = c
    BY DEF L!CollectionID
  <2> HIDE DEF seq, n
  <2>2. DOMAIN seq = 1 .. n
    BY <1>5
  <2>. QED BY <1>7, <2>1, <2>2
<1>. HIDE DEF n, seq
<1>. QED BY <1>1, <1>8

\* A function on 1 .. n is a sequence.
LEMMA IsASeq ==
  ASSUME NEW S, NEW n \in Nat, NEW f \in [1 .. n -> S]
  PROVE  f \in Seq(S) /\ Len(f) = n /\ DOMAIN f = 1 .. n
  OBVIOUS

\* Sequences with the same domain have the same length.
LEMMA SameLength ==
  ASSUME NEW S, NEW T, NEW s \in Seq(S), NEW t \in Seq(T), DOMAIN s = DOMAIN t
  PROVE  Len(s) = Len(t)
<1> DEFINE a == Len(s)
           b == Len(t)
<1>1. a \in Nat /\ b \in Nat /\ DOMAIN s = 1 .. a /\ DOMAIN t = 1 .. b
  OBVIOUS
<1> HIDE DEF a, b
<1>2. 1 .. a = 1 .. b
  BY <1>1
<1>3. a <= b
  BY <1>1, <1>2
<1>4. b <= a
  BY <1>1, <1>2
<1>5. a = b
  BY <1>1, <1>3, <1>4
<1>. QED BY <1>5 DEF a, b

\* The members of a LinkObj, and what becomes of it when one of them is set.
LEMMA LinkFields ==
  ASSUME NEW l \in LinkObjects
  PROVE  /\ l.id \in IDs /\ l.id.index \in Int /\ l.id.coll \in Int
         /\ l.weight \in Weights /\ l.from \in Ends /\ l.to \in Ends
         /\ \A i \in IDs : [l EXCEPT !.id = i] = [id |-> i, weight |-> l.weight, from |-> l.from, to |-> l.to]
         /\ \A x \in Int : [l EXCEPT !.id.coll = x] =
                             [id |-> L!ID(l.id.index, x), weight |-> l.weight, from |-> l.from, to |-> l.to]
         /\ \A i \in IDs : [id |-> i, weight |-> l.weight, from |-> l.from, to |-> l.to] \in LinkObjects
         /\ \A w \in Weights, f \in Ends, t \in Ends : [id |-> l.id, weight |-> w, from |-> f, to |-> t] \in LinkObjects
  BY DEF LinkObjects, IDs, L!ID

\* The members of a collection.
LEMMA CollectionFields ==
  ASSUME NEW r \in Collections
  PROVE  /\ r.subset \in BOOLEAN /\ r.id \in Int /\ r.prepared \in BOOLEAN
         /\ r.entries \in Seq(Int) /\ r.data \in Seq(Weights) /\ r.refs \in Seq(Seq(IDs))
  BY DEF Collections

\* A collection with other entries.
LEMMA EntriesChanged ==
  ASSUME NEW r \in Collections, NEW entriesNew \in Seq(Int)
  PROVE  /\ [r EXCEPT !.entries = entriesNew] =
              [subset |-> r.subset, id |-> r.id, prepared |-> r.prepared, entries |-> entriesNew, data |-> r.data,
               refs |-> r.refs]
         /\ [r EXCEPT !.entries = entriesNew] \in Collections
<1>1. [r EXCEPT !.entries = entriesNew] =
        [subset |-> r.subset, id |-> r.id, prepared |-> r.prepared, entries |-> entriesNew, data |-> r.data,
         refs |-> r.refs]
  BY SMTT(30) DEF Collections
<1>2. [subset |-> r.subset, id |-> r.id, prepared |-> r.prepared, entries |-> entriesNew, data |-> r.data,
       refs |-> r.refs] \in Collections
  BY DEF Collections
<1>. QED BY <1>1, <1>2

\* The buffers are filled.
LEMMA BuffersChanged ==
  ASSUME NEW r \in Collections, NEW x, NEW y
  PROVE  [r EXCEPT !.data = x, !.refs = y] =
           [subset |-> r.subset, id |-> r.id, prepared |-> r.prepared, entries |-> r.entries, data |-> x, refs |-> y]
<1>1. ASSUME NEW n, n = [r EXCEPT !.data = x, !.refs = y]
      PROVE  n =
        [subset |-> r.subset, id |-> r.id, prepared |-> r.prepared, entries |-> r.entries, data |-> x, refs |-> y]
  BY <1>1 DEF Collections
<1>. QED BY <1>1

\* A collection with other values of other members.
LEMMA FieldsChanged ==
  ASSUME NEW r \in Collections, NEW x, NEW y
  PROVE  /\ [r EXCEPT !.subset = TRUE, !.data = x, !.refs = y] =
              [subset |-> TRUE, id |-> r.id, prepared |-> r.prepared, entries |-> r.entries, data |-> x, refs |-> y]
         /\ [r EXCEPT !.data = x, !.refs = y] =
              [subset |-> r.subset, id |-> r.id, prepared |-> r.prepared, entries |-> r.entries, data |-> x, refs |-> y]
         /\ [r EXCEPT !.refs = y] =
              [subset |-> r.subset, id |-> r.id, prepared |-> r.prepared, entries |-> r.entries, data |-> r.data,
               refs |-> y]
         /\ [r EXCEPT !.prepared = TRUE] =
              [subset |-> r.subset, id |-> r.id, prepared |-> TRUE, entries |-> r.entries, data |-> r.data,
               refs |-> r.refs]
         /\ [r EXCEPT !.id = y] =
              [subset |-> r.subset, id |-> y, prepared |-> r.prepared, entries |-> r.entries, data |-> r.data,
               refs |-> r.refs]
<1>1. ASSUME NEW n, n = [r EXCEPT !.subset = TRUE, !.data = x, !.refs = y]
      PROVE  n =
        [subset |-> TRUE, id |-> r.id, prepared |-> r.prepared, entries |-> r.entries, data |-> x, refs |-> y]
  BY <1>1 DEF Collections
<1>2. ASSUME NEW n, n = [r EXCEPT !.data = x, !.refs = y]
      PROVE  n =
        [subset |-> r.subset, id |-> r.id, prepared |-> r.prepared, entries |-> r.entries, data |-> x, refs |-> y]
  BY <1>2 DEF Collections
<1>3. ASSUME NEW n, n = [r EXCEPT !.refs = y]
      PROVE  n =
        [subset |-> r.subset, id |-> r.id, prepared |-> r.prepared, entries |-> r.entries, data |-> r.data, refs |-> y]
  BY <1>3 DEF Collections
<1>4. ASSUME NEW n, n = [r EXCEPT !.prepared = TRUE]
      PROVE  n =
        [subset |-> r.subset, id |-> r.id, prepared |-> TRUE, entries |-> r.entries, data |-> r.data, refs |-> r.refs]
  BY <1>4 DEF Collections
<1>5. ASSUME NEW n, n = [r EXCEPT !.id = y]
      PROVE  n =
        [subset |-> r.subset, id |-> y, prepared |-> r.prepared, entries |-> r.entries, data |-> r.data, refs |-> r.refs]
  BY <1>5 DEF Collections
<1>. QED BY <1>1, <1>2, <1>3, <1>4, <1>5, Zenon

\* A new link, a new collection and what is not written are of the right types.
LEMMA Made ==
  /\ L!NewLink = [id |-> L!ID(-1, -1), weight |-> 1, from |-> L!None, to |-> L!None]
  /\ L!NewLink \in LinkObjects
  /\ L!NewCollection \in Collections
  /\ L!NothingWritten \in Files
  /\ \A index, coll \in Int : L!ID(index, coll) \in IDs
<1>1. L!NewLink = [id |-> L!ID(-1, -1), weight |-> 1, from |-> L!None, to |-> L!None]
  BY DEF L!NewLink, L!Untracked
<1>2. \A index, coll \in Int : L!ID(index, coll) \in IDs
  BY DEF L!ID, IDs
<1>3. L!NewLink \in LinkObjects
  BY <1>1, <1>2 DEF LinkObjects, Weights, Ends
<1>4. L!NewCollection \in Collections /\ L!NothingWritten \in Files
  BY DEF L!NewCollection, Collections, L!NothingWritten, Files
<1>. QED BY <1>1, <1>2, <1>3, <1>4

\* What was put into a frame stays there.
FramesStay == \A d \in Colls : colls[d].id # 0 => colls'[d].id = colls[d].id /\ colls'[d].subset = colls[d].subset

\* No link gets out of its collection.
LinksStay == \A o \in DOMAIN objs : o \in DOMAIN objs' /\ (objs[o].id.index >= 0 => objs'[o].id.index >= 0)

\* An ID stays right as long as the collections are in their frames.
LEMMA PlacedStays ==
  ASSUME FramesStay
  PROVE  \A id : Placed(id) => Placed(id)'
  BY CollectionIDs DEF Placed, FramesStay

\* What an action leaves of a collection that it is not about.
LEMMA OtherBuilt ==
  ASSUME NEW c \in Colls, Built(c), FramesStay, LinksStay,
         colls'[c] = colls[c], asPrepared'[c] = asPrepared[c], file'[c] = file[c], rewritten'[c] = rewritten[c]
  PROVE  Built(c)'
  BY PlacedStays DEF Built, LinksStay

\* One more link that is in no collection.
LEMMA LooseLink ==
  ASSUME LinkInv, mode = "build", Len(objs) < MaxLinks,
         \E l \in LinkObjects : l.id = L!Untracked /\ objs' = Append(objs, l),
         UNCHANGED <<mode, colls, asPrepared, file, resolved, rewritten>>
  PROVE  LinkInv'
<1>1. PICK l \in LinkObjects : l.id = L!Untracked /\ objs' = Append(objs, l)
  OBVIOUS
<1>2. LinkTypes'
  BY <1>1, LinksAssumption DEF LinkInv, LinkTypes
<1>3. /\ DOMAIN objs' = DOMAIN objs \cup {Len(objs) + 1}
      /\ \A o \in DOMAIN objs : objs'[o] = objs[o]
      /\ objs'[Len(objs) + 1] = l
  BY <1>1 DEF LinkInv, LinkTypes
<1>4. \A c \in Colls : Tracked(c)'
  BY <1>3 DEF LinkInv, Tracked
<1>5. \A c, d \in Colls : Apart(c, d)'
  BY DEF LinkInv, Apart
<1>6. LinksStay /\ FramesStay
  BY <1>3 DEF LinksStay, FramesStay
<1>7. \A c \in Colls : Built(c)'
  BY <1>6, OtherBuilt DEF LinkInv, BuildInv
<1>8. \A o \in DOMAIN objs' : Placed(objs[o].id)'
  <2>1. l.id.index = -1
    BY <1>1 DEF L!Untracked, L!ID
  <2>. QED BY <1>3, <1>6, <2>1, PlacedStays DEF LinkInv, BuildInv, Placed
<1>. QED BY <1>2, <1>4, <1>5, <1>7, <1>8 DEF LinkInv, BuildInv

\* MakeLink.
LEMMA MakeLinkL ==
  ASSUME LinkInv, L!MakeLink
  PROVE  LinkInv'
<1>1. L!NewLink \in LinkObjects /\ L!NewLink.id = L!Untracked
  BY Made DEF L!Untracked
<1>. QED BY <1>1, LooseLink DEF L!MakeLink

\* Clone: the copy is in no collection.
LEMMA CloneL ==
  ASSUME LinkInv, NEW o \in DOMAIN objs, NEW r \in BOOLEAN, L!Clone(o, r)
  PROVE  LinkInv'
<1> DEFINE l == IF r THEN [objs[o] EXCEPT !.id = L!Untracked] ELSE [L!NewLink EXCEPT !.weight = objs[o].weight]
<1>1. objs[o] \in LinkObjects
  BY DEF LinkInv, LinkTypes
<1>2. L!Untracked \in IDs /\ objs[o].weight \in Weights /\ L!None \in Ends
  BY <1>1, Made, LinkFields DEF L!Untracked, Ends
<1>3. [objs[o] EXCEPT !.id = L!Untracked] =
        [id |-> L!Untracked, weight |-> objs[o].weight, from |-> objs[o].from, to |-> objs[o].to]
  BY <1>1, <1>2, LinkFields
<1>4. [L!NewLink EXCEPT !.weight = objs[o].weight] =
        [id |-> L!Untracked, weight |-> objs[o].weight, from |-> L!None, to |-> L!None]
  BY Made DEF L!Untracked
<1>5. l \in LinkObjects /\ l.id = L!Untracked
  BY <1>1, <1>2, <1>3, <1>4 DEF LinkObjects
<1>. HIDE DEF l
<1>6. objs' = Append(objs, l)
  BY DEF L!Clone, l
<1>. QED BY <1>5, <1>6, LooseLink DEF L!Clone

\* SetLink: what may be set is not the ID, and changes no buffer.
LEMMA SetLinkL ==
  ASSUME LinkInv, NEW o \in DOMAIN objs, L!SetLink(o)
  PROVE  LinkInv'
<1>1. objs[o] \in LinkObjects /\ o \in 1 .. MaxLinks
  BY LinksAssumption DEF LinkInv, LinkTypes, L!SetLink
<1> DEFINE l == [id |-> objs[o].id, weight |-> Values[o].weight, from |-> Values[o].from, to |-> Values[o].to]
<1>2. l \in LinkObjects
  <2>1. Values[o].weight \in Weights /\ Values[o].from \in Ends /\ Values[o].to \in Ends
    BY <1>1, LinksAssumption DEF Weights, Ends
  <2>. QED BY <1>1, <2>1, LinkFields
<1>3. objs' = [objs EXCEPT ![o] = l]
  <2>1. objs' = [objs EXCEPT ![o] = [[[objs[o] EXCEPT !.weight = Values[o].weight] EXCEPT !.from = Values[o].from]
                                       EXCEPT !.to = Values[o].to]]
    BY DEF L!SetLink, LinkInv, LinkTypes
  <2>2. [[[objs[o] EXCEPT !.weight = Values[o].weight] EXCEPT !.from = Values[o].from] EXCEPT !.to = Values[o].to] = l
    <3>1. [objs[o] EXCEPT !.weight = Values[o].weight] =
            [id |-> objs[o].id, weight |-> Values[o].weight, from |-> objs[o].from, to |-> objs[o].to]
      BY <1>1 DEF LinkObjects
    <3>2. [[id |-> objs[o].id, weight |-> Values[o].weight, from |-> objs[o].from, to |-> objs[o].to]
             EXCEPT !.from = Values[o].from] =
            [id |-> objs[o].id, weight |-> Values[o].weight, from |-> Values[o].from, to |-> objs[o].to]
      OBVIOUS
    <3>3. [[id |-> objs[o].id, weight |-> Values[o].weight, from |-> Values[o].from, to |-> objs[o].to]
             EXCEPT !.to = Values[o].to] = l
      OBVIOUS
    <3>. QED BY <3>1, <3>2, <3>3
  <2>. QED BY <2>1, <2>2
<1>4. /\ DOMAIN objs' = DOMAIN objs /\ objs' \in Seq(LinkObjects) /\ Len(objs') = Len(objs)
      /\ \A p \in DOMAIN objs : objs'[p].id = objs[p].id
  BY <1>2, <1>3 DEF LinkInv, LinkTypes
<1>5. UNCHANGED <<mode, colls, asPrepared, file, resolved, rewritten>> /\ mode = "build"
  BY DEF L!SetLink
<1>6. LinkTypes'
  BY <1>4, <1>5 DEF LinkInv, LinkTypes
<1>7. \A c \in Colls : Tracked(c)'
  BY <1>4, <1>5 DEF LinkInv, Tracked
<1>8. \A c, d \in Colls : Apart(c, d)'
  BY <1>5 DEF LinkInv, Apart
<1>9. LinksStay /\ FramesStay
  BY <1>4, <1>5 DEF LinksStay, FramesStay
<1>10. \A c \in Colls : Built(c)'
  BY <1>5, <1>9, OtherBuilt DEF LinkInv, BuildInv
<1>11. \A p \in DOMAIN objs' : Placed(objs[p].id)'
  BY <1>4, <1>5, <1>9, PlacedStays DEF LinkInv, BuildInv
<1>. QED BY <1>5, <1>6, <1>7, <1>8, <1>10, <1>11 DEF LinkInv, BuildInv

\* One more entry of a collection that is in no frame.
EntryAdded(c, o) ==
  /\ \A d \in Colls : d # c => colls'[d] = colls[d]
  /\ colls' \in [Colls -> Collections]
  /\ UNCHANGED <<mode, asPrepared, file, resolved, rewritten>>
  /\ mode = "build" /\ colls[c].id = 0
  /\ colls'[c].subset = colls[c].subset /\ colls'[c].id = 0 /\ colls'[c].prepared = colls[c].prepared
  /\ colls'[c].data = colls[c].data /\ colls'[c].refs = colls[c].refs
  /\ Len(colls'[c].entries) = Len(colls[c].entries) + 1
  /\ DOMAIN colls'[c].entries = DOMAIN colls[c].entries \cup {Len(colls[c].entries) + 1}
  /\ \A i \in DOMAIN colls[c].entries : colls'[c].entries[i] = colls[c].entries[i]
  /\ colls'[c].entries[Len(colls[c].entries) + 1] = o

\* What Create and PushBack do to the collection.
LEMMA AppendEntry ==
  ASSUME LinkInv, NEW c \in Colls, NEW o \in Int, L!Local(c), L!Change(c, [colls[c] EXCEPT !.entries = Append(@, o)]),
         UNCHANGED <<mode, asPrepared, file, resolved, rewritten>>
  PROVE  EntryAdded(c, o)
<1> DEFINE es == Append(colls[c].entries, o)
           coll == [colls[c] EXCEPT !.entries = es]
<1>1. colls[c] \in Collections /\ colls[c].entries \in Seq(Int)
  BY CollectionFields DEF LinkInv, LinkTypes
<1>2. /\ es \in Seq(Int) /\ Len(es) = Len(colls[c].entries) + 1
      /\ DOMAIN es = DOMAIN colls[c].entries \cup {Len(colls[c].entries) + 1}
      /\ \A i \in DOMAIN colls[c].entries : es[i] = colls[c].entries[i]
      /\ es[Len(colls[c].entries) + 1] = o
  BY <1>1, SMTT(30)
<1>3. colls' = [colls EXCEPT ![c] = coll]
  BY DEF L!Change
<1> HIDE DEF es
<1>4. /\ coll \in Collections
      /\ coll = [subset |-> colls[c].subset, id |-> colls[c].id, prepared |-> colls[c].prepared, entries |-> es,
                 data |-> colls[c].data, refs |-> colls[c].refs]
  BY <1>1, <1>2, EntriesChanged
<1>6. /\ coll.subset = colls[c].subset /\ coll.id = colls[c].id /\ coll.prepared = colls[c].prepared
      /\ coll.entries = es /\ coll.data = colls[c].data /\ coll.refs = colls[c].refs
  BY <1>4
<1> HIDE DEF coll
<1>5. /\ colls' \in [Colls -> Collections]
      /\ \A d \in Colls : colls'[d] = IF d = c THEN coll ELSE colls[d]
  BY <1>3, <1>4 DEF LinkInv, LinkTypes
<1>7. colls'[c] = coll /\ \A d \in Colls : d # c => colls'[d] = colls[d]
  BY <1>5
<1>. QED BY <1>2, <1>4, <1>5, <1>6, <1>7 DEF EntryAdded, L!Local

\* The entry is a link that was in no normal collection, and has its ID now, or
\* one that is in a normal collection and is added to a subset collection.
LEMMA EntryKeeps ==
  ASSUME LinkInv, NEW c \in Colls, NEW o \in Int, EntryAdded(c, o),
         objs' \in Seq(LinkObjects), Len(objs') <= MaxLinks, DOMAIN objs' = DOMAIN objs \cup {o},
         \A p \in DOMAIN objs : p # o => objs'[p] = objs[p],
         IF colls[c].subset THEN o \in DOMAIN objs /\ objs'[o] = objs[o] /\ objs[o].id.index >= 0
         ELSE /\ objs'[o].id = L!ID(Len(colls[c].entries), 0)
              /\ o \in DOMAIN objs => objs[o].id.index = -1
  PROVE  LinkInv'
<1> DEFINE k == Len(colls[c].entries)
<1>1. /\ mode = "build" /\ UNCHANGED <<mode, asPrepared, file, resolved, rewritten>>
      /\ colls[c].id = 0 /\ colls'[c].id = 0 /\ colls'[c].subset = colls[c].subset
      /\ \A d \in Colls : d # c => colls'[d] = colls[d]
      /\ \A d \in Colls : colls'[d].subset = colls[d].subset /\ colls'[d].id = colls[d].id
  BY DEF EntryAdded
<1>2. k \in Nat /\ DOMAIN colls[c].entries = 1 .. k
  BY CollectionFields DEF LinkInv, LinkTypes
<1>3. LinkTypes'
  BY <1>1 DEF LinkInv, LinkTypes, EntryAdded
<1>4. ~ colls[c].subset => \A d \in Colls : ~ colls[d].subset => \A i \in DOMAIN colls[d].entries : colls[d].entries[i] # o
  <2> SUFFICES ASSUME ~ colls[c].subset, NEW d \in Colls, ~ colls[d].subset, NEW i \in DOMAIN colls[d].entries,
                      colls[d].entries[i] = o
               PROVE  FALSE
    OBVIOUS
  <2>1. o \in DOMAIN objs /\ objs[o].id = L!ID(i - 1, colls[d].id)
    BY DEF LinkInv, Tracked
  <2>2. i \in Nat /\ i # 0
    BY CollectionFields DEF LinkInv, LinkTypes
  <2>3. objs[o].id.index = i - 1 /\ objs[o].id.index = -1
    BY <2>1 DEF L!ID
  <2>. QED BY <2>2, <2>3
<1>5. LinksStay
  <2>1. ~ colls[c].subset => objs'[o].id.index = k
    BY DEF L!ID
  <2>. QED BY <1>2, <2>1 DEF LinksStay
<1>6. FramesStay
  BY <1>1 DEF FramesStay
<1>7. ASSUME NEW d \in Colls, ~ colls[d].subset, NEW i \in DOMAIN colls'[d].entries
      PROVE  /\ colls'[d].entries[i] \in DOMAIN objs'
             /\ objs'[colls'[d].entries[i]].id = L!ID(i - 1, colls'[d].id)
  <2>1. Tracked(d)
    BY DEF LinkInv
  <2>2. CASE d = c
    <3>1. CASE i \in DOMAIN colls[c].entries
      <4>1. /\ colls[c].entries[i] \in DOMAIN objs
            /\ objs[colls[c].entries[i]].id = L!ID(i - 1, colls[c].id)
        BY <1>7, <2>1, <2>2, <3>1 DEF Tracked
      <4>2. colls'[c].entries[i] = colls[c].entries[i] /\ colls'[c].id = colls[c].id
        BY <1>1, <3>1 DEF EntryAdded
      <4>3. /\ colls[c].entries[i] \in DOMAIN objs'
            /\ objs'[colls[c].entries[i]].id = objs[colls[c].entries[i]].id
        BY <1>1, <1>4, <1>7, <2>2, <3>1, <4>1 DEF EntryAdded
      <4>. QED BY <2>2, <4>1, <4>2, <4>3
    <3>2. CASE i = k + 1
      <4>1. colls'[c].entries[i] = o /\ i - 1 = k
        BY <1>2, <3>2 DEF EntryAdded
      <4>. QED BY <1>1, <1>7, <2>2, <4>1
    <3>. QED BY <1>7, <2>2, <3>1, <3>2 DEF EntryAdded
  <2>3. CASE d # c
    <3>1. CASE colls[c].subset
      BY <1>1, <1>7, <2>1, <2>3, <3>1 DEF Tracked
    <3>2. CASE ~ colls[c].subset
      BY <1>1, <1>4, <1>7, <2>1, <2>3, <3>2 DEF Tracked
    <3>. QED BY <3>1, <3>2
  <2>. QED BY <2>2, <2>3
<1>8. \A d \in Colls : Tracked(d)'
  BY <1>1, <1>7 DEF Tracked
<1>9. ASSUME NEW d \in Colls, NEW e \in Colls
      PROVE  Apart(d, e)'
  <2>1. Apart(d, e)
    BY DEF LinkInv
  <2>2. CASE d # c /\ e # c
    BY <1>1, <2>1, <2>2 DEF Apart
  <2>3. ~ colls[c].subset => \A i \in DOMAIN colls'[c].entries : i \in DOMAIN colls[c].entries \/ colls'[c].entries[i] = o
    BY DEF EntryAdded
  <2>4. \A i \in DOMAIN colls[c].entries : colls'[c].entries[i] = colls[c].entries[i]
    BY DEF EntryAdded
  <2>5. CASE d = c /\ e # c
    <3>1. colls'[e] = colls[e] /\ colls'[c].subset = colls[c].subset
      BY <1>1, <2>5
    <3>. QED BY <1>4, <2>1, <2>3, <2>4, <2>5, <3>1 DEF Apart
  <2>6. CASE e = c /\ d # c
    <3>1. colls'[d] = colls[d] /\ colls'[c].subset = colls[c].subset
      BY <1>1, <2>6
    <3>. QED BY <1>4, <2>1, <2>3, <2>4, <2>6, <3>1 DEF Apart
  <2>7. CASE d = c /\ e = c
    BY <2>7 DEF Apart
  <2>. QED BY <2>2, <2>5, <2>6, <2>7
<1>10. ASSUME NEW d \in Colls
       PROVE  Built(d)'
  <2>1. Built(d)
    BY <1>1 DEF LinkInv, BuildInv
  <2>2. CASE d # c
    BY <1>1, <1>5, <1>6, <2>1, <2>2, OtherBuilt
  <2>3. CASE d = c
    <3>1. asPrepared[c] \in Seq(IDs \cup LinkValues)
      BY DEF LinkInv, LinkTypes
    <3>2. IF colls'[c].prepared
          THEN /\ Matches(colls'[c].subset, colls'[c].data, colls'[c].refs, asPrepared'[c])
               /\ Len(asPrepared'[c]) <= Len(colls'[c].entries)
               /\ colls'[c].subset => \A j \in DOMAIN asPrepared'[c] : asPrepared'[c][j].index >= 0 /\ Placed(asPrepared[c][j])'
          ELSE colls'[c].data = <<>>
      BY <1>1, <1>2, <1>6, <2>1, <2>3, <3>1, PlacedStays DEF Built, EntryAdded
    <3>3. ~ file'[c].written /\ ~ rewritten'[c].written /\ colls'[c].id = 0
      BY <1>1, <2>1, <2>3 DEF Built
    <3>4. colls'[c].subset => \A j \in DOMAIN colls'[c].entries : /\ colls'[c].entries[j] \in DOMAIN objs'
                                                                  /\ objs'[colls'[c].entries[j]].id.index >= 0
      BY <1>1, <1>2, <2>1, <2>3, SMTT(30) DEF Built, EntryAdded
    <3>. QED BY <2>3, <3>2, <3>3, <3>4 DEF Built
  <2>. QED BY <2>2, <2>3
<1>11. ASSUME NEW p \in DOMAIN objs'
       PROVE  Placed(objs[p].id)'
  <2>1. CASE p \in DOMAIN objs /\ objs'[p] = objs[p]
    BY <1>1, <1>6, <2>1, PlacedStays DEF LinkInv, BuildInv
  <2>2. CASE ~ colls[c].subset /\ p = o
    <3>1. objs'[p].id.coll = 0
      BY <2>2 DEF L!ID
    <3>. QED BY <3>1 DEF Placed
  <2>. QED BY <2>1, <2>2
<1>. QED BY <1>1, <1>3, <1>8, <1>9, <1>10, <1>11 DEF LinkInv, BuildInv

\* Create.
LEMMA CreateL ==
  ASSUME LinkInv, NEW c \in Colls, L!Create(c)
  PROVE  LinkInv'
<1> DEFINE n == Len(objs) + 1
           k == Len(colls[c].entries)
           l == [id |-> L!ID(k, 0), weight |-> 1, from |-> L!None, to |-> L!None]
<1>1. /\ L!Local(c) /\ colls[c].id = 0 /\ ~ colls[c].subset /\ Len(objs) < MaxLinks
      /\ UNCHANGED <<mode, asPrepared, file, resolved, rewritten>>
  BY DEF L!Create, L!Local
<1>2. n \in Int /\ n \notin DOMAIN objs /\ k \in Int
  BY CollectionFields DEF LinkInv, LinkTypes
<1>3. l \in LinkObjects /\ l.id = L!ID(k, 0)
  BY <1>2, Made DEF LinkObjects, Ends, Weights
<1>4. objs' = Append(objs, l)
  <2>1. [L!NewLink EXCEPT !.id = L!ID(k, 0)] = l
    BY Made
  <2>. QED BY <1>1, <2>1 DEF L!Create
<1> HIDE DEF l
<1>5. /\ DOMAIN objs' = DOMAIN objs \cup {n}
      /\ \A p \in DOMAIN objs : objs'[p] = objs[p]
      /\ objs'[n] = l
      /\ objs' \in Seq(LinkObjects) /\ Len(objs') <= MaxLinks /\ Len(objs') = n
  BY <1>1, <1>3, <1>4, LinksAssumption DEF LinkInv, LinkTypes
<1>6. L!Change(c, [colls[c] EXCEPT !.entries = Append(@, n)])
  BY <1>5 DEF L!Create
<1> HIDE DEF n
<1>7. EntryAdded(c, n)
  BY <1>1, <1>2, <1>6, AppendEntry
<1>. QED BY <1>1, <1>2, <1>3, <1>5, <1>7, EntryKeeps

\* PushBack: the guard keeps links out of a second normal collection.
LEMMA PushBackL ==
  ASSUME LinkInv, NEW c \in Colls, NEW o \in DOMAIN objs, L!PushBack(c, o)
  PROVE  LinkInv'
<1> DEFINE k == Len(colls[c].entries)
           l == [id |-> L!ID(k, 0), weight |-> objs[o].weight, from |-> objs[o].from, to |-> objs[o].to]
<1>1. /\ L!Local(c) /\ colls[c].id = 0 /\ mode = "build"
      /\ L!Change(c, [colls[c] EXCEPT !.entries = Append(@, o)])
      /\ UNCHANGED <<mode, asPrepared, file, resolved, rewritten>>
  BY DEF L!PushBack, L!Local
<1>2. o \in Int /\ k \in Int /\ objs[o] \in LinkObjects /\ Len(objs) <= MaxLinks
  BY <1>1, CollectionFields DEF LinkInv, LinkTypes
<1>3. EntryAdded(c, o)
  BY <1>1, <1>2, AppendEntry
<1>4. CASE colls[c].subset
  <2>1. objs' = objs /\ objs[o].id.index >= 0
    BY <1>4 DEF L!PushBack, L!CanTake
  <2>. QED BY <1>2, <1>3, <1>4, <2>1, EntryKeeps DEF LinkInv, LinkTypes
<1>5. CASE ~ colls[c].subset
  <2>1. objs[o].id.index = -1
    BY <1>5 DEF L!PushBack, L!CanTake, L!Untracked, L!ID
  <2>2. L!ID(k, 0) \in IDs
    BY <1>2, Made
  <2>3. l \in LinkObjects /\ l.id = L!ID(k, 0)
    BY <1>2, <2>2, LinkFields
  <2>4. objs' = [objs EXCEPT ![o] = l]
    <3>1. [objs[o] EXCEPT !.id = L!ID(k, 0)] = l
      BY <1>2, <2>2, LinkFields
    <3>. QED BY <1>1, <1>5, <3>1 DEF L!PushBack
  <2> HIDE DEF l
  <2>5. /\ objs' \in Seq(LinkObjects) /\ Len(objs') = Len(objs) /\ DOMAIN objs' = DOMAIN objs
        /\ \A p \in DOMAIN objs : p # o => objs'[p] = objs[p]
        /\ objs'[o] = l
    BY <2>3, <2>4 DEF LinkInv, LinkTypes
  <2>. QED BY <1>2, <1>3, <1>5, <2>1, <2>3, <2>5, EntryKeeps
<1>. QED BY <1>4, <1>5

\* What makeSubsetCollection leaves.
LEMMA SubsetMade ==
  ASSUME NEW r \in Collections
  PROVE  /\ L!MakeSubset(r) = [subset |-> TRUE, id |-> r.id, prepared |-> r.prepared, entries |-> r.entries,
                               data |-> <<>>, refs |-> << <<>> >>]
         /\ L!MakeSubset(r) \in Collections
<1>1. L!MakeSubset(r) = [subset |-> TRUE, id |-> r.id, prepared |-> r.prepared, entries |-> r.entries,
                         data |-> <<>>, refs |-> << <<>> >>]
  BY FieldsChanged, Zenon DEF L!MakeSubset
<1>2. [subset |-> TRUE, id |-> r.id, prepared |-> r.prepared, entries |-> r.entries, data |-> <<>>,
       refs |-> << <<>> >>] \in Collections
  <2>1. << <<>> >> \in Seq(Seq(IDs))
    OBVIOUS
  <2>. QED BY <2>1, CollectionFields DEF Collections
<1>. QED BY <1>1, <1>2

\* SetSubsetCollection: one that was prepared while it was empty stays prepared.
LEMMA SetSubsetCollectionL ==
  ASSUME LinkInv, NEW c \in Colls, L!SetSubsetCollection(c)
  PROVE  LinkInv'
<1> DEFINE coll == L!MakeSubset(colls[c])
<1>1. /\ mode = "build" /\ colls[c].id = 0 /\ ~ colls[c].subset /\ colls[c].entries = <<>>
      /\ colls' = [colls EXCEPT ![c] = coll]
      /\ UNCHANGED <<mode, objs, asPrepared, file, resolved, rewritten>>
  BY DEF L!SetSubsetCollection, L!Local, L!Change
<1>2. coll \in Collections
  BY SubsetMade DEF LinkInv, LinkTypes
<1>3. /\ coll.subset = TRUE /\ coll.id = 0 /\ coll.prepared = colls[c].prepared /\ coll.entries = <<>>
      /\ coll.data = <<>> /\ coll.refs = << <<>> >>
  BY <1>1, SubsetMade DEF LinkInv, LinkTypes
<1> HIDE DEF coll
<1>4. /\ colls' \in [Colls -> Collections]
      /\ \A d \in Colls : colls'[d] = IF d = c THEN coll ELSE colls[d]
  BY <1>1, <1>2 DEF LinkInv, LinkTypes
<1>5. LinkTypes'
  BY <1>1, <1>4 DEF LinkInv, LinkTypes
<1>6. \A d \in Colls : Tracked(d)'
  BY <1>1, <1>3, <1>4 DEF LinkInv, Tracked
<1>7. \A d, e \in Colls : Apart(d, e)'
  BY <1>1, <1>3, <1>4 DEF LinkInv, Apart
<1>8. FramesStay /\ LinksStay
  BY <1>1, <1>4 DEF FramesStay, LinksStay
<1>9. ASSUME NEW d \in Colls
      PROVE  Built(d)'
  <2>1. Built(d)
    BY <1>1 DEF LinkInv, BuildInv
  <2>2. CASE d # c
    BY <1>1, <1>4, <1>8, <2>1, <2>2, OtherBuilt
  <2>3. CASE d = c
    <3>1. colls[c].prepared => asPrepared[c] = <<>>
      <4>1. asPrepared[c] \in Seq(IDs \cup LinkValues)
        BY DEF LinkInv, LinkTypes
      <4>. QED BY <1>1, <2>1, <2>3, <4>1 DEF Built
    <3>2. colls[c].prepared => Matches(TRUE, <<>>, << <<>> >>, asPrepared[c])
      <4>1. <<>> \in Seq(IDs)
        OBVIOUS
      <4>. QED BY <3>1, <4>1, Zenon DEF Matches
    <3>3. ~ file[c].written
      BY <1>1, <2>1, <2>3 DEF Built
    <3>4. colls[c].prepared => DOMAIN asPrepared[c] = {} /\ Len(asPrepared[c]) = 0
      BY <3>1
    <3>5. Len(coll.entries) = 0 /\ DOMAIN coll.entries = {}
      BY <1>3
    <3>6. colls'[c] = coll /\ asPrepared'[c] = asPrepared[c] /\ ~ file'[c].written /\ ~ rewritten'[c].written
      BY <1>1, <1>4, <2>1, <2>3, <3>3 DEF Built
    <3>7. Matches(coll.subset, coll.data, coll.refs, asPrepared[c]) \/ ~ coll.prepared
      BY <1>3, <3>2
    <3>. QED BY <1>3, <2>1, <2>3, <3>4, <3>5, <3>6, <3>7 DEF Built
  <2>. QED BY <2>2, <2>3
<1>10. \A p \in DOMAIN objs' : Placed(objs[p].id)'
  BY <1>1, <1>8, PlacedStays DEF LinkInv, BuildInv
<1>. QED BY <1>1, <1>5, <1>6, <1>7, <1>9, <1>10 DEF LinkInv, BuildInv

\* Clear.
LEMMA ClearL ==
  ASSUME LinkInv, NEW c \in Colls, L!Clear(c)
  PROVE  LinkInv'
<1> DEFINE cleared == [i \in DOMAIN colls[c].refs |-> <<>>]
           coll == [subset |-> colls[c].subset, id |-> colls[c].id, prepared |-> FALSE, entries |-> <<>>, data |-> <<>>,
                    refs |-> cleared]
<1>1. /\ mode = "build" /\ colls[c].id = 0
      /\ UNCHANGED <<mode, objs, asPrepared, file, resolved, rewritten>>
  BY DEF L!Clear, L!Local
<1>2. colls[c] \in Collections /\ colls[c].refs \in Seq(Seq(IDs))
  BY CollectionFields DEF LinkInv, LinkTypes
<1>3. colls' = [colls EXCEPT ![c] = coll]
  <2> HIDE DEF cleared
  <2>0. ASSUME NEW n, n = [colls[c] EXCEPT !.entries = <<>>, !.prepared = FALSE, !.data = <<>>, !.refs = cleared]
        PROVE  n = coll
    BY <1>2, <2>0 DEF Collections
  <2>1. [colls[c] EXCEPT !.entries = <<>>, !.prepared = FALSE, !.data = <<>>, !.refs = cleared] = coll
    BY <2>0, Zenon
  <2>. QED BY <2>1 DEF L!Clear, L!Change, cleared
<1>4. coll \in Collections
  <2>1. cleared \in Seq(Seq(IDs))
    <3>1. Len(colls[c].refs) \in Nat /\ DOMAIN colls[c].refs = 1 .. Len(colls[c].refs)
      BY <1>2
    <3>2. cleared \in [1 .. Len(colls[c].refs) -> Seq(IDs)]
      BY <3>1
    <3>. QED BY <3>1, <3>2, IsASeq
  <2> HIDE DEF cleared
  <2>. QED BY <1>2, <2>1, CollectionFields DEF Collections
<1>5. coll.subset = colls[c].subset /\ coll.id = 0 /\ ~ coll.prepared /\ coll.entries = <<>> /\ coll.data = <<>>
  BY <1>1
<1> HIDE DEF coll
<1>6. /\ colls' \in [Colls -> Collections]
      /\ \A d \in Colls : colls'[d] = IF d = c THEN coll ELSE colls[d]
  BY <1>3, <1>4 DEF LinkInv, LinkTypes
<1>7. LinkTypes'
  BY <1>1, <1>6 DEF LinkInv, LinkTypes
<1>8. \A d \in Colls : Tracked(d)'
  BY <1>1, <1>5, <1>6 DEF LinkInv, Tracked
<1>9. \A d, e \in Colls : Apart(d, e)'
  BY <1>1, <1>5, <1>6 DEF LinkInv, Apart
<1>10. FramesStay /\ LinksStay
  BY <1>1, <1>6 DEF FramesStay, LinksStay
<1>11. ASSUME NEW d \in Colls
       PROVE  Built(d)'
  <2>1. Built(d)
    BY <1>1 DEF LinkInv, BuildInv
  <2>2. CASE d # c
    BY <1>1, <1>6, <1>10, <2>1, <2>2, OtherBuilt
  <2>3. CASE d = c
    BY <1>1, <1>5, <1>6, <2>1, <2>3 DEF Built
  <2>. QED BY <2>2, <2>3
<1>12. \A p \in DOMAIN objs' : Placed(objs[p].id)'
  BY <1>1, <1>10, PlacedStays DEF LinkInv, BuildInv
<1>. QED BY <1>1, <1>7, <1>8, <1>9, <1>11, <1>12 DEF LinkInv, BuildInv

\* The links that setID gives the ID of the collection.
InCollection(coll, o) == ~ coll.subset /\ \E i \in DOMAIN coll.entries : coll.entries[i] = o

\* SetID changes the collection ID of the links of a normal collection and no more.
LEMMA IDsSet ==
  ASSUME NEW store \in Seq(LinkObjects), NEW coll, NEW id \in Int, NEW result, result = L!SetID(coll, id, store)
  PROVE  /\ result \in Seq(LinkObjects)
         /\ Len(result) = Len(store)
         /\ DOMAIN result = DOMAIN store
         /\ \A o \in DOMAIN store :
              /\ result[o].id.index = store[o].id.index
              /\ result[o].weight = store[o].weight
              /\ result[o].from = store[o].from
              /\ result[o].to = store[o].to
              /\ IF InCollection(coll, o) THEN result[o].id = L!ID(store[o].id.index, id) ELSE result[o] = store[o]
<1> DEFINE new(o) == [id |-> L!ID(store[o].id.index, id), weight |-> store[o].weight, from |-> store[o].from,
                      to |-> store[o].to]
<1>1. /\ DOMAIN store = 1 .. Len(store) /\ Len(store) \in Nat
      /\ \A o \in DOMAIN store : store[o] \in LinkObjects
  OBVIOUS
<1>2. ASSUME NEW o \in DOMAIN store
      PROVE  /\ new(o) \in LinkObjects /\ [store[o] EXCEPT !.id.coll = id] = new(o)
             /\ new(o).id.index = store[o].id.index /\ new(o).id = L!ID(store[o].id.index, id)
             /\ new(o).weight = store[o].weight /\ new(o).from = store[o].from /\ new(o).to = store[o].to
  <2>1. store[o] \in LinkObjects /\ store[o].id.index \in Int
    BY <1>1, LinkFields
  <2>2. L!ID(store[o].id.index, id) \in IDs
    BY <2>1, Made
  <2>. QED BY <2>1, <2>2, LinkFields DEF L!ID
<1>3. \A o : InCollection(coll, o) <=> ~ coll.subset /\ o \in L!Range(coll.entries)
  BY DEF L!Range, InCollection
<1> HIDE DEF new
<1>4. result = [o \in DOMAIN store |-> IF InCollection(coll, o) THEN new(o) ELSE store[o]]
  BY <1>2, <1>3 DEF L!SetID
<1>5. DOMAIN result = DOMAIN store /\ \A o \in DOMAIN store : result[o] = IF InCollection(coll, o) THEN new(o) ELSE store[o]
  BY <1>4
<1>6. \A o \in DOMAIN store : result[o] \in LinkObjects
  BY <1>1, <1>2, <1>5
<1>7. result \in [1 .. Len(store) -> LinkObjects]
  BY <1>1, <1>4, <1>6
<1>8. result \in Seq(LinkObjects) /\ Len(result) = Len(store)
  BY <1>1, <1>7, IsASeq
<1>. QED BY <1>2, <1>5, <1>8

\* PutIntoFrame: the links know the collection they are in.
LEMMA PutIntoFrameL ==
  ASSUME LinkInv, NEW c \in Colls, L!PutIntoFrame(c)
  PROVE  LinkInv'
<1> DEFINE id == L!CollectionID(c)
           coll == [subset |-> colls[c].subset, id |-> id, prepared |-> colls[c].prepared,
                    entries |-> colls[c].entries, data |-> colls[c].data, refs |-> colls[c].refs]
           inside(o) == InCollection(colls[c], o)
<1>1. /\ mode = "build" /\ colls[c].id = 0 /\ objs' = L!SetID(colls[c], id, objs)
      /\ colls' = [colls EXCEPT ![c] = [colls[c] EXCEPT !.id = id]]
      /\ UNCHANGED <<mode, asPrepared, file, resolved, rewritten>>
  BY DEF L!PutIntoFrame, L!Local, L!Change
<1>2. /\ id \in Int /\ id # 0 /\ colls[c] \in Collections /\ colls[c].subset \in BOOLEAN
      /\ objs \in Seq(LinkObjects)
  BY CollectionIDs, CollectionFields DEF LinkInv, LinkTypes
<1> HIDE DEF id
<1>3. [colls[c] EXCEPT !.id = id] = coll
  <2>1. ASSUME NEW n, n = [colls[c] EXCEPT !.id = id]
        PROVE  n = coll
    BY <1>2, <2>1 DEF Collections
  <2>. QED BY <2>1, Zenon
<1>4. /\ coll \in Collections
      /\ coll.subset = colls[c].subset /\ coll.id = id /\ coll.prepared = colls[c].prepared
      /\ coll.entries = colls[c].entries /\ coll.data = colls[c].data /\ coll.refs = colls[c].refs
  BY <1>2, CollectionFields DEF Collections
<1> HIDE DEF coll
<1>5. /\ colls' \in [Colls -> Collections]
      /\ \A d \in Colls : colls'[d] = IF d = c THEN coll ELSE colls[d]
  BY <1>1, <1>3, <1>4 DEF LinkInv, LinkTypes
<1>6. /\ objs' \in Seq(LinkObjects) /\ Len(objs') = Len(objs) /\ DOMAIN objs' = DOMAIN objs
      /\ \A o \in DOMAIN objs :
           /\ objs'[o].id.index = objs[o].id.index
           /\ IF inside(o) THEN objs'[o].id = L!ID(objs[o].id.index, id) ELSE objs'[o] = objs[o]
  BY <1>1, <1>2, IDsSet
<1>7. LinkTypes'
  BY <1>1, <1>5, <1>6 DEF LinkInv, LinkTypes
<1>8. ASSUME NEW d \in Colls, ~ colls[d].subset, NEW k \in DOMAIN colls[d].entries
      PROVE  /\ colls[d].entries[k] \in DOMAIN objs'
             /\ objs'[colls[d].entries[k]].id = L!ID(k - 1, colls'[d].id)
  <2> DEFINE o == colls[d].entries[k]
  <2>1. o \in DOMAIN objs /\ objs[o].id = L!ID(k - 1, colls[d].id) /\ objs[o].id.index = k - 1
    BY <1>8 DEF LinkInv, Tracked, L!ID
  <2>2. CASE d = c
    <3>1. inside(o)
      BY <1>8, <2>2 DEF InCollection
    <3>. QED BY <1>4, <1>5, <1>6, <2>1, <2>2, <3>1
  <2>3. CASE d # c
    <3>1. ~ inside(o)
      BY <1>8, <2>3 DEF LinkInv, Apart, InCollection
    <3>. QED BY <1>5, <1>6, <2>1, <2>3, <3>1
  <2>. QED BY <2>2, <2>3
<1>9. \A d \in Colls : Tracked(d)'
  BY <1>4, <1>5, <1>8 DEF Tracked
<1>10. \A d, e \in Colls : Apart(d, e)'
  BY <1>4, <1>5 DEF LinkInv, Apart
<1>11. FramesStay /\ LinksStay
  BY <1>1, <1>4, <1>5, <1>6 DEF FramesStay, LinksStay
<1>12. ASSUME NEW d \in Colls
       PROVE  Built(d)'
  <2>1. Built(d)
    BY <1>1 DEF LinkInv, BuildInv
  <2>2. CASE d # c
    BY <1>1, <1>5, <1>11, <2>1, <2>2, OtherBuilt
  <2>3. CASE d = c
    <3>1. colls'[c] = coll /\ asPrepared'[c] = asPrepared[c] /\ ~ file'[c].written /\ ~ rewritten'[c].written
      BY <1>1, <1>5, <2>1, <2>3 DEF Built
    <3>2. coll.id = L!CollectionID(c)
      BY <1>4 DEF id
    <3>. QED BY <1>4, <1>6, <1>11, <2>1, <2>3, <3>1, <3>2, PlacedStays DEF Built
  <2>. QED BY <2>2, <2>3
<1>13. ASSUME NEW o \in DOMAIN objs'
       PROVE  Placed(objs[o].id)'
  <2>1. CASE ~ inside(o)
    BY <1>1, <1>6, <1>11, <2>1, PlacedStays DEF LinkInv, BuildInv
  <2>2. CASE inside(o)
    <3>1. objs'[o].id.coll = id
      <4>1. o \in DOMAIN objs
        BY <1>6
      <4>2. objs'[o].id = L!ID(objs[o].id.index, id)
        BY <1>6, <2>2, <4>1
      <4>3. \A i : L!ID(i, id).coll = id
        BY DEF L!ID
      <4>. QED BY <4>2, <4>3
    <3>2. colls'[c].id = id /\ ~ colls'[c].subset
      BY <1>4, <1>5, <2>2 DEF InCollection
    <3>. QED BY <3>1, <3>2 DEF Placed, id
  <2>. QED BY <2>1, <2>2
<1>. QED BY <1>1, <1>7, <1>9, <1>10, <1>12, <1>13 DEF LinkInv, BuildInv

\* What is written of an end is an ID.
LEMMA WrittenIDs ==
  /\ L!Invalid \in IDs
  /\ \A h \in Ends : L!GetObjectID(h) \in IDs
<1>1. L!Invalid \in IDs
  BY Made DEF L!Invalid
<1>2. ASSUME NEW h \in Ends
      PROVE  L!GetObjectID(h) \in IDs
  BY <1>1, LinksAssumption DEF Ends, L!GetObjectID, IDs
<1>. QED BY <1>1, <1>2

\* A collection is what has the members of one.
LEMMA FieldsTyped ==
  ASSUME NEW b \in BOOLEAN, NEW i \in Int, NEW p \in BOOLEAN, NEW e \in Seq(Int), NEW d \in Seq(Weights),
         NEW r \in Seq(Seq(IDs))
  PROVE  [subset |-> b, id |-> i, prepared |-> p, entries |-> e, data |-> d, refs |-> r] \in Collections
  BY DEF Collections

\* What the first prepareForWrite makes of a collection.
LEMMA Filled ==
  ASSUME LinkInv, mode = "build", NEW c \in Colls, ~ colls[c].prepared,
         NEW wrote, wrote = IF colls[c].subset THEN [k \in DOMAIN colls[c].entries |-> objs[colls[c].entries[k]].id]
                            ELSE L!Links(colls[c]),
         NEW coll, coll = L!PrepareForWrite(colls[c])
  PROVE  /\ coll \in Collections
         /\ coll.subset = colls[c].subset /\ coll.id = colls[c].id /\ coll.entries = colls[c].entries /\ coll.prepared
         /\ Matches(coll.subset, coll.data, coll.refs, wrote)
         /\ Len(wrote) = Len(coll.entries)
         /\ wrote \in Seq(IDs \cup LinkValues)
         /\ coll.subset => \A k \in DOMAIN wrote : wrote[k].index >= 0 /\ Placed(wrote[k])
<1> DEFINE r == colls[c]
           n == Len(r.entries)
<1>1. /\ r \in Collections /\ r.subset \in BOOLEAN /\ r.id \in Int /\ r.entries \in Seq(Int)
      /\ r.data \in Seq(Weights) /\ r.refs \in Seq(Seq(IDs)) /\ Built(c)
  BY CollectionFields DEF LinkInv, LinkTypes, BuildInv
<1>2. n \in Nat /\ DOMAIN r.entries = 1 .. n
  BY <1>1
<1>3. \A k \in 1 .. n : r.entries[k] \in DOMAIN objs
  BY <1>1, <1>2 DEF LinkInv, Tracked, Built
<1>4. \A o \in DOMAIN objs : objs[o] \in LinkObjects
  BY DEF LinkInv, LinkTypes
<1>5. r.data = <<>>
  BY <1>1 DEF Built
<1>6. CASE r.subset
  <2>1. wrote = [k \in 1 .. n |-> objs[r.entries[k]].id]
    BY <1>2, <1>6
  <2>2. wrote \in [1 .. n -> IDs]
    BY <1>3, <1>4, <2>1, LinkFields
  <2>3. wrote \in Seq(IDs) /\ Len(wrote) = n /\ DOMAIN wrote = 1 .. n
    BY <1>2, <2>2, IsASeq
  <2>4. <<wrote>> \in Seq(Seq(IDs))
    BY <2>3
  <2>5. L!FillBuffers(r) = [r EXCEPT !.refs = <<wrote>>]
    BY <1>6 DEF L!FillBuffers
  <2>6. L!FillBuffers(r) = [subset |-> r.subset, id |-> r.id, prepared |-> r.prepared, entries |-> r.entries,
                            data |-> r.data, refs |-> <<wrote>>]
    BY <1>1, <2>5, FieldsChanged, Zenon
  <2>7. L!FillBuffers(r) \in Collections
    <3>1. [subset |-> r.subset, id |-> r.id, prepared |-> r.prepared, entries |-> r.entries, data |-> r.data,
           refs |-> <<wrote>>] \in Collections
      BY <1>1, <2>4, CollectionFields, FieldsTyped, Zenon
    <3>. QED BY <2>6, <3>1
  <2>8. coll = [subset |-> r.subset, id |-> r.id, prepared |-> TRUE, entries |-> r.entries, data |-> r.data,
                refs |-> <<wrote>>]
    <3>1. coll = [L!FillBuffers(r) EXCEPT !.prepared = TRUE]
      BY DEF L!PrepareForWrite
    <3>2. coll = [subset |-> L!FillBuffers(r).subset, id |-> L!FillBuffers(r).id, prepared |-> TRUE,
                  entries |-> L!FillBuffers(r).entries, data |-> L!FillBuffers(r).data, refs |-> L!FillBuffers(r).refs]
      BY <2>7, <3>1, FieldsChanged, Zenon
    <3>. QED BY <2>6, <3>2
  <2>9. coll \in Collections
    <3>1. [subset |-> r.subset, id |-> r.id, prepared |-> TRUE, entries |-> r.entries, data |-> r.data,
           refs |-> <<wrote>>] \in Collections
      <4>1. TRUE \in BOOLEAN
        OBVIOUS
      <4>. QED BY <1>1, <2>4, <4>1, FieldsTyped, Zenon
    <3>. QED BY <2>8, <3>1
  <2>10. ASSUME NEW k \in 1 .. n
         PROVE  wrote[k].index >= 0 /\ Placed(wrote[k])
    <3>1. wrote[k] = objs[r.entries[k]].id /\ r.entries[k] \in DOMAIN objs
      BY <1>3, <2>1
    <3>2. objs[r.entries[k]].id.index >= 0
      BY <1>1, <1>2, <1>6 DEF Built
    <3>3. \A o \in DOMAIN objs : Placed(objs[o].id)
      BY DEF LinkInv, BuildInv
    <3>4. Placed(objs[r.entries[k]].id)
      BY <3>1, <3>3, Zenon
    <3>. QED BY <3>1, <3>2, <3>4
  <2>11. Seq(IDs) \subseteq Seq(IDs \cup LinkValues)
    OBVIOUS
  <2>12. /\ coll.subset = r.subset /\ coll.id = r.id /\ coll.entries = r.entries /\ coll.prepared
         /\ coll.refs = <<wrote>>
    BY <2>8
  <2>. QED BY <1>6, <2>3, <2>9, <2>10, <2>11, <2>12 DEF Matches
<1>7. CASE ~ r.subset
  <2> DEFINE weights == [k \in DOMAIN wrote |-> wrote[k].weight]
             froms == [k \in DOMAIN wrote |-> L!GetObjectID(wrote[k].from)]
             tos == [k \in DOMAIN wrote |-> L!GetObjectID(wrote[k].to)]
  <2>1. wrote = [k \in 1 .. n |-> [from |-> objs[r.entries[k]].from, to |-> objs[r.entries[k]].to,
                                   weight |-> objs[r.entries[k]].weight]]
    BY <1>2, <1>7 DEF L!Links
  <2>2. wrote \in [1 .. n -> LinkValues]
    <3>1. ASSUME NEW k \in 1 .. n
          PROVE  [from |-> objs[r.entries[k]].from, to |-> objs[r.entries[k]].to,
                  weight |-> objs[r.entries[k]].weight] \in LinkValues
      BY <1>3, <1>4, LinkFields DEF LinkValues
    <3>. QED BY <2>1, <3>1
  <2>3. wrote \in Seq(LinkValues) /\ Len(wrote) = n /\ DOMAIN wrote = 1 .. n
    BY <1>2, <2>2, IsASeq
  <2>4. \A k \in 1 .. n : wrote[k].weight \in Weights /\ wrote[k].from \in Ends /\ wrote[k].to \in Ends
    BY <2>2 DEF LinkValues
  <2>5. weights \in [1 .. n -> Weights] /\ froms \in [1 .. n -> IDs] /\ tos \in [1 .. n -> IDs]
    <3>1. \A k \in 1 .. n : L!GetObjectID(wrote[k].from) \in IDs /\ L!GetObjectID(wrote[k].to) \in IDs
      BY <2>4, WrittenIDs
    <3>2. weights \in [1 .. n -> Weights]
      BY <2>3, <2>4
    <3>3. froms \in [1 .. n -> IDs]
      BY <2>3, <3>1
    <3>4. tos \in [1 .. n -> IDs]
      BY <2>3, <3>1
    <3>. QED BY <3>2, <3>3, <3>4
  <2> HIDE DEF weights, froms, tos
  <2>6. weights \in Seq(Weights) /\ froms \in Seq(IDs) /\ tos \in Seq(IDs)
    BY <1>2, <2>5, IsASeq
  <2>7. L!FillBuffers(r) = [r EXCEPT !.data = r.data \o weights, !.refs = <<froms, tos>>]
    <3>1. wrote = L!Links(r)
      BY <1>7
    <3>. QED BY <1>7, <3>1, Zenon DEF L!FillBuffers, weights, froms, tos
  <2>8. r.data \o weights = weights
    BY <1>5, <2>6
  <2>9. <<froms, tos>> \in Seq(Seq(IDs))
    BY <2>6
  <2>10. L!FillBuffers(r) = [subset |-> r.subset, id |-> r.id, prepared |-> r.prepared, entries |-> r.entries,
                             data |-> weights, refs |-> <<froms, tos>>]
    <3>1. PICK both : both = <<froms, tos>>
      OBVIOUS
    <3>2. L!FillBuffers(r) = [r EXCEPT !.data = weights, !.refs = both]
      BY ONLY <2>7, <2>8, <3>1
    <3>3. [r EXCEPT !.data = weights, !.refs = both] =
            [subset |-> r.subset, id |-> r.id, prepared |-> r.prepared, entries |-> r.entries,
             data |-> weights, refs |-> both]
      BY ONLY <1>1, BuffersChanged
    <3>. QED BY ONLY <3>1, <3>2, <3>3
  <2>11. L!FillBuffers(r) \in Collections
    <3>1. [subset |-> r.subset, id |-> r.id, prepared |-> r.prepared, entries |-> r.entries, data |-> weights,
           refs |-> <<froms, tos>>] \in Collections
      BY <1>1, <2>6, <2>9, CollectionFields, FieldsTyped, Zenon
    <3>. QED BY <2>10, <3>1
  <2>12. coll = [subset |-> r.subset, id |-> r.id, prepared |-> TRUE, entries |-> r.entries, data |-> weights,
                 refs |-> <<froms, tos>>]
    <3>1. coll = [L!FillBuffers(r) EXCEPT !.prepared = TRUE]
      BY DEF L!PrepareForWrite
    <3>2. coll = [subset |-> L!FillBuffers(r).subset, id |-> L!FillBuffers(r).id, prepared |-> TRUE,
                  entries |-> L!FillBuffers(r).entries, data |-> L!FillBuffers(r).data, refs |-> L!FillBuffers(r).refs]
      BY <2>11, <3>1, FieldsChanged, Zenon
    <3>. QED BY <2>10, <3>2
  <2>13. coll \in Collections
    <3>1. [subset |-> r.subset, id |-> r.id, prepared |-> TRUE, entries |-> r.entries, data |-> weights,
           refs |-> <<froms, tos>>] \in Collections
      <4>1. TRUE \in BOOLEAN
        OBVIOUS
      <4>. QED BY <1>1, <2>6, <2>9, <4>1, FieldsTyped, Zenon
    <3>. QED BY <2>12, <3>1
  <2>14. /\ coll.subset = r.subset /\ coll.id = r.id /\ coll.entries = r.entries /\ coll.prepared
         /\ coll.data = weights /\ coll.refs = <<froms, tos>>
    BY <2>12
  <2>15. Seq(LinkValues) \subseteq Seq(IDs \cup LinkValues)
    OBVIOUS
  <2>16. Matches(coll.subset, coll.data, coll.refs, wrote)
    BY <1>7, <2>3, <2>14, Zenon DEF Matches, weights, froms, tos
  <2>. QED BY <1>7, <2>3, <2>13, <2>14, <2>15, <2>16
<1>. QED BY <1>6, <1>7

\* The buffers of a collection.
LEMMA BuffersGot ==
  ASSUME NEW r \in Collections
  PROVE  /\ L!GetBuffers(r) \in Files
         /\ L!GetBuffers(r).written /\ L!GetBuffers(r).subset = r.subset /\ L!GetBuffers(r).id = r.id
         /\ L!GetBuffers(r).data = r.data /\ L!GetBuffers(r).refs = r.refs
  BY CollectionFields DEF L!GetBuffers, Files

\* Prepare and Write: only the first time does anything but the file change.
LEMMA PreparedL ==
  ASSUME LinkInv, NEW c \in Colls, L!Prepared(c), mode = "build",
         \/ file' = file
         \/ colls[c].id # 0 /\ file' = [file EXCEPT ![c] = L!GetBuffers(colls'[c])],
         UNCHANGED <<mode, objs, resolved, rewritten>>
  PROVE  LinkInv'
<1> DEFINE coll == L!PrepareForWrite(colls[c])
<1>1. /\ colls' = [colls EXCEPT ![c] = coll]
      /\ asPrepared' = IF colls[c].prepared THEN asPrepared
                       ELSE [asPrepared EXCEPT ![c] =
                               IF colls[c].subset THEN [k \in DOMAIN colls[c].entries |-> objs[colls[c].entries[k]].id]
                               ELSE L!Links(colls[c])]
  BY DEF L!Prepared, L!Change
<1>2. /\ Built(c) /\ colls[c] \in Collections /\ asPrepared \in [Colls -> Seq(IDs \cup LinkValues)]
      /\ file \in [Colls -> Files]
  BY DEF LinkInv, LinkTypes, BuildInv
<1>3. /\ asPrepared' \in [Colls -> Seq(IDs \cup LinkValues)]
      /\ \A d \in Colls : d # c => asPrepared'[d] = asPrepared[d]
      /\ coll \in Collections
      /\ coll.subset = colls[c].subset /\ coll.id = colls[c].id /\ coll.entries = colls[c].entries /\ coll.prepared
      /\ Matches(coll.subset, coll.data, coll.refs, asPrepared'[c])
      /\ Len(asPrepared'[c]) <= Len(coll.entries)
      /\ coll.subset => \A k \in DOMAIN asPrepared'[c] : asPrepared'[c][k].index >= 0 /\ Placed(asPrepared'[c][k])
      /\ colls[c].prepared => coll = colls[c]
  <2>1. CASE colls[c].prepared
    <3>1. coll = colls[c] /\ asPrepared' = asPrepared
      BY <1>1, <2>1 DEF L!PrepareForWrite
    <3>2. asPrepared'[c] = asPrepared[c]
      BY <3>1
    <3>. QED BY <1>2, <2>1, <3>1, <3>2 DEF Built
  <2>2. CASE ~ colls[c].prepared
    <3> DEFINE wrote == IF colls[c].subset THEN [k \in DOMAIN colls[c].entries |-> objs[colls[c].entries[k]].id]
                        ELSE L!Links(colls[c])
    <3>1. asPrepared' = [asPrepared EXCEPT ![c] = wrote]
      BY <1>1, <2>2
    <3>2. /\ coll \in Collections
          /\ coll.subset = colls[c].subset /\ coll.id = colls[c].id /\ coll.entries = colls[c].entries /\ coll.prepared
          /\ Matches(coll.subset, coll.data, coll.refs, wrote)
          /\ Len(wrote) = Len(coll.entries)
          /\ wrote \in Seq(IDs \cup LinkValues)
          /\ coll.subset => \A k \in DOMAIN wrote : wrote[k].index >= 0 /\ Placed(wrote[k])
      BY <2>2, Filled
    <3> HIDE DEF wrote, coll
    <3>3. /\ asPrepared'[c] = wrote /\ asPrepared' \in [Colls -> Seq(IDs \cup LinkValues)]
          /\ \A d \in Colls : d # c => asPrepared'[d] = asPrepared[d]
      BY <1>2, <3>1, <3>2
    <3>4. Len(coll.entries) <= Len(coll.entries)
      BY <3>2, CollectionFields
    <3>. QED BY <2>2, <3>2, <3>3, <3>4
  <2>. QED BY <2>1, <2>2
<1> HIDE DEF coll
<1>4. /\ colls' \in [Colls -> Collections]
      /\ \A d \in Colls : colls'[d] = IF d = c THEN coll ELSE colls[d]
  BY <1>1, <1>3 DEF LinkInv, LinkTypes
<1>5. /\ file' \in [Colls -> Files]
      /\ \A d \in Colls : d # c => file'[d] = file[d]
      /\ file'[c].written => coll.id # 0 /\ file'[c] = L!GetBuffers(coll)
  <2>1. CASE file' = file
    BY <1>2, <1>3, <2>1 DEF Built
  <2>2. CASE colls[c].id # 0 /\ file' = [file EXCEPT ![c] = L!GetBuffers(colls'[c])]
    BY <1>2, <1>3, <1>4, <2>2, BuffersGot
  <2>. QED BY <2>1, <2>2
<1>6. LinkTypes'
  BY <1>3, <1>4, <1>5 DEF LinkInv, LinkTypes
<1>7. \A d \in Colls : Tracked(d)'
  BY <1>3, <1>4 DEF LinkInv, Tracked
<1>8. ASSUME NEW d \in Colls, NEW e \in Colls
      PROVE  Apart(d, e)'
  <2>1. /\ colls'[d].subset = colls[d].subset /\ colls'[d].entries = colls[d].entries
        /\ colls'[e].subset = colls[e].subset /\ colls'[e].entries = colls[e].entries
    BY <1>3, <1>4
  <2>. QED BY <2>1 DEF LinkInv, Apart
<1>9. FramesStay /\ LinksStay
  BY <1>3, <1>4 DEF FramesStay, LinksStay
<1>10. ASSUME NEW d \in Colls
       PROVE  Built(d)'
  <2>1. Built(d)
    BY DEF LinkInv, BuildInv
  <2>2. CASE d # c
    BY <1>3, <1>4, <1>5, <1>9, <2>1, <2>2, OtherBuilt
  <2>3. CASE d = c
    <3>1. colls'[c] = coll
      BY <1>4
    <3>2. \A k \in DOMAIN asPrepared'[c] : Placed(asPrepared'[c][k]) => Placed(asPrepared[c][k])'
      BY <1>9, PlacedStays
    <3>. QED BY <1>2, <1>3, <1>5, <2>3, <3>1, <3>2 DEF Built
  <2>. QED BY <2>2, <2>3
<1>11. \A p \in DOMAIN objs' : Placed(objs[p].id)'
  BY <1>9, PlacedStays DEF LinkInv, BuildInv
<1>. QED BY <1>6, <1>7, <1>8, <1>10, <1>11 DEF LinkInv, BuildInv

\* Prepare.
LEMMA PrepareL ==
  ASSUME LinkInv, NEW c \in Colls, L!Prepare(c)
  PROVE  LinkInv'
  BY PreparedL DEF L!Prepare

\* Write.
LEMMA WriteL ==
  ASSUME LinkInv, NEW c \in Colls, L!Write(c)
  PROVE  LinkInv'
  BY PreparedL DEF L!Write

\* StartReading: all that is left is the file and what was prepared for it.
LEMMA StartReadingL ==
  ASSUME LinkInv, L!StartReading
  PROVE  LinkInv'
<1>1. /\ mode = "build" /\ mode' = "read" /\ objs' = <<>>
      /\ colls' = [c \in Colls |-> L!NewCollection]
      /\ asPrepared' = [c \in Colls |-> IF file[c].written THEN asPrepared[c] ELSE <<>>]
      /\ UNCHANGED <<file, resolved, rewritten>>
  BY DEF L!StartReading
<1>2. \A c \in Colls : Built(c) /\ colls[c] \in Collections
  BY <1>1 DEF LinkInv, BuildInv, LinkTypes
<1>3. /\ L!NewCollection \in Collections /\ L!NewCollection.entries = <<>> /\ L!NewCollection.id = 0
      /\ ~ L!NewCollection.subset
  BY Made DEF L!NewCollection
<1>4. LinkTypes'
  <2>1. <<>> \in Seq(IDs \cup LinkValues) /\ <<>> \in Seq(LinkObjects)
    OBVIOUS
  <2>2. asPrepared' \in [Colls -> Seq(IDs \cup LinkValues)]
    BY <1>1, <2>1 DEF LinkInv, LinkTypes
  <2>3. colls' \in [Colls -> Collections]
    BY <1>1, <1>3
  <2>. QED BY <1>1, <2>1, <2>2, <2>3 DEF LinkInv, LinkTypes
<1>5. \A c \in Colls : Tracked(c)' /\ \A d \in Colls : Apart(c, d)'
  BY <1>1, <1>3 DEF Tracked, Apart
<1>6. ASSUME NEW c \in Colls
      PROVE  Read(c)'
  <2>1. colls'[c] = L!NewCollection /\ c \notin resolved' /\ ~ rewritten'[c].written
    BY <1>1, <1>2 DEF LinkInv, BuildInv, Built
  <2>2. ASSUME file[c].written
        PROVE  /\ file[c].id = L!CollectionID(c) /\ asPrepared'[c] = asPrepared[c]
               /\ Matches(file[c].subset, file[c].data, file[c].refs, asPrepared[c])
               /\ file[c].subset => \A k \in DOMAIN asPrepared[c] : PlacedInFile(asPrepared[c][k])
    <3>1. /\ colls[c].prepared /\ colls[c].id # 0 /\ file[c] = L!GetBuffers(colls[c])
          /\ Matches(colls[c].subset, colls[c].data, colls[c].refs, asPrepared[c])
          /\ colls[c].subset => \A k \in DOMAIN asPrepared[c] : asPrepared[c][k].index >= 0 /\ Placed(asPrepared[c][k])
      BY <1>2, <2>2 DEF Built
    <3>2. /\ file[c].subset = colls[c].subset /\ file[c].id = colls[c].id /\ file[c].data = colls[c].data
          /\ file[c].refs = colls[c].refs
      BY <1>2, <3>1, BuffersGot
    <3>3. ASSUME NEW id, id.index >= 0, Placed(id)
          PROVE  PlacedInFile(id)
      <4>1. CASE id.coll = 0
        BY <3>3, <4>1 DEF PlacedInFile
      <4>2. CASE \E d \in Colls : id.coll = L!CollectionID(d) /\ colls[d].id = id.coll /\ ~ colls[d].subset
        <5>1. PICK d \in Colls : id.coll = L!CollectionID(d) /\ ~ colls[d].subset
          BY <4>2
        <5>2. file[d].written => ~ file[d].subset
          BY <1>2, <5>1, BuffersGot DEF Built
        <5>. QED BY <3>3, <5>1, <5>2 DEF PlacedInFile
      <4>. QED BY <3>3, <4>1, <4>2 DEF Placed
    <3>4. file[c].id = L!CollectionID(c)
      BY <1>2, <3>1, <3>2 DEF Built
    <3>5. asPrepared'[c] = asPrepared[c]
      BY <1>1, <2>2
    <3>. QED BY <3>1, <3>2, <3>3, <3>4, <3>5
  <2>3. FileInv(c)'
    <3>1. \A id : PlacedInFile(id) => PlacedInFile(id)'
      BY <1>1 DEF PlacedInFile
    <3>. QED BY <1>1, <2>2, <3>1 DEF FileInv
  <2>. QED BY <1>3, <2>1, <2>3 DEF Read
<1>. QED BY <1>1, <1>4, <1>5, <1>6 DEF LinkInv

\* Rewrite: a collection that was read is prepared, and its buffers are written.
LEMMA RewriteL ==
  ASSUME LinkInv, NEW c \in Colls, L!Rewrite(c)
  PROVE  LinkInv'
<1>1. /\ mode = "read" /\ colls[c].id # 0
      /\ UNCHANGED <<mode, objs, asPrepared, file, resolved>>
  BY DEF L!Rewrite
<1>2. \A d \in Colls : Read(d)
  BY <1>1 DEF LinkInv
<1>3. colls[c].prepared /\ L!GetBuffers(colls[c]) = file[c]
  BY <1>1, <1>2 DEF Read
<1>4. L!PrepareForWrite(colls[c]) = colls[c]
  BY <1>3 DEF L!PrepareForWrite
<1>5. rewritten' = [rewritten EXCEPT ![c] = file[c]] /\ colls' = colls
  BY <1>3, <1>4 DEF L!Rewrite, L!Change, LinkInv, LinkTypes
<1>6. LinkTypes'
  BY <1>1, <1>5 DEF LinkInv, LinkTypes
<1>7. \A d \in Colls : Tracked(d)' /\ \A e \in Colls : Apart(d, e)'
  BY <1>1, <1>5 DEF LinkInv, Tracked, Apart
<1>8. \A d \in Colls : rewritten'[d] = IF d = c THEN file[c] ELSE rewritten[d]
  BY <1>5 DEF LinkInv, LinkTypes
<1>9. ASSUME NEW d \in Colls
      PROVE  Read(d)'
  <2>1. FileInv(d)' /\ (LinksRead(d) => LinksRead(d)') /\ (SubsetRead(d) => SubsetRead(d)')
    BY <1>1, <1>2, <1>5 DEF Read, FileInv, PlacedInFile, LinksRead, SubsetRead
  <2>. QED BY <1>1, <1>2, <1>5, <1>8, <2>1 DEF Read
<1>. QED BY <1>1, <1>6, <1>7, <1>9 DEF LinkInv

\* BuildNavigator, and what happens when something else is looked at.
LEMMA BuildNavigatorL ==
  ASSUME LinkInv, UNCHANGED <<mode, objs, colls, asPrepared, file, resolved, rewritten>>
  PROVE  LinkInv'
<1>1. LinkTypes' /\ \A c \in Colls : Tracked(c)' /\ \A d \in Colls : Apart(c, d)'
  BY DEF LinkInv, LinkTypes, Tracked, Apart
<1>2. BuildInv => BuildInv'
  BY DEF BuildInv, Built, Placed
<1>3. \A c \in Colls : Read(c) => Read(c)'
  BY DEF Read, FileInv, PlacedInFile, LinksRead, SubsetRead
<1>. QED BY <1>1, <1>2, <1>3 DEF LinkInv

\* The position of an address among the entries.
At(s, o) == L!SelectInSeq(s, LAMBDA e : e = o)

\* It is the one where it is, or 0 if it is not there.
LEMMA Position ==
  ASSUME NEW s \in Seq(Int), NEW o
  PROVE  /\ (\A i \in DOMAIN s : s[i] # o) => At(s, o) = 0
         /\ \A i \in DOMAIN s : s[i] = o /\ (\A j \in DOMAIN s : s[j] = o => j = i) => At(s, o) = i
<1> DEFINE I == {i \in 1 .. Len(s) : s[i] = o}
           k == At(s, o)
<1>1. k = IF I # {} THEN L!Min(I) ELSE 0
  BY DEF L!SelectInSeq, At
<1> HIDE DEF k
<1>2. DOMAIN s = 1 .. Len(s)
  OBVIOUS
<1>3. ASSUME NEW i \in DOMAIN s, s[i] = o, \A j \in DOMAIN s : s[j] = o => j = i
      PROVE  k = i
  <2>1. I = {i} /\ i \in Int
    BY <1>2, <1>3
  <2>2. L!Min(I) = CHOOSE x \in {i} : \A y \in {i} : x <= y
    BY <2>1 DEF L!Min
  <2>3. L!Min(I) = i
    BY <2>1, <2>2
  <2>. QED BY <1>1, <2>1, <2>3
<1>4. (\A i \in DOMAIN s : s[i] # o) => k = 0
  BY <1>1, <1>2
<1>. QED BY <1>3, <1>4 DEF k

\* What an end is resolved to is what had been written, or nothing: no provider has
\* objects without an ID, and other IDs are of one object.
LEMMA Resolved ==
  ASSUME NEW h \in Ends, NEW available \in Providers
  PROVE  /\ L!Resolve(L!GetObjectID(h), available) \in Ends
         /\ L!SameOrGone(L!Resolve(L!GetObjectID(h), available), h)
<1>1. CASE h = L!None
  <2>1. L!GetObjectID(h) = L!Invalid
    BY <1>1 DEF L!GetObjectID
  <2>2. L!Resolve(L!GetObjectID(h), available) = L!None
    BY <2>1 DEF L!Resolve
  <2>. QED BY <2>2 DEF L!SameOrGone, Ends
<1>2. CASE h \in DOMAIN ObjectIDs
  <2>1. L!GetObjectID(h) = ObjectIDs[h]
    BY <1>2, LinksAssumption DEF L!GetObjectID
  <2>2. CASE ObjectIDs[h].coll \in available
    <3>1. ObjectIDs[h] # L!Untracked
      BY <2>2, LinksAssumption
    <3>2. \A x \in DOMAIN ObjectIDs : ObjectIDs[x] = ObjectIDs[h] => x = h
      BY <1>2, <3>1, LinksAssumption
    <3>3. (CHOOSE x \in DOMAIN ObjectIDs : ObjectIDs[x] = ObjectIDs[h]) = h
      BY <1>2, <3>2
    <3>4. L!Resolve(ObjectIDs[h], available) = h
      BY <1>2, <2>2, <3>3, LinksAssumption DEF L!Resolve
    <3>. QED BY <2>1, <3>4 DEF L!SameOrGone
  <2>3. CASE ObjectIDs[h].coll \notin available
    BY <2>1, <2>3 DEF L!Resolve, L!SameOrGone, Ends
  <2>. QED BY <2>2, <2>3
<1>. QED BY <1>1, <1>2 DEF Ends

\* What an action leaves of a collection that it is not about.
LEMMA OtherRead ==
  ASSUME LinkInv, NEW d \in Colls, Read(d), Tracked(d),
         colls'[d] = colls[d], UNCHANGED <<asPrepared, file>>, rewritten'[d] = rewritten[d],
         d \in resolved <=> d \in resolved',
         \A o \in DOMAIN objs : o \in DOMAIN objs' /\ objs'[o].id = objs[o].id,
         ~ colls[d].subset => \A k \in DOMAIN colls[d].entries : objs'[colls[d].entries[k]] = objs[colls[d].entries[k]]
  PROVE  Read(d)'
<1>1. FileInv(d)'
  BY DEF Read, FileInv, PlacedInFile
<1>2. colls[d].subset /\ SubsetRead(d) => SubsetRead(d)'
  BY DEF SubsetRead
<1>3. ~ colls[d].subset /\ LinksRead(d) => LinksRead(d)'
  BY DEF LinksRead
<1>. QED BY <1>1, <1>2, <1>3 DEF Read

\* What is made of the buffers of a file.
LEMMA FromBuffersMade ==
  ASSUME NEW f \in Files
  PROVE  /\ L!FromBuffers(f) = [subset |-> f.subset, id |-> 0, prepared |-> FALSE, entries |-> <<>>, data |-> f.data,
                                refs |-> f.refs]
         /\ f.subset \in BOOLEAN /\ f.id \in Int /\ f.data \in Seq(Weights) /\ f.refs \in Seq(Seq(IDs))
<1>1. ASSUME NEW n, n = L!FromBuffers(f)
      PROVE  n = [subset |-> f.subset, id |-> 0, prepared |-> FALSE, entries |-> <<>>, data |-> f.data, refs |-> f.refs]
  BY <1>1 DEF L!FromBuffers, L!NewCollection
<1>2. f.subset \in BOOLEAN /\ f.id \in Int /\ f.data \in Seq(Weights) /\ f.refs \in Seq(Seq(IDs))
  BY DEF Files
<1>. QED BY <1>1, <1>2, Zenon

\* The links that prepareAfterRead makes of the data, which have no ends yet.
LEMMA LinksMade ==
  ASSUME NEW r \in Collections, NEW links, links = L!LinksOf(r)
  PROVE  /\ links \in Seq(LinkObjects)
         /\ r.subset => links = <<>>
         /\ ~ r.subset => /\ DOMAIN links = DOMAIN r.data /\ Len(links) = Len(r.data)
                          /\ \A k \in DOMAIN r.data : links[k] = [id |-> L!ID(k - 1, r.id), weight |-> r.data[k],
                                                                   from |-> L!None, to |-> L!None]
<1>1. CASE r.subset
  BY <1>1 DEF L!LinksOf
<1>2. CASE ~ r.subset
  <2> DEFINE n == Len(r.data)
             link(k) == [id |-> L!ID(k - 1, r.id), weight |-> r.data[k], from |-> L!None, to |-> L!None]
  <2>1. n \in Nat /\ DOMAIN r.data = 1 .. n /\ r.id \in Int /\ \A k \in 1 .. n : r.data[k] \in Weights
    BY CollectionFields
  <2>2. ASSUME NEW k \in 1 .. n
        PROVE  /\ link(k) \in LinkObjects
               /\ [L!NewLink EXCEPT !.id = L!ID(k - 1, r.id), !.weight = r.data[k]] = link(k)
    <3>1. k - 1 \in Int
      BY <2>1
    <3>2. L!ID(k - 1, r.id) \in IDs
      BY <2>1, <3>1, Made
    <3>3. L!None \in Ends
      BY DEF Ends
    <3>4. link(k) \in LinkObjects
      BY <2>1, <3>2, <3>3 DEF LinkObjects
    <3>5. ASSUME NEW m, m = [L!NewLink EXCEPT !.id = L!ID(k - 1, r.id), !.weight = r.data[k]]
          PROVE  m = link(k)
      BY <3>5, Made
    <3>. QED BY <3>4, <3>5, Zenon
  <2> HIDE DEF link
  <2>3. links = [k \in 1 .. n |-> link(k)]
    BY <1>2, <2>1, <2>2 DEF L!LinksOf
  <2>4. links \in [1 .. n -> LinkObjects]
    BY <2>2, <2>3
  <2>5. links \in Seq(LinkObjects) /\ Len(links) = n /\ DOMAIN links = 1 .. n
    BY <2>1, <2>4, IsASeq
  <2>6. \A k \in 1 .. n : links[k] = link(k)
    BY <2>3
  <2>. QED BY <1>2, <2>1, <2>5, <2>6 DEF link
<1>. QED BY <1>1, <1>2

\* A collection that was read, with the entries that the new links will be.
MadeOf(f, raw, coll) ==
  /\ raw \in Collections /\ raw.subset = f.subset /\ raw.id = 0 /\ raw.data = f.data
  /\ coll \in Collections
  /\ coll.subset = f.subset /\ coll.id = f.id /\ coll.prepared /\ L!GetBuffers(coll) = f
  /\ L!PrepareAfterRead(raw).entries = coll.entries /\ L!PrepareAfterRead(raw).subset = coll.subset
  /\ Len(coll.entries) = Len(L!LinksOf(raw)) /\ DOMAIN coll.entries = DOMAIN L!LinksOf(raw)
  /\ \A k \in DOMAIN coll.entries : coll.entries[k] = Len(objs) + k

\* PrepareAfterRead makes such a collection, and setID leaves the buffers alone.
LEMMA LoadMakes ==
  ASSUME LinkInv, mode = "read", NEW c \in Colls, file[c].written,
         NEW raw, raw = L!FromBuffers(file[c]),
         NEW coll, coll = [L!PrepareAfterRead(raw) EXCEPT !.id = file[c].id]
  PROVE  MadeOf(file[c], raw, coll)
<1> DEFINE f == file[c]
           n == Len(L!LinksOf(raw))
           es == [k \in DOMAIN L!LinksOf(raw) |-> Len(objs) + k]
<1>1. f \in Files /\ Len(objs) \in Nat
  BY DEF LinkInv, LinkTypes
<1>2. f.subset \in BOOLEAN /\ f.id \in Int /\ f.data \in Seq(Weights) /\ f.refs \in Seq(Seq(IDs))
  BY <1>1, FromBuffersMade
<1>3. /\ raw = [subset |-> f.subset, id |-> 0, prepared |-> FALSE, entries |-> <<>>, data |-> f.data, refs |-> f.refs]
      /\ raw \in Collections
  <2>1. raw = [subset |-> f.subset, id |-> 0, prepared |-> FALSE, entries |-> <<>>, data |-> f.data, refs |-> f.refs]
    BY <1>1, FromBuffersMade
  <2>2. 0 \in Int /\ FALSE \in BOOLEAN /\ <<>> \in Seq(Int)
    OBVIOUS
  <2>3. [subset |-> f.subset, id |-> 0, prepared |-> FALSE, entries |-> <<>>, data |-> f.data, refs |-> f.refs]
          \in Collections
    BY <1>2, <2>2, FieldsTyped, Zenon
  <2>. QED BY <2>1, <2>3
<1>4. /\ raw.subset = f.subset /\ raw.id = 0 /\ raw.data = f.data /\ raw.refs = f.refs
  BY <1>3
<1>5. L!LinksOf(raw) \in Seq(LinkObjects)
  BY <1>3, LinksMade
<1>6. n \in Nat /\ DOMAIN L!LinksOf(raw) = 1 .. n
  BY <1>5
<1>7. es \in Seq(Int) /\ Len(es) = n /\ DOMAIN es = 1 .. n /\ \A k \in 1 .. n : es[k] = Len(objs) + k
  <2>1. es \in [1 .. n -> Int]
    BY <1>1, <1>6
  <2>2. \A k \in 1 .. n : es[k] = Len(objs) + k
    BY <1>6
  <2>. QED BY <1>6, <2>1, <2>2, IsASeq
<1> DEFINE es0 == es
<1>8. L!PrepareAfterRead(raw) = [[raw EXCEPT !.prepared = TRUE] EXCEPT !.entries = es]
  BY DEF L!PrepareAfterRead, L!Ready
<1> HIDE DEF es
<1>9. LET ready == [raw EXCEPT !.prepared = TRUE] IN
      /\ ready \in Collections /\ ready.prepared = TRUE /\ ready.subset = f.subset /\ ready.id = 0
      /\ ready.data = f.data /\ ready.refs = f.refs
  <2>1. [raw EXCEPT !.prepared = TRUE] =
          [subset |-> raw.subset, id |-> raw.id, prepared |-> TRUE, entries |-> raw.entries, data |-> raw.data,
           refs |-> raw.refs]
    BY <1>3, FieldsChanged, Zenon
  <2>2. TRUE \in BOOLEAN
    OBVIOUS
  <2>3. [subset |-> raw.subset, id |-> raw.id, prepared |-> TRUE, entries |-> raw.entries, data |-> raw.data,
         refs |-> raw.refs] \in Collections
    BY <1>3, <2>2, CollectionFields, FieldsTyped, Zenon
  <2>. QED BY <1>4, <2>1, <2>3
<1>10. LET read == L!PrepareAfterRead(raw) IN
       /\ read \in Collections /\ read.prepared = TRUE /\ read.subset = f.subset /\ read.id = 0 /\ read.entries = es
       /\ read.data = f.data /\ read.refs = f.refs
  <2> DEFINE ready == [raw EXCEPT !.prepared = TRUE]
             read == L!PrepareAfterRead(raw)
  <2>1. /\ ready \in Collections /\ ready.prepared = TRUE /\ ready.subset = f.subset /\ ready.id = 0
        /\ ready.data = f.data /\ ready.refs = f.refs
    BY <1>9
  <2>2. read = [ready EXCEPT !.entries = es]
    BY <1>8
  <2> HIDE DEF ready, read
  <2>3. /\ read = [subset |-> ready.subset, id |-> ready.id, prepared |-> ready.prepared, entries |-> es,
                   data |-> ready.data, refs |-> ready.refs]
        /\ read \in Collections
    BY <1>7, <2>1, <2>2, EntriesChanged, Zenon
  <2>4. /\ read \in Collections /\ read.prepared = TRUE /\ read.subset = f.subset /\ read.id = 0 /\ read.entries = es
        /\ read.data = f.data /\ read.refs = f.refs
    BY <2>1, <2>3
  <2>. QED BY <2>4 DEF read
<1>11. coll = [subset |-> f.subset, id |-> f.id, prepared |-> TRUE, entries |-> es, data |-> f.data, refs |-> f.refs]
  <2> DEFINE read == L!PrepareAfterRead(raw)
  <2>1. coll = [subset |-> read.subset, id |-> f.id, prepared |-> read.prepared, entries |-> read.entries,
                data |-> read.data, refs |-> read.refs]
    BY <1>10, FieldsChanged, Zenon
  <2>. QED BY <1>10, <2>1
<1>12. coll \in Collections
  <2>1. TRUE \in BOOLEAN
    OBVIOUS
  <2>2. [subset |-> f.subset, id |-> f.id, prepared |-> TRUE, entries |-> es, data |-> f.data, refs |-> f.refs]
          \in Collections
    BY <1>2, <1>7, <2>1, FieldsTyped, Zenon
  <2>. QED BY <1>11, <2>2
<1>13. /\ coll.subset = f.subset /\ coll.id = f.id /\ coll.prepared /\ coll.entries = es
       /\ coll.data = f.data /\ coll.refs = f.refs
       /\ L!PrepareAfterRead(raw).entries = es /\ L!PrepareAfterRead(raw).subset = f.subset
  BY <1>10, <1>11
<1>14. L!GetBuffers(coll) = f
  <2>1. L!GetBuffers(coll) = [written |-> TRUE, subset |-> f.subset, id |-> f.id, data |-> f.data, refs |-> f.refs]
    BY <1>13 DEF L!GetBuffers
  <2>2. f.written = TRUE
    BY <1>1 DEF Files
  <2>3. f = [written |-> f.written, subset |-> f.subset, id |-> f.id, data |-> f.data, refs |-> f.refs]
    BY <1>1 DEF Files
  <2>. QED BY <2>1, <2>2, <2>3
<1>. QED BY <1>3, <1>4, <1>6, <1>7, <1>12, <1>13, <1>14 DEF MadeOf

\* Load: the new links are at the end of what is there.
LEMMA LoadL ==
  ASSUME LinkInv, NEW c \in Colls, L!Load(c)
  PROVE  LinkInv'
<1>0. SUFFICES ASSUME NEW raw, raw = L!FromBuffers(file[c]),
                    NEW coll, coll = [L!PrepareAfterRead(raw) EXCEPT !.id = file[c].id],
                    NEW prepared, prepared = L!PrepareAfterRead(raw),
                    NEW links, links = L!LinksOf(raw),
                    NEW store, store = objs \o links
             PROVE  LinkInv'
  OBVIOUS
<1> DEFINE m == Len(objs)
<1>1. /\ mode = "read" /\ file[c].written /\ colls[c].id = 0
      /\ objs' = L!SetID(L!PrepareAfterRead(raw), file[c].id, store)
      /\ colls' = [colls EXCEPT ![c] = coll]
      /\ UNCHANGED <<mode, asPrepared, file, resolved, rewritten>>
  BY <1>0, Zenon DEF L!Load, L!Change
<1>2. /\ raw \in Collections /\ raw.subset = file[c].subset /\ raw.id = 0 /\ raw.data = file[c].data
      /\ coll \in Collections
      /\ coll.subset = file[c].subset /\ coll.id = file[c].id /\ coll.prepared /\ L!GetBuffers(coll) = file[c]
      /\ L!PrepareAfterRead(raw).entries = coll.entries /\ L!PrepareAfterRead(raw).subset = coll.subset
      /\ Len(coll.entries) = Len(links) /\ DOMAIN coll.entries = DOMAIN links
      /\ \A k \in DOMAIN coll.entries : coll.entries[k] = m + k
  <2>1. MadeOf(file[c], raw, coll)
    BY <1>0, <1>1, LoadMakes
  <2>. QED BY <1>0, <2>1 DEF MadeOf
<1>3. /\ links \in Seq(LinkObjects)
      /\ coll.subset => links = <<>>
      /\ ~ coll.subset =>
            /\ DOMAIN links = DOMAIN file[c].data /\ Len(links) = Len(file[c].data)
            /\ \A k \in DOMAIN links : links[k] = [id |-> L!ID(k - 1, 0), weight |-> file[c].data[k],
                                                    from |-> L!None, to |-> L!None]
  <2>1. /\ links \in Seq(LinkObjects)
        /\ raw.subset => links = <<>>
        /\ ~ raw.subset => /\ DOMAIN links = DOMAIN raw.data /\ Len(links) = Len(raw.data)
                           /\ \A k \in DOMAIN raw.data : links[k] = [id |-> L!ID(k - 1, raw.id), weight |-> raw.data[k],
                                                                      from |-> L!None, to |-> L!None]
    BY <1>0, <1>2, LinksMade
  <2>. QED BY <1>2, <2>1
<1>4. /\ \A d \in Colls : Read(d) /\ Tracked(d)
      /\ objs \in Seq(LinkObjects) /\ m \in Nat /\ DOMAIN objs = 1 .. m /\ file[c].id \in Int
  BY <1>1, FromBuffersMade DEF LinkInv, LinkTypes
<1>5. /\ store \in Seq(LinkObjects) /\ Len(store) = m + Len(links) /\ DOMAIN store = 1 .. m + Len(links)
      /\ DOMAIN links = 1 .. Len(links) /\ Len(links) \in Nat
      /\ \A o \in 1 .. m : store[o] = objs[o]
      /\ \A k \in DOMAIN links : store[m + k] = links[k]
  BY <1>0, <1>3, <1>4
<1>6. objs' = L!SetID(prepared, file[c].id, store) /\ prepared.entries = coll.entries /\ prepared.subset = coll.subset
  BY <1>0, <1>1, <1>2
<1>7. /\ objs' \in Seq(LinkObjects) /\ DOMAIN objs' = DOMAIN store
      /\ \A o \in DOMAIN store :
           /\ objs'[o].weight = store[o].weight
           /\ objs'[o].from = store[o].from
           /\ objs'[o].to = store[o].to
           /\ IF InCollection(prepared, o) THEN objs'[o].id = L!ID(store[o].id.index, file[c].id) ELSE objs'[o] = store[o]
  BY <1>4, <1>5, <1>6, IDsSet
<1>8. \A o \in DOMAIN objs : o \in DOMAIN objs' /\ objs'[o] = objs[o]
  <2> SUFFICES ASSUME NEW o \in DOMAIN objs
               PROVE  o \in DOMAIN objs' /\ objs'[o] = objs[o]
    OBVIOUS
  <2>1. o \in 1 .. m /\ o \in DOMAIN store /\ store[o] = objs[o]
    BY <1>4, <1>5
  <2>2. \A k \in DOMAIN coll.entries : coll.entries[k] # o
    BY <1>2, <1>4, <1>5, <2>1
  <2>3. ~ InCollection(prepared, o)
    BY <1>6, <2>2 DEF InCollection
  <2>. QED BY <1>7, <2>1, <2>3
<1>9. ASSUME ~ coll.subset, NEW k \in DOMAIN coll.entries
      PROVE  /\ coll.entries[k] \in DOMAIN objs'
             /\ objs'[coll.entries[k]].id = L!ID(k - 1, file[c].id)
             /\ objs'[coll.entries[k]].weight = file[c].data[k]
             /\ objs'[coll.entries[k]].from = L!None /\ objs'[coll.entries[k]].to = L!None
  <2>1. coll.entries[k] = m + k /\ k \in DOMAIN links /\ m + k \in DOMAIN store /\ store[m + k] = links[k]
    BY <1>2, <1>4, <1>5, <1>9
  <2>2. InCollection(prepared, m + k)
    BY <1>6, <1>9, <2>1 DEF InCollection
  <2>3. links[k] = [id |-> L!ID(k - 1, 0), weight |-> file[c].data[k], from |-> L!None, to |-> L!None]
    BY <1>3, <1>9, <2>1
  <2>4. /\ links[k].id.index = k - 1 /\ links[k].weight = file[c].data[k]
        /\ links[k].from = L!None /\ links[k].to = L!None
    BY <2>3 DEF L!ID
  <2>. QED BY <1>7, <2>1, <2>2, <2>4
<1>10. /\ colls' \in [Colls -> Collections]
       /\ \A d \in Colls : colls'[d] = IF d = c THEN coll ELSE colls[d]
  BY <1>1, <1>2 DEF LinkInv, LinkTypes
<1>11. LinkTypes'
  BY <1>1, <1>7, <1>10 DEF LinkInv, LinkTypes
<1>12. ASSUME NEW d \in Colls
       PROVE  Tracked(d)'
  <2>1. CASE d = c
    BY <1>2, <1>9, <1>10, <2>1 DEF Tracked
  <2>2. CASE d # c
    BY <1>4, <1>8, <1>10, <2>2 DEF Tracked
  <2>. QED BY <2>1, <2>2
<1>13. ASSUME NEW d \in Colls, NEW e \in Colls
       PROVE  Apart(d, e)'
  <2>1. \A x \in Colls : x # c /\ ~ colls[x].subset => \A i \in DOMAIN colls[x].entries : colls[x].entries[i] \in 1 .. m
    BY <1>4 DEF Tracked
  <2>2. \A k \in DOMAIN coll.entries : coll.entries[k] \notin 1 .. m
    BY <1>2, <1>4, <1>5
  <2>. QED BY <1>10, <2>1, <2>2 DEF LinkInv, Apart
<1>14. ASSUME NEW d \in Colls
       PROVE  Read(d)'
  <2>1. CASE d # c
    <3>1. ~ colls[d].subset => \A k \in DOMAIN colls[d].entries : objs'[colls[d].entries[k]] = objs[colls[d].entries[k]]
      BY <1>4, <1>8 DEF Tracked
    <3>2. colls'[d] = colls[d]
      BY <1>10, <2>1
    <3>. QED BY <1>1, <1>4, <1>8, <3>1, <3>2, OtherRead
  <2>2. CASE d = c
    <3>1. /\ FileInv(c) /\ c \notin resolved /\ file[c].id = L!CollectionID(c) /\ file[c].id # 0
          /\ Matches(file[c].subset, file[c].data, file[c].refs, asPrepared[c])
          /\ rewritten[c].written => rewritten[c] = file[c]
      BY <1>1, <1>4, CollectionIDs DEF Read, FileInv
    <3>2. FileInv(c)'
      BY <1>1, <3>1 DEF FileInv, PlacedInFile
    <3>3. colls'[c] = coll
      BY <1>10
    <3>4. CASE coll.subset
      <4>1. coll.entries = <<>>
        <5>1. Len(coll.entries) = 0
          BY <1>2, <1>3, <3>4
        <5>. QED BY <1>2, <5>1, CollectionFields
      <4>2. SubsetRead(c)'
        BY <1>1, <3>1, <3>3, <4>1 DEF SubsetRead
      <4>. QED BY <1>1, <1>2, <2>2, <3>1, <3>2, <3>3, <3>4, <4>2 DEF Read
    <3>5. CASE ~ coll.subset
      <4>1. /\ asPrepared[c] \in Seq(LinkValues)
            /\ file[c].data = [k \in DOMAIN asPrepared[c] |-> asPrepared[c][k].weight]
        BY <1>2, <3>1, <3>5 DEF Matches
      <4>2. DOMAIN file[c].data = DOMAIN asPrepared[c] /\ Len(file[c].data) = Len(asPrepared[c])
        <5>1. file[c].data \in Seq(Weights)
          BY FromBuffersMade DEF LinkInv, LinkTypes
        <5>2. DOMAIN file[c].data = DOMAIN asPrepared[c]
          BY <4>1
        <5>. QED BY <4>1, <5>1, <5>2, SameLength
      <4>3. LinksRead(c)'
        <5>1. Len(coll.entries) = Len(asPrepared[c]) /\ DOMAIN coll.entries = DOMAIN asPrepared[c]
          BY <1>2, <1>3, <3>5, <4>2
        <5>2. ASSUME NEW k \in DOMAIN coll.entries
              PROVE  /\ objs'[coll.entries[k]].weight = asPrepared[c][k].weight
                     /\ L!SameOrGone(objs'[coll.entries[k]].from, asPrepared[c][k].from)
                     /\ L!SameOrGone(objs'[coll.entries[k]].to, asPrepared[c][k].to)
          <6>1. file[c].data[k] = asPrepared[c][k].weight
            BY <4>1, <5>1
          <6>. QED BY <1>9, <3>5, <6>1 DEF L!SameOrGone
        <5>. QED BY <1>1, <3>3, <5>1, <5>2 DEF LinksRead
      <4>. QED BY <1>1, <1>2, <2>2, <3>1, <3>2, <3>3, <3>5, <4>3 DEF Read
    <3>. QED BY <3>4, <3>5
  <2>. QED BY <2>1, <2>2
<1>. QED BY <1>1, <1>11, <1>12, <1>13, <1>14 DEF LinkInv

\* The link that a subset collection finds has the ID that was written.
LEMMA LinkResolved ==
  ASSUME LinkInv, mode = "read", NEW id \in IDs, PlacedInFile(id), NEW e, e = L!ResolveLink(id)
  PROVE  e \in {L!NotPresent, L!Outside} \/ (e \in DOMAIN objs /\ objs[e].id = id)
<1> DEFINE owners == {d \in Colls : colls[d].id # 0 /\ colls[d].id = id.coll}
           owner == CHOOSE d \in owners : TRUE
<1>1. CASE owners = {}
  BY <1>1 DEF L!ResolveLink
<1>2. CASE owners # {}
  <2>1. owner \in Colls /\ colls[owner].id # 0 /\ colls[owner].id = id.coll
    BY <1>2
  <2> HIDE DEF owner
  <2>2. Read(owner) /\ Tracked(owner) /\ colls[owner] \in Collections
    BY <2>1 DEF LinkInv, LinkTypes
  <2>3. file[owner].written /\ L!GetBuffers(colls[owner]) = file[owner] /\ file[owner].id = L!CollectionID(owner)
    BY <2>1, <2>2 DEF Read, FileInv
  <2>4. file[owner].id = colls[owner].id /\ file[owner].subset = colls[owner].subset
    BY <2>2, <2>3, BuffersGot
  <2>5. PICK d \in Colls : id.coll = L!CollectionID(d) /\ (file[d].written => ~ file[d].subset)
    BY <2>1 DEF PlacedInFile
  <2>6. d = owner
    BY <2>1, <2>3, <2>4, <2>5, CollectionIDs
  <2>7. ~ colls[owner].subset
    BY <2>3, <2>4, <2>5, <2>6
  <2>8. id.index \in Nat /\ id = L!ID(id.index, id.coll)
    BY DEF PlacedInFile, IDs, L!ID
  <2>9. e = IF id.index < Len(colls[owner].entries) THEN colls[owner].entries[id.index + 1] ELSE L!Outside
    BY <1>2 DEF L!ResolveLink, owner
  <2>10. ASSUME id.index < Len(colls[owner].entries)
         PROVE  e \in DOMAIN objs /\ objs[e].id = id
    <3>1. id.index + 1 \in DOMAIN colls[owner].entries /\ (id.index + 1) - 1 = id.index
      BY <2>2, <2>8, <2>10, CollectionFields
    <3>. QED BY <2>1, <2>2, <2>7, <2>8, <2>9, <2>10, <3>1 DEF Tracked
  <2>. QED BY <2>9, <2>10
<1>. QED BY <1>1, <1>2

\* SetReferences.
LEMMA SetReferencesL ==
  ASSUME LinkInv, NEW c \in Colls, NEW available \in Providers, L!SetReferences(c, available)
  PROVE  LinkInv'
<1>1. /\ mode = "read" /\ colls[c].id # 0 /\ c \notin resolved
      /\ resolved' = resolved \cup {c}
      /\ UNCHANGED <<mode, asPrepared, file, rewritten>>
  BY DEF L!SetReferences
<1>2. /\ \A d \in Colls : Read(d) /\ Tracked(d) /\ colls[d] \in Collections
      /\ objs \in Seq(LinkObjects) /\ asPrepared[c] \in Seq(IDs \cup LinkValues)
  BY <1>1 DEF LinkInv, LinkTypes
<1>3. /\ file[c].written /\ L!GetBuffers(colls[c]) = file[c] /\ colls[c].prepared
      /\ IF colls[c].subset THEN SubsetRead(c) ELSE LinksRead(c)
      /\ FileInv(c)
  BY <1>1, <1>2 DEF Read
<1>4. /\ file[c].subset = colls[c].subset /\ file[c].id = colls[c].id /\ file[c].data = colls[c].data
      /\ file[c].refs = colls[c].refs
      /\ colls[c].entries \in Seq(Int)
  BY <1>2, <1>3, BuffersGot, CollectionFields
<1>5. /\ Matches(colls[c].subset, colls[c].data, colls[c].refs, asPrepared[c])
      /\ colls[c].subset => \A k \in DOMAIN asPrepared[c] : PlacedInFile(asPrepared[c][k])
  BY <1>3, <1>4 DEF FileInv
<1>6. CASE colls[c].subset
  <2> DEFINE prep == asPrepared[c]
             es == [k \in DOMAIN prep |-> L!ResolveLink(prep[k])]
             coll == [colls[c] EXCEPT !.entries = es]
  <2>1. prep \in Seq(IDs) /\ colls[c].refs = <<prep>> /\ colls[c].entries = <<>>
    BY <1>1, <1>3, <1>5, <1>6 DEF Matches, SubsetRead
  <2>2. ASSUME NEW k \in DOMAIN prep
        PROVE  /\ L!ResolveLink(prep[k]) \in Int
               /\ \/ L!ResolveLink(prep[k]) \in {L!NotPresent, L!Outside}
                  \/ L!ResolveLink(prep[k]) \in DOMAIN objs /\ objs[L!ResolveLink(prep[k])].id = prep[k]
    <3>1. prep[k] \in IDs /\ PlacedInFile(prep[k])
      BY <1>5, <1>6, <2>1
    <3>2. \/ L!ResolveLink(prep[k]) \in {L!NotPresent, L!Outside}
          \/ L!ResolveLink(prep[k]) \in DOMAIN objs /\ objs[L!ResolveLink(prep[k])].id = prep[k]
      BY <1>1, <3>1, LinkResolved
    <3>3. L!NotPresent \in Int /\ L!Outside \in Int /\ DOMAIN objs \subseteq Int
      BY <1>2 DEF L!NotPresent, L!Outside
    <3>. QED BY <3>2, <3>3
  <2>3. /\ es \in Seq(Int) /\ Len(es) = Len(prep) /\ DOMAIN es = DOMAIN prep
        /\ \A k \in DOMAIN prep : es[k] = L!ResolveLink(prep[k])
    <3>1. Len(prep) \in Nat /\ DOMAIN prep = 1 .. Len(prep)
      BY <2>1
    <3>2. es \in [1 .. Len(prep) -> Int]
      BY <2>2, <3>1
    <3>3. \A k \in DOMAIN prep : es[k] = L!ResolveLink(prep[k])
      OBVIOUS
    <3> HIDE DEF es
    <3>. QED BY <3>1, <3>2, <3>3, IsASeq
  <2>4. objs' = objs /\ colls' = [colls EXCEPT ![c] = coll]
    <3>1. /\ UNCHANGED objs
          /\ colls' = [colls EXCEPT ![c] = [colls[c] EXCEPT !.entries = colls[c].entries \o
                          [k \in DOMAIN colls[c].refs[1] |-> L!ResolveLink(colls[c].refs[1][k])]]]
      BY <1>6 DEF L!SetReferences, L!Change
    <3>2. colls[c].refs[1] = prep
      BY <2>1
    <3>3. colls[c].entries \o es = es
      <4> HIDE DEF es
      <4>. QED BY <2>1, <2>3
    <3>4. [k \in DOMAIN colls[c].refs[1] |-> L!ResolveLink(colls[c].refs[1][k])] = es
      BY <3>2
    <3>. QED BY <3>1, <3>3, <3>4
  <2> HIDE DEF es
  <2>5. /\ coll = [subset |-> colls[c].subset, id |-> colls[c].id, prepared |-> colls[c].prepared, entries |-> es,
                   data |-> colls[c].data, refs |-> colls[c].refs]
        /\ coll \in Collections
    BY <1>2, <2>3, EntriesChanged
  <2>6. /\ coll.subset = colls[c].subset /\ coll.id = colls[c].id /\ coll.prepared = colls[c].prepared
        /\ coll.entries = es /\ coll.data = colls[c].data /\ coll.refs = colls[c].refs
    BY <2>5
  <2> HIDE DEF coll
  <2>7. /\ colls' \in [Colls -> Collections]
        /\ \A d \in Colls : colls'[d] = IF d = c THEN coll ELSE colls[d]
    BY <2>4, <2>5 DEF LinkInv, LinkTypes
  <2>8. LinkTypes'
    BY <1>1, <2>4, <2>7 DEF LinkInv, LinkTypes
  <2>9. ASSUME NEW d \in Colls
        PROVE  Tracked(d)'
    <3>1. CASE d = c
      BY <1>6, <2>6, <2>7, <3>1 DEF Tracked
    <3>2. CASE d # c
      BY <1>2, <2>4, <2>7, <3>2 DEF Tracked
    <3>. QED BY <3>1, <3>2
  <2>10. ASSUME NEW d \in Colls, NEW e \in Colls
         PROVE  Apart(d, e)'
    <3>1. Apart(d, e)
      BY DEF LinkInv
    <3>2. d = c \/ e = c => Apart(d, e)'
      BY <1>6, <2>6, <2>7 DEF Apart
    <3>3. d # c /\ e # c => colls'[d] = colls[d] /\ colls'[e] = colls[e]
      BY <2>7
    <3>. QED BY <3>1, <3>2, <3>3 DEF Apart
  <2>11. ASSUME NEW d \in Colls
         PROVE  Read(d)'
    <3>1. CASE d # c
      <4>1. d \in resolved <=> d \in resolved'
        BY <1>1, <3>1
      <4>2. colls'[d] = colls[d]
        BY <2>7, <3>1
      <4>. QED BY <1>1, <1>2, <2>4, <4>1, <4>2, OtherRead
    <3>2. CASE d = c
      <4>1. colls'[c] = coll
        BY <2>7
      <4>2. SubsetRead(c)'
        <5>1. c \in resolved'
          BY <1>1
        <5>2. \A k \in DOMAIN coll.entries : \/ coll.entries[k] \in {L!NotPresent, L!Outside}
                                             \/ coll.entries[k] \in DOMAIN objs /\ objs[coll.entries[k]].id = asPrepared[c][k]
          BY <2>2, <2>3, <2>6
        <5>3. Len(coll.entries) = Len(asPrepared[c])
          BY <2>3, <2>6
        <5>. QED BY <1>1, <2>4, <4>1, <5>1, <5>2, <5>3 DEF SubsetRead
      <4>3. L!GetBuffers(coll) = file[c]
        BY <1>3, <2>6 DEF L!GetBuffers
      <4>4. FileInv(c)' /\ (rewritten'[c].written => rewritten'[c] = file'[c])
        BY <1>1, <1>2, <1>3 DEF FileInv, PlacedInFile, Read
      <4>. QED BY <1>1, <1>3, <1>6, <2>6, <3>2, <4>1, <4>2, <4>3, <4>4 DEF Read
    <3>. QED BY <3>1, <3>2
  <2>. QED BY <1>1, <2>8, <2>9, <2>10, <2>11 DEF LinkInv
<1>7. CASE ~ colls[c].subset
  <2> DEFINE prep == asPrepared[c]
             from(k) == L!Resolve(colls[c].refs[1][k], available)
             to(k) == L!Resolve(colls[c].refs[2][k], available)
             pos(o) == At(colls[c].entries, o)
  <2>1. /\ prep \in Seq(LinkValues)
        /\ colls[c].refs = << [k \in DOMAIN prep |-> L!GetObjectID(prep[k].from)],
                              [k \in DOMAIN prep |-> L!GetObjectID(prep[k].to)] >>
        /\ LinksRead(c)
    BY <1>3, <1>5, <1>7 DEF Matches
  <2>2. /\ objs' = [o \in DOMAIN objs |-> IF pos(o) = 0 THEN objs[o]
                                          ELSE [objs[o] EXCEPT !.from = from(pos(o)), !.to = to(pos(o))]]
        /\ colls' = colls
    BY <1>7, Zenon DEF L!SetReferences, At
  <2>3. Len(colls[c].entries) = Len(prep) /\ DOMAIN colls[c].entries = DOMAIN prep
    BY <1>4, <2>1 DEF LinksRead
  <2>4. ASSUME NEW k \in DOMAIN prep
        PROVE  /\ from(k) \in Ends /\ L!SameOrGone(from(k), prep[k].from)
               /\ to(k) \in Ends /\ L!SameOrGone(to(k), prep[k].to)
    <3>1. prep[k].from \in Ends /\ prep[k].to \in Ends
      <4>1. prep[k] \in LinkValues
        BY <2>1
      <4>. QED BY <4>1 DEF LinkValues
    <3>2. colls[c].refs[1][k] = L!GetObjectID(prep[k].from) /\ colls[c].refs[2][k] = L!GetObjectID(prep[k].to)
      BY <2>1
    <3>. QED BY <3>1, <3>2, Resolved
  <2> HIDE DEF from, to
  <2>5. ASSUME NEW k \in DOMAIN prep
        PROVE  pos(colls[c].entries[k]) = k
    <3> DEFINE s == colls[c].entries
    <3>1. \A j \in DOMAIN s : s[j] = s[k] => j = k
      <4> SUFFICES ASSUME NEW j \in DOMAIN s, s[j] = s[k]
                   PROVE  j = k
        OBVIOUS
      <4>1. j \in Int /\ k \in Int /\ k \in DOMAIN s
        BY <1>4, <2>3
      <4>2. L!ID(j - 1, colls[c].id) = L!ID(k - 1, colls[c].id)
        BY <1>2, <1>7, <4>1 DEF Tracked
      <4>3. j - 1 = k - 1
        BY <4>2 DEF L!ID
      <4>. QED BY <4>1, <4>3
    <3>. QED BY <1>4, <2>3, <3>1, Position
  <2>6. \A o : (\A i \in DOMAIN colls[c].entries : colls[c].entries[i] # o) => pos(o) = 0
    BY <1>4, Position
  <2> HIDE DEF pos
  <2> DEFINE new(o, k) == [id |-> objs[o].id, weight |-> objs[o].weight, from |-> from(k), to |-> to(k)]
  <2>7. ASSUME NEW o \in DOMAIN objs, NEW k \in DOMAIN prep
        PROVE  [objs[o] EXCEPT !.from = from(k), !.to = to(k)] = new(o, k) /\ new(o, k) \in LinkObjects
    <3>1. objs[o] \in LinkObjects
      BY <1>2
    <3>2. ASSUME NEW n, n = [objs[o] EXCEPT !.from = from(k), !.to = to(k)]
          PROVE  n = new(o, k)
      BY <3>1, <3>2 DEF LinkObjects
    <3>3. new(o, k) \in LinkObjects
      BY <2>4, <3>1, LinkFields DEF LinkObjects
    <3>. QED BY <3>2, <3>3, Zenon
  <2>8. \A o \in DOMAIN objs :
           IF \E k \in DOMAIN prep : colls[c].entries[k] = o
           THEN \E k \in DOMAIN prep : colls[c].entries[k] = o /\ k # 0 /\ pos(o) = k
           ELSE pos(o) = 0
    <3>1. \A k \in DOMAIN prep : k # 0
      BY <2>1
    <3>. QED BY <2>3, <2>5, <2>6, <3>1
  <2>9. ASSUME NEW o \in DOMAIN objs
        PROVE  /\ objs'[o] \in LinkObjects
               /\ objs'[o].id = objs[o].id /\ objs'[o].weight = objs[o].weight
               /\ IF \E k \in DOMAIN prep : colls[c].entries[k] = o
                  THEN \E k \in DOMAIN prep : colls[c].entries[k] = o /\ objs'[o].from = from(k) /\ objs'[o].to = to(k)
                  ELSE objs'[o] = objs[o]
    <3>1. CASE \E k \in DOMAIN prep : colls[c].entries[k] = o
      <4>1. PICK k \in DOMAIN prep : colls[c].entries[k] = o /\ k # 0 /\ pos(o) = k
        BY <2>8, <3>1
      <4>2. objs'[o] = new(o, k) /\ new(o, k) \in LinkObjects
        BY <2>2, <2>7, <4>1
      <4>3. objs'[o].id = objs[o].id /\ objs'[o].weight = objs[o].weight /\ objs'[o].from = from(k) /\ objs'[o].to = to(k)
        BY <4>2
      <4>. QED BY <3>1, <4>1, <4>2, <4>3
    <3>2. CASE ~ \E k \in DOMAIN prep : colls[c].entries[k] = o
      <4>1. objs'[o] = objs[o]
        BY <2>2, <2>8, <3>2
      <4>. QED BY <1>2, <3>2, <4>1
    <3>. QED BY <3>1, <3>2
  <2>10. DOMAIN objs' = DOMAIN objs /\ objs' \in Seq(LinkObjects)
    <3>1. Len(objs) \in Nat /\ DOMAIN objs = 1 .. Len(objs)
      BY <1>2
    <3>2. DOMAIN objs' = DOMAIN objs
      BY <2>2
    <3>3. objs' \in [1 .. Len(objs) -> LinkObjects]
      <4>1. objs' = [o \in DOMAIN objs |-> objs'[o]]
        BY <2>2
      <4>. QED BY <2>9, <3>1, <4>1
    <3>. QED BY <3>1, <3>2, <3>3, IsASeq
  <2>11. LinkTypes'
    BY <1>1, <2>2, <2>10 DEF LinkInv, LinkTypes
  <2>12. ASSUME NEW d \in Colls
         PROVE  Tracked(d)'
    <3>1. Tracked(d) /\ colls'[d] = colls[d]
      BY <1>2, <2>2
    <3>2. ASSUME ~ colls[d].subset, NEW k \in DOMAIN colls[d].entries
          PROVE  /\ colls[d].entries[k] \in DOMAIN objs'
                 /\ objs'[colls[d].entries[k]].id = L!ID(k - 1, colls[d].id)
      BY <2>9, <2>10, <3>1, <3>2 DEF Tracked
    <3>. QED BY <3>1, <3>2 DEF Tracked
  <2>13. ASSUME NEW d \in Colls, NEW e \in Colls
         PROVE  Apart(d, e)'
    <3>1. Apart(d, e)
      BY DEF LinkInv
    <3>. QED BY <2>2, <3>1, Zenon DEF Apart
  <2>14. ASSUME NEW d \in Colls
         PROVE  Read(d)'
    <3>1. CASE d # c
      <4>1. d \in resolved <=> d \in resolved'
        BY <1>1, <3>1
      <4>2. ASSUME ~ colls[d].subset, NEW i \in DOMAIN colls[d].entries
            PROVE  objs'[colls[d].entries[i]] = objs[colls[d].entries[i]]
        <5>1. colls[d].entries[i] \in DOMAIN objs
          BY <1>2, <4>2 DEF Tracked
        <5>2. \A k \in DOMAIN prep : colls[c].entries[k] # colls[d].entries[i]
          BY <1>7, <2>3, <3>1, <4>2 DEF LinkInv, Apart
        <5>. QED BY <2>9, <5>1, <5>2
      <4>3. \A o \in DOMAIN objs : o \in DOMAIN objs' /\ objs'[o].id = objs[o].id
        BY <2>9, <2>10
      <4>4. colls'[d] = colls[d]
        BY <2>2
      <4>. QED BY <1>1, <1>2, <4>1, <4>2, <4>3, <4>4, OtherRead
    <3>2. CASE d = c
      <4>1. ASSUME NEW k \in DOMAIN colls[c].entries
            PROVE  LET o == objs'[colls[c].entries[k]] IN
                   /\ o.weight = prep[k].weight
                   /\ L!SameOrGone(o.from, prep[k].from)
                   /\ L!SameOrGone(o.to, prep[k].to)
        <5> DEFINE o == colls[c].entries[k]
        <5>1. o \in DOMAIN objs /\ k \in DOMAIN prep
          BY <1>2, <1>7, <2>3 DEF Tracked
        <5>2. PICK j \in DOMAIN prep : colls[c].entries[j] = o /\ objs'[o].from = from(j) /\ objs'[o].to = to(j)
          BY <2>9, <5>1
        <5>3. j = k
          BY <2>5, <5>1, <5>2
        <5>4. objs'[o].weight = prep[k].weight
          BY <2>1, <2>9, <5>1 DEF LinksRead
        <5>. QED BY <2>4, <5>2, <5>3, <5>4
      <4>2. LinksRead(c)'
        BY <1>1, <2>2, <2>3, <4>1 DEF LinksRead
      <4>3. FileInv(c)' /\ (rewritten'[c].written => rewritten'[c] = file'[c])
        BY <1>1, <1>2, <1>3 DEF FileInv, PlacedInFile, Read
      <4>. QED BY <1>1, <1>3, <1>7, <2>2, <3>2, <4>2, <4>3 DEF Read
    <3>. QED BY <3>1, <3>2
  <2>. QED BY <1>1, <2>11, <2>12, <2>13, <2>14 DEF LinkInv
<1>. QED BY <1>6, <1>7

\* The invariant at first.
LEMMA LinkInitL ==
  ASSUME L!Init
  PROVE  LinkInv
<1>1. /\ mode = "build" /\ objs = <<>> /\ resolved = {}
      /\ colls = [c \in Colls |-> L!NewCollection]
      /\ asPrepared = [c \in Colls |-> <<>>]
      /\ file = [c \in Colls |-> L!NothingWritten]
      /\ rewritten = [c \in Colls |-> L!NothingWritten]
  BY DEF L!Init
<1>2. /\ L!NewCollection \in Collections /\ L!NewCollection.entries = <<>> /\ L!NewCollection.id = 0
      /\ ~ L!NewCollection.subset /\ ~ L!NewCollection.prepared /\ L!NewCollection.data = <<>>
      /\ L!NothingWritten \in Files /\ ~ L!NothingWritten.written
  BY Made DEF L!NewCollection, L!NothingWritten
<1>3. LinkTypes
  <2>1. <<>> \in Seq(IDs \cup LinkValues) /\ <<>> \in Seq(LinkObjects) /\ Len(<<>>) = 0
    OBVIOUS
  <2>2. Len(objs) <= MaxLinks
    BY <1>1, <2>1, LinksAssumption
  <2>. QED BY <1>1, <1>2, <2>1, <2>2 DEF LinkTypes
<1>4. \A c \in Colls : Tracked(c) /\ \A d \in Colls : Apart(c, d)
  BY <1>1, <1>2 DEF Tracked, Apart
<1>5. \A c \in Colls : Built(c)
  BY <1>1, <1>2 DEF Built
<1>. QED BY <1>1, <1>3, <1>4, <1>5 DEF LinkInv, BuildInv

\* Every step of the link collections preserves the invariant.
LEMMA LinkNextL ==
  ASSUME LinkInv, L!Next
  PROVE  LinkInv'
<1>1. CASE \E o \in DOMAIN objs : L!SetLink(o)
  BY <1>1, SetLinkL
<1>2. CASE \E c \in Colls : L!Create(c)
  BY <1>2, CreateL
<1>3. CASE \E c \in Colls : L!SetSubsetCollection(c)
  BY <1>3, SetSubsetCollectionL
<1>4. CASE \E c \in Colls : L!Clear(c)
  BY <1>4, ClearL
<1>5. CASE \E c \in Colls : L!PutIntoFrame(c)
  BY <1>5, PutIntoFrameL
<1>6. CASE \E c \in Colls : L!Prepare(c)
  BY <1>6, PrepareL
<1>7. CASE \E c \in Colls : L!Write(c)
  BY <1>7, WriteL
<1>8. CASE \E c \in Colls : L!Load(c)
  BY <1>8, LoadL
<1>9. CASE \E c \in Colls : L!Rewrite(c)
  BY <1>9, RewriteL
<1>10. CASE \E c \in Colls : L!BuildNavigator(c)
  BY <1>10, BuildNavigatorL DEF L!BuildNavigator
<1>11. CASE \E c \in Colls : \E o \in DOMAIN objs : L!PushBack(c, o)
  BY <1>11, PushBackL
<1>12. CASE \E c \in Colls : \E available \in Providers : L!SetReferences(c, available)
  BY <1>12, SetReferencesL
<1>13. CASE L!MakeLink
  BY <1>13, MakeLinkL
<1>14. CASE \E o \in DOMAIN objs, r \in BOOLEAN : L!Clone(o, r)
  BY <1>14, CloneL
<1>15. CASE L!StartReading
  BY <1>15, StartReadingL
<1>. QED
  BY <1>1, <1>2, <1>3, <1>4, <1>5, <1>6, <1>7, <1>8, <1>9, <1>10, <1>11, <1>12, <1>13, <1>14, <1>15 DEF L!Next

\* The inductive invariant of LinkCollection, LinkCollectionData and LinkObj over
\* their life: filled, put into a frame, prepared, written, read and resolved.
THEOREM LinksInvariant == MemorySpec => []LinkInv
<1>1. MemoryInit => LinkInv
  BY LinkInitL DEF MemoryInit
<1>2. LinkInv /\ [MemoryNext]_memoryVars => LinkInv'
  <2> SUFFICES ASSUME LinkInv, [MemoryNext]_memoryVars
               PROVE  LinkInv'
    OBVIOUS
  <2>1. CASE L!Next
    BY <2>1, LinkNextL
  <2>2. CASE UNCHANGED linkVars
    BY <2>2, BuildNavigatorL DEF linkVars
  <2>. QED BY <2>1, <2>2 DEF MemoryNext, OnHandles, memoryVars
<1>. QED BY <1>1, <1>2, PTL DEF MemorySpec

\* The ID of every link of a normal LinkCollection is its position there and the ID
\* of the collection, whether create, push_back or prepareAfterRead gave it and
\* before and after Frame::put.
THEOREM LinksTracked == MemorySpec => []TrackedByPosition
<1>1. LinkInv => TrackedByPosition
  BY DEF LinkInv, Tracked, TrackedByPosition, L!TrackedByPosition
<1>. QED BY <1>1, LinksInvariant, PTL

\* A LinkCollection is read as it was when it was prepared first: as many links, in
\* order, with their weights and the same objects at the ends as far as these can
\* be had; and what a subset collection refers to is what has the ID.
THEOREM LinksReadAsPrepared == MemorySpec => []ReadAsPrepared
<1>1. ASSUME LinkInv
      PROVE  ReadAsPrepared
  <2> SUFFICES ASSUME mode = "read", NEW c \in resolved
               PROVE  /\ Len(colls[c].entries) = Len(asPrepared[c])
                      /\ \A k \in DOMAIN colls[c].entries :
                           IF colls[c].subset
                           THEN colls[c].entries[k] \in DOMAIN objs => objs[colls[c].entries[k]].id = asPrepared[c][k]
                           ELSE /\ objs[colls[c].entries[k]].weight = asPrepared[c][k].weight
                                /\ L!SameOrGone(objs[colls[c].entries[k]].from, asPrepared[c][k].from)
                                /\ L!SameOrGone(objs[colls[c].entries[k]].to, asPrepared[c][k].to)
    BY DEF ReadAsPrepared, L!ReadAsPrepared
  <2>1. c \in Colls /\ Read(c) /\ colls[c].id # 0
    BY <1>1 DEF LinkInv, LinkTypes, Read
  <2>2. L!NotPresent \notin DOMAIN objs /\ L!Outside \notin DOMAIN objs
    BY <1>1 DEF LinkInv, LinkTypes, L!NotPresent, L!Outside
  <2>3. CASE colls[c].subset
    BY <2>1, <2>2, <2>3 DEF Read, SubsetRead
  <2>4. CASE ~ colls[c].subset
    BY <2>1, <2>4 DEF Read, LinksRead
  <2>. QED BY <2>3, <2>4
<1>. QED BY <1>1, LinksInvariant, PTL

\* A LinkCollection that was read is written as it was, with or without its
\* references: prepareAfterRead keeps the buffers and marks it as prepared.
THEOREM LinksRewritten == MemorySpec => []RewrittenUnchanged
<1>1. ASSUME LinkInv
      PROVE  RewrittenUnchanged
  BY <1>1 DEF LinkInv, LinkTypes, BuildInv, Built, Read, RewrittenUnchanged, L!RewrittenUnchanged
<1>. QED BY <1>1, LinksInvariant, PTL
-----------------------------------------------------------------------------
(* Navigators.                                                             *)

\* What is emplaced in a multimap, element after element, is all there.
LEMMA ElementsAre ==
  ASSUME NEW n \in Nat, NEW K, NEW V, NEW e \in [1 .. n -> [key : K, value : V]]
  PROVE  L!Elements(e) = e
<1>. DEFINE map[m \in 0 .. n] == IF m = 0 THEN <<>> ELSE L!Emplace(map[m - 1], e[m].key, e[m].value)
            g == [m \in 0 .. n |-> [i \in 1 .. m |-> e[i]]]
<1>1. Len(e) = n
  OBVIOUS
<1>2. L!Elements(e) = map[n]
  BY <1>1 DEF L!Elements
<1>3. ASSUME NEW m \in 1 .. n
      PROVE  L!Emplace(g[m - 1], e[m].key, e[m].value) = g[m]
  <2>1. e[m] = [key |-> e[m].key, value |-> e[m].value]
    OBVIOUS
  <2>2. m - 1 \in 0 .. n /\ m \in 0 .. n /\ m - 1 \in Nat /\ (m - 1) + 1 = m /\ 1 .. m - 1 \subseteq 1 .. n
    OBVIOUS
  <2>3. PICK s \in Seq([key : K, value : V]) : s = g[m - 1]
    <3>1. [i \in 1 .. m - 1 |-> e[i]] \in [1 .. m - 1 -> [key : K, value : V]]
      BY <2>2
    <3>2. [i \in 1 .. m - 1 |-> e[i]] \in Seq([key : K, value : V])
      BY <2>2, <3>1, IsASeq
    <3>. QED BY <2>2, <3>2
  <2>4. Len(s) = m - 1 /\ \A i \in 1 .. m - 1 : s[i] = e[i]
    BY <2>2, <2>3
  <2>. HIDE DEF g
  <2>5. Append(s, e[m]) = [i \in 1 .. m |-> e[i]]
    <3>1. Append(s, e[m]) = [i \in 1 .. Len(s) + 1 |-> IF i = Len(s) + 1 THEN e[m] ELSE s[i]]
      OBVIOUS
    <3>. QED BY <2>2, <2>4, <3>1
  <2>6. g[m] = [i \in 1 .. m |-> e[i]]
    BY <2>2 DEF g
  <2>. QED BY <2>1, <2>3, <2>5, <2>6 DEF L!Emplace
<1>4. g = [m \in 0 .. n |-> IF m = 0 THEN <<>> ELSE L!Emplace(g[m - 1], e[m].key, e[m].value)]
  <2>1. \A m \in 0 .. n : m = 0 \/ m \in 1 .. n
    OBVIOUS
  <2>2. g[0] = <<>> /\ g = [m \in 0 .. n |-> g[m]]
    OBVIOUS
  <2>. HIDE DEF g
  <2>. QED BY <1>3, <2>1, <2>2
<1>. HIDE DEF g
<1>5. map = [m \in 0 .. n |-> IF m = 0 THEN <<>> ELSE L!Emplace(map[m - 1], e[m].key, e[m].value)]
  BY <1>4
<1>. HIDE DEF map
<1>. DEFINE T == {m \in Nat : m <= n => map[m] = g[m]}
<1>6. 0 \in T
  BY <1>4, <1>5
<1>7. ASSUME NEW m \in Nat, m \in T PROVE m + 1 \in T
  <2>1. SUFFICES ASSUME m + 1 <= n PROVE map[m + 1] = g[m + 1]
    OBVIOUS
  <2>2. m + 1 \in 1 .. n /\ m + 1 \in 0 .. n /\ m + 1 # 0 /\ (m + 1) - 1 = m /\ map[m] = g[m]
    BY <1>7, <2>1
  <2>. QED BY <1>4, <1>5, <2>2
<1>8. map[n] = g[n]
  <2>. HIDE DEF T
  <2>1. Nat \subseteq T
    BY <1>6, <1>7, Induction
  <2>. QED BY <2>1 DEF T
<1>9. g[n] = e
  BY DEF g
<1>. QED BY <1>2, <1>8, <1>9

\* A navigator has an element for each link in either map.
NavigatorOf(links) ==
  [from2to |-> [k \in DOMAIN links |-> L!FromEntry(links[k])],
   to2from |-> [k \in DOMAIN links |-> L!ToEntry(links[k])],
   links |-> links]

NavigatorInv == \E links \in Seq(LinkValues) : navigator = NavigatorOf(links)

\* BuildNavigator goes over all links of the collection.
LEMMA NavigatorBuilt ==
  ASSUME LinkInv, NEW c \in Colls, L!BuildNavigator(c)
  PROVE  NavigatorInv'
<1>. DEFINE links == L!Links(colls[c])
            n == Len(colls[c].entries)
<1>1. colls[c].entries \in Seq(Int) /\ objs \in Seq(LinkObjects)
  BY CollectionFields DEF LinkInv, LinkTypes
<1>2. n \in Nat /\ DOMAIN colls[c].entries = 1 .. n
  BY <1>1
<1>3. \A k \in 1 .. n : colls[c].entries[k] \in DOMAIN objs
  BY <1>2 DEF L!BuildNavigator, L!Range
<1>4. \A o \in DOMAIN objs : objs[o] \in LinkObjects
  BY <1>1
<1>5. links \in [1 .. n -> LinkValues]
  BY <1>2, <1>3, <1>4 DEF L!Links, LinkObjects, LinkValues
<1>6. navigator' = [from2to |-> L!Elements([k \in DOMAIN links |-> L!FromEntry(links[k])]),
                    to2from |-> L!Elements([k \in DOMAIN links |-> L!ToEntry(links[k])]),
                    links |-> links]
  BY DEF L!BuildNavigator
<1>. HIDE DEF links, n
<1>7. DOMAIN links = 1 .. n /\ links \in Seq(LinkValues)
  BY <1>2, <1>5, IsASeq
<1>. DEFINE Value == [object : Ends, weight : Weights]
            froms == [k \in 1 .. n |-> L!FromEntry(links[k])]
            tos == [k \in 1 .. n |-> L!ToEntry(links[k])]
<1>8. froms \in [1 .. n -> [key : Ends, value : Value]] /\ tos \in [1 .. n -> [key : Ends, value : Value]]
  BY <1>5 DEF L!FromEntry, L!ToEntry, LinkValues
<1>. HIDE DEF Value, froms, tos
<1>9. L!Elements(froms) = froms /\ L!Elements(tos) = tos
  BY <1>2, <1>8, ElementsAre
<1>10. navigator' = NavigatorOf(links)
  BY <1>6, <1>7, <1>9 DEF NavigatorOf, froms, tos
<1>. QED BY <1>7, <1>10 DEF NavigatorInv

\* The elements with a key and a value are those of a link.
Stands(Entry, links, key, value, l) ==
  /\ \A k \in DOMAIN links : Entry[k] = [key |-> key, value |-> value] <=> links[k] = l
  /\ \E k \in DOMAIN links : links[k] = l

\* How often a link is there.
Occurrences(links, l) == Cardinality({k \in DOMAIN links : links[k] = l})

\* Of a link there are as many elements as there are links.
LEMMA LinkedAre ==
  ASSUME NEW n \in Nat, NEW links \in [1 .. n -> LinkValues], NEW Entry, Entry \in [1 .. n -> [key : Ends, value : [object : Ends, weight : Weights]]],
         NEW key, NEW value, NEW l, Stands(Entry, links, key, value, l)
  PROVE  L!IsGiven(value, Occurrences(links, l), L!GetLinked(Entry, key))
<1>. DEFINE Found(v) == {i \in DOMAIN Entry : Entry[i] = [key |-> key, value |-> v]}
            Elems == {Entry[i].value : i \in {j \in DOMAIN Entry : Entry[j].key = key}}
<1>1. L!GetLinked(Entry, key) = [v \in Elems |-> Cardinality(Found(v))]
  BY DEF L!GetLinked, L!Cardinality, Cardinality
<1>2. value \in Elems
  <2>1. PICK k \in DOMAIN links : Entry[k] = [key |-> key, value |-> value]
    BY DEF Stands
  <2>2. Entry[k].key = key /\ Entry[k].value = value /\ k \in DOMAIN Entry
    BY <2>1
  <2>. QED BY <2>2
<1>3. Found(value) = {k \in DOMAIN links : links[k] = l}
  BY DEF Stands
<1>. HIDE DEF Elems, Found
<1>4. L!IsGiven(value, Cardinality(Found(value)), L!GetLinked(Entry, key))
  BY <1>1, <1>2 DEF L!IsGiven
<1>. QED BY <1>3, <1>4 DEF Occurrences

\* Two links differ in what they put into either map.
LEMMA EntriesDiffer ==
  ASSUME NEW l \in LinkValues, NEW m \in LinkValues
  PROVE  /\ L!FromEntry(m) = L!FromEntry(l) <=> m = l
         /\ L!ToEntry(m) = L!ToEntry(l) <=> m = l
<1>1. m = l \/ m.from # l.from \/ m.to # l.to \/ m.weight # l.weight
  BY DEF LinkValues
<1>2. L!FromEntry(m) = L!FromEntry(l) => m.from = l.from /\ m.to = l.to /\ m.weight = l.weight
  BY DEF L!FromEntry
<1>3. L!ToEntry(m) = L!ToEntry(l) => m.from = l.from /\ m.to = l.to /\ m.weight = l.weight
  BY DEF L!ToEntry
<1>. QED BY <1>1, <1>2, <1>3

\* A navigator gives each link from either side as often as it is there.
LEMMA NavigatorSuffices ==
  ASSUME NavigatorInv
  PROVE  NavigatorComplete
<1>1. PICK links \in Seq(LinkValues) : navigator = NavigatorOf(links)
  BY DEF NavigatorInv
<1>. DEFINE n == Len(links)
            froms == [k \in 1 .. n |-> L!FromEntry(links[k])]
            tos == [k \in 1 .. n |-> L!ToEntry(links[k])]
            Value == [object : Ends, weight : Weights]
<1>2. n \in Nat /\ DOMAIN links = 1 .. n /\ links \in [1 .. n -> LinkValues]
  OBVIOUS
<1>3. navigator.from2to = froms /\ navigator.to2from = tos /\ navigator.links = links
  BY <1>1, <1>2 DEF NavigatorOf
<1>4. froms \in [1 .. n -> [key : Ends, value : Value]] /\ tos \in [1 .. n -> [key : Ends, value : Value]]
  BY <1>2 DEF L!FromEntry, L!ToEntry, LinkValues
<1>5. \A k \in 1 .. n : froms[k] = L!FromEntry(links[k]) /\ tos[k] = L!ToEntry(links[k]) /\ links[k] \in LinkValues
  BY <1>2
<1>. HIDE DEF n, froms, tos
<1>6. ASSUME NEW l \in LinkValues, NEW j \in 1 .. n, links[j] = l
      PROVE  /\ L!IsGiven([object |-> l.to, weight |-> l.weight], Occurrences(links, l), L!GetLinked(froms, l.from))
             /\ L!IsGiven([object |-> l.from, weight |-> l.weight], Occurrences(links, l), L!GetLinked(tos, l.to))
  <2>1. l.from \in Ends /\ l.to \in Ends /\ [object |-> l.to, weight |-> l.weight] \in Value
        /\ [object |-> l.from, weight |-> l.weight] \in Value
    BY DEF LinkValues
  <2>2. \A k \in 1 .. n :
          /\ froms[k] = [key |-> l.from, value |-> [object |-> l.to, weight |-> l.weight]] <=> links[k] = l
          /\ tos[k] = [key |-> l.to, value |-> [object |-> l.from, weight |-> l.weight]] <=> links[k] = l
    <3>1. ASSUME NEW k \in 1 .. n
          PROVE  /\ froms[k] = L!FromEntry(l) <=> links[k] = l
                 /\ tos[k] = L!ToEntry(l) <=> links[k] = l
      BY <1>5, EntriesDiffer
    <3>2. /\ L!FromEntry(l) = [key |-> l.from, value |-> [object |-> l.to, weight |-> l.weight]]
          /\ L!ToEntry(l) = [key |-> l.to, value |-> [object |-> l.from, weight |-> l.weight]]
      BY DEF L!FromEntry, L!ToEntry
    <3>. QED BY <3>1, <3>2
  <2>3. /\ Stands(froms, links, l.from, [object |-> l.to, weight |-> l.weight], l)
        /\ Stands(tos, links, l.to, [object |-> l.from, weight |-> l.weight], l)
    BY <1>2, <1>6, <2>2 DEF Stands
  <2>4. L!IsGiven([object |-> l.to, weight |-> l.weight], Occurrences(links, l), L!GetLinked(froms, l.from))
    BY ONLY <1>2, <1>4, <2>3, LinkedAre DEF Value
  <2>5. L!IsGiven([object |-> l.from, weight |-> l.weight], Occurrences(links, l), L!GetLinked(tos, l.to))
    BY ONLY <1>2, <1>4, <2>3, LinkedAre DEF Value
  <2>. QED BY <2>4, <2>5
<1>7. \A l \in L!Range(links) : l \in LinkValues /\ \E j \in 1 .. n : links[j] = l
  BY <1>2 DEF L!Range
<1>8. \A l \in L!Range(links) :
        /\ L!IsGiven([object |-> l.to, weight |-> l.weight], Occurrences(links, l), L!GetLinked(froms, l.from))
        /\ L!IsGiven([object |-> l.from, weight |-> l.weight], Occurrences(links, l), L!GetLinked(tos, l.to))
  BY <1>6, <1>7
<1>9. \A S : L!Cardinality(S) = Cardinality(S)
  BY DEF L!Cardinality, Cardinality
<1>10. \A l : Occurrences(links, l) = L!Cardinality({k \in DOMAIN navigator.links : navigator.links[k] = l})
  BY <1>3, <1>9 DEF Occurrences
<1>. QED BY <1>3, <1>8, <1>10, Zenon DEF NavigatorComplete, L!NavigatorComplete, L!GetLinkedTo, L!GetLinkedFrom

\* Only BuildNavigator sets the navigator.
LEMMA StepsKeepNavigator ==
  ASSUME L!Next
  PROVE  UNCHANGED navigator \/ \E c \in Colls : L!BuildNavigator(c)
<1>1. CASE \E o \in DOMAIN objs : L!SetLink(o)
  BY <1>1 DEF L!SetLink
<1>2. CASE \E c \in Colls : L!Create(c)
  BY <1>2 DEF L!Create
<1>3. CASE \E c \in Colls : L!SetSubsetCollection(c)
  BY <1>3 DEF L!SetSubsetCollection
<1>4. CASE \E c \in Colls : L!Clear(c)
  BY <1>4 DEF L!Clear
<1>5. CASE \E c \in Colls : L!PutIntoFrame(c)
  BY <1>5 DEF L!PutIntoFrame
<1>6. CASE \E c \in Colls : L!Prepare(c)
  BY <1>6 DEF L!Prepare
<1>7. CASE \E c \in Colls : L!Write(c)
  BY <1>7 DEF L!Write
<1>8. CASE \E c \in Colls : L!Load(c)
  BY <1>8 DEF L!Load
<1>9. CASE \E c \in Colls : L!Rewrite(c)
  BY <1>9 DEF L!Rewrite
<1>10. CASE \E c \in Colls : L!BuildNavigator(c)
  BY <1>10
<1>11. CASE \E c \in Colls : \E o \in DOMAIN objs : L!PushBack(c, o)
  BY <1>11 DEF L!PushBack
<1>12. CASE \E c \in Colls : \E available \in Providers : L!SetReferences(c, available)
  <2>1. ASSUME NEW c \in Colls, NEW available \in Providers, L!SetReferences(c, available)
        PROVE  UNCHANGED <<mode, asPrepared, file, rewritten, navigator>>
    BY <2>1 DEF L!SetReferences
  <2>. QED BY <1>12, <2>1
<1>13. CASE L!MakeLink
  BY <1>13 DEF L!MakeLink
<1>14. CASE \E o \in DOMAIN objs, r \in BOOLEAN : L!Clone(o, r)
  BY <1>14 DEF L!Clone
<1>15. CASE L!StartReading
  BY <1>15 DEF L!StartReading
<1>. QED
  BY <1>1, <1>2, <1>3, <1>4, <1>5, <1>6, <1>7, <1>8, <1>9, <1>10, <1>11, <1>12, <1>13, <1>14, <1>15 DEF L!Next

\* A LinkNavigator gives every link of its collection from either side, as often as
\* it is in the collection and with its weight, whether its ends are there or not:
\* the constructor emplaces each in both multimaps.
THEOREM NavigatorsComplete == MemorySpec => []NavigatorComplete
<1>1. MemoryInit => NavigatorInv
  <2>1. NavigatorOf(<<>>) = L!NoNavigator /\ <<>> \in Seq(LinkValues)
    BY DEF NavigatorOf, L!NoNavigator
  <2>. QED BY <2>1 DEF MemoryInit, L!Init, NavigatorInv
<1>2. LinkInv /\ NavigatorInv /\ [MemoryNext]_memoryVars => NavigatorInv'
  <2> SUFFICES ASSUME LinkInv, NavigatorInv, [MemoryNext]_memoryVars
               PROVE  NavigatorInv'
    OBVIOUS
  <2>1. CASE UNCHANGED navigator
    BY <2>1 DEF NavigatorInv
  <2>2. CASE \E c \in Colls : L!BuildNavigator(c)
    BY <2>2, NavigatorBuilt
  <2>3. UNCHANGED navigator \/ \E c \in Colls : L!BuildNavigator(c)
    <3>1. L!Next => UNCHANGED navigator \/ \E c \in Colls : L!BuildNavigator(c)
      BY StepsKeepNavigator
    <3>. QED BY <3>1 DEF MemoryNext, OnHandles, memoryVars, linkVars
  <2>. QED BY <2>1, <2>2, <2>3
<1>. QED BY <1>1, <1>2, LinksInvariant, NavigatorSuffices, PTL DEF MemorySpec
-----------------------------------------------------------------------------
(* Keys, and parameters that are written and read.                         *)

\* A std::map.
IsMap(m) == IsFiniteSet(DOMAIN m) /\ m = [k \in DOMAIN m |-> m[k]]

LEMMA NoMapIs == IsMap(P!NoMap) /\ DOMAIN P!NoMap = {}
  BY FS_EmptySet DEF IsMap, P!NoMap

\* The keys of a map in a sequence.
LEMMA KeysInSeq ==
  ASSUME NEW m, IsMap(m)
  PROVE  \E n \in Nat : /\ P!SetToSeq(DOMAIN m) \in [1 .. n -> DOMAIN m]
                        /\ P!SetToSeq(DOMAIN m) \in Seq(DOMAIN m)
                        /\ Len(P!SetToSeq(DOMAIN m)) = n
                        /\ \A i, j \in 1 .. n : P!SetToSeq(DOMAIN m)[i] = P!SetToSeq(DOMAIN m)[j] => i = j
                        /\ \A k \in DOMAIN m : \E i \in 1 .. n : P!SetToSeq(DOMAIN m)[i] = k
<1>1. P!SetToSeq(DOMAIN m) = SetToSeq(DOMAIN m)
  BY DEF P!SetToSeq, SetToSeq, P!IsInjective, IsInjective, P!Cardinality, Cardinality
<1>2. IsFiniteSet(DOMAIN m)
  BY DEF IsMap
<1>. DEFINE s == SetToSeq(DOMAIN m)
<1>3. P!SetToSeq(DOMAIN m) = s
  BY <1>1
<1>4. PICK n \in Nat : /\ s \in [1 .. n -> DOMAIN m]
                       /\ \A i, j \in 1 .. n : s[i] = s[j] => i = j
                       /\ \A k \in DOMAIN m : \E i \in 1 .. n : s[i] = k
  BY <1>2, SetInSeq
<1>. HIDE DEF s
<1>5. s \in Seq(DOMAIN m) /\ Len(s) = n
  BY <1>4, IsASeq
<1>. QED BY <1>3, <1>4, <1>5

\* loadFrom gives a map, whatever the file has.
LEMMA LoadFromType ==
  ASSUME NEW n \in Nat, NEW pairs, DOMAIN pairs = 1 .. n, Len(pairs) = n
  PROVE  IsMap(P!LoadFrom(P!NoMap, pairs))
<1>. DEFINE K == {pairs[i].key : i \in 1 .. n}
            V == {pairs[i].value : i \in 1 .. n}
            S == UNION {[D -> V] : D \in SUBSET K}
            F == [p \in S \X (1 .. n) |-> P!EmplaceValue(p[1], pairs[p[2]].key, pairs[p[2]].value)]
            after[k \in 0 .. n] ==
              IF k = 0 THEN P!NoMap ELSE P!EmplaceValue(after[k - 1], pairs[k].key, pairs[k].value)
<1>1. P!LoadFrom(P!NoMap, pairs) = after[n]
  BY DEF P!LoadFrom
<1>2. IsFiniteSet(K)
  <2>. DEFINE f == [i \in 1 .. n |-> pairs[i].key]
  <2>1. f \in Surjection(1 .. n, K)
    BY DEF Surjection
  <2>2. IsFiniteSet(1 .. n)
    BY FS_Interval
  <2>. HIDE DEF f, K
  <2>. QED BY <2>1, <2>2, FS_Surjection
<1>3. \A i \in 1 .. n : pairs[i].key \in K /\ pairs[i].value \in V
  OBVIOUS
<1>. DEFINE IsIn(m) == DOMAIN m \in SUBSET K /\ m \in [DOMAIN m -> V]
<1>4. \A m : m \in S <=> IsIn(m)
  OBVIOUS
<1>. HIDE DEF S
<1>5. P!NoMap \in S
  BY <1>4 DEF P!NoMap
<1>6. ASSUME NEW m \in S, NEW i \in 1 .. n
      PROVE  P!EmplaceValue(m, pairs[i].key, pairs[i].value) \in S
  <2>1. IsIn(m) /\ pairs[i].key \in K /\ pairs[i].value \in V
    BY <1>3, <1>4
  <2>. HIDE DEF K, V
  <2>2. IsIn(P!EmplaceValue(m, pairs[i].key, pairs[i].value))
    BY <2>1 DEF P!EmplaceValue
  <2>. QED BY <1>4, <2>2
<1>. HIDE DEF K, V, IsIn
<1>7. \A m \in S, i \in 1 .. n : F[<<m, i>>] = P!EmplaceValue(m, pairs[i].key, pairs[i].value)
  OBVIOUS
<1>8. IsStep(S, n, F)
  BY <1>6 DEF IsStep
<1>. HIDE DEF F
<1>9. PICK f : IsRun(S, P!NoMap, n, F, f)
  BY <1>5, <1>8, Recursion
<1>10. f \in [0 .. n -> S] /\ f[0] = P!NoMap /\ \A k \in 1 .. n : f[k] = F[<<f[k - 1], k>>]
  BY <1>9 DEF IsRun
<1>11. f = [k \in 0 .. n |-> IF k = 0 THEN P!NoMap ELSE P!EmplaceValue(f[k - 1], pairs[k].key, pairs[k].value)]
  <2>1. \A k \in 0 .. n : k = 0 \/ (k \in 1 .. n /\ k - 1 \in 0 .. n)
    OBVIOUS
  <2>. QED BY <1>7, <1>10, <2>1
<1>12. after = [k \in 0 .. n |-> IF k = 0 THEN P!NoMap ELSE P!EmplaceValue(after[k - 1], pairs[k].key, pairs[k].value)]
  BY <1>11
<1>. HIDE DEF after
<1>13. IsRun(S, P!NoMap, n, F, after)
  <2>1. after = [k \in 0 .. n |-> after[k]] /\ after[0] = P!NoMap
    BY <1>12
  <2>2. \A k \in 1 .. n : after[k - 1] \in S => after[k] = F[<<after[k - 1], k>>]
    <3>1. \A k \in 1 .. n : after[k] = P!EmplaceValue(after[k - 1], pairs[k].key, pairs[k].value)
      BY <1>12
    <3>. QED BY <1>7, <3>1
  <2>. QED BY <1>5, <1>8, <2>1, <2>2, RunOfSteps
<1>14. after[n] \in S
  BY <1>13 DEF IsRun
<1>15. PICK m : m = after[n]
  OBVIOUS
<1>16. IsIn(m)
  BY <1>4, <1>14, <1>15
<1>17. IsFiniteSet(DOMAIN m) /\ m = [k \in DOMAIN m |-> m[k]]
  BY <1>2, <1>16, FS_Subset DEF IsIn
<1>. QED BY <1>1, <1>15, <1>17 DEF IsMap

\* Keys and values that are all of a map, and no others.
IsListOf(pairs, n, m) ==
  /\ DOMAIN pairs = 1 .. n /\ Len(pairs) = n
  /\ \A i \in 1 .. n : pairs[i].key \in DOMAIN m /\ pairs[i].value = m[pairs[i].key]
  /\ \A k \in DOMAIN m : \E i \in 1 .. n : pairs[i].key = k

\* loadFrom gives a map back from all of its keys and their values.
LEMMA LoadFromIs ==
  ASSUME NEW m, IsMap(m), NEW n \in Nat, NEW pairs, IsListOf(pairs, n, m)
  PROVE  P!LoadFrom(P!NoMap, pairs) = m
<1>0. /\ DOMAIN pairs = 1 .. n /\ Len(pairs) = n
      /\ \A i \in 1 .. n : pairs[i].key \in DOMAIN m /\ pairs[i].value = m[pairs[i].key]
      /\ \A k \in DOMAIN m : \E i \in 1 .. n : pairs[i].key = k
  BY DEF IsListOf
<1>. DEFINE after[k \in 0 .. n] ==
              IF k = 0 THEN P!NoMap ELSE P!EmplaceValue(after[k - 1], pairs[k].key, pairs[k].value)
            Upto(k) == {pairs[i].key : i \in 1 .. k}
            G(k) == [x \in Upto(k) |-> m[x]]
            g == [k \in 0 .. n |-> G(k)]
<1>1. P!LoadFrom(P!NoMap, pairs) = after[n]
  BY <1>0 DEF P!LoadFrom
<1>2. Upto(0) = {} /\ Upto(n) = DOMAIN m
  <2>1. 1 .. 0 = {}
    OBVIOUS
  <2>2. Upto(0) = {}
    BY <2>1
  <2>3. Upto(n) \subseteq DOMAIN m
    BY <1>0
  <2>4. DOMAIN m \subseteq Upto(n)
    BY <1>0
  <2>. QED BY <2>2, <2>3, <2>4
<1>3. \A k \in 1 .. n : Upto(k) = Upto(k - 1) \cup {pairs[k].key}
  <2>. SUFFICES ASSUME NEW k \in 1 .. n PROVE Upto(k) = Upto(k - 1) \cup {pairs[k].key}
    OBVIOUS
  <2>1. 1 .. k = (1 .. k - 1) \cup {k}
    OBVIOUS
  <2>. QED BY <2>1
<1>. HIDE DEF Upto
<1>4. g[0] = P!NoMap /\ g[n] = m
  <2>1. G(0) = P!NoMap /\ G(n) = m
    BY <1>2 DEF P!NoMap, IsMap
  <2>. HIDE DEF G
  <2>. QED BY <2>1
<1>5. ASSUME NEW k \in 1 .. n
      PROVE  g[k] = P!EmplaceValue(g[k - 1], pairs[k].key, pairs[k].value)
  <2>1. g[k - 1] = [x \in Upto(k - 1) |-> m[x]] /\ g[k] = [x \in Upto(k - 1) \cup {pairs[k].key} |-> m[x]]
    <3>1. k \in 0 .. n /\ k - 1 \in 0 .. n
      OBVIOUS
    <3>2. g[k] = G(k) /\ g[k - 1] = G(k - 1)
      <4>. HIDE DEF G
      <4>. QED BY <3>1
    <3>. QED BY <1>3, <3>2
  <2>2. pairs[k].value = m[pairs[k].key]
    BY <1>0
  <2>. HIDE DEF g
  <2>. QED BY <2>1, <2>2 DEF P!EmplaceValue
<1>6. g = [k \in 0 .. n |-> IF k = 0 THEN P!NoMap ELSE P!EmplaceValue(g[k - 1], pairs[k].key, pairs[k].value)]
  <2>1. \A k \in 0 .. n : k = 0 \/ k \in 1 .. n
    OBVIOUS
  <2>2. g = [k \in 0 .. n |-> g[k]]
    OBVIOUS
  <2>. HIDE DEF g
  <2>. QED BY <1>4, <1>5, <2>1, <2>2
<1>. HIDE DEF g
<1>7. after = [k \in 0 .. n |-> IF k = 0 THEN P!NoMap ELSE P!EmplaceValue(after[k - 1], pairs[k].key, pairs[k].value)]
  BY <1>6
<1>. HIDE DEF after
<1>. DEFINE T == {k \in Nat : k <= n => after[k] = g[k]}
<1>8. 0 \in T
  BY <1>6, <1>7
<1>9. ASSUME NEW k \in Nat, k \in T PROVE k + 1 \in T
  <2>1. SUFFICES ASSUME k + 1 <= n PROVE after[k + 1] = g[k + 1]
    OBVIOUS
  <2>2. k + 1 \in 1 .. n /\ (k + 1) - 1 = k /\ after[k] = g[k]
    BY <1>9, <2>1
  <2>3. \A j \in 1 .. n : j \in 0 .. n /\ j # 0
    OBVIOUS
  <2>4. \A j \in 1 .. n : after[j] = P!EmplaceValue(after[j - 1], pairs[j].key, pairs[j].value)
    BY <1>7, <2>3
  <2>. HIDE DEF T
  <2>. QED BY <1>5, <2>2, <2>4
<1>. HIDE DEF T
<1>10. Nat \subseteq T
  BY <1>8, <1>9, Induction
<1>. QED BY <1>1, <1>4, <1>10 DEF T

\* What getKeysAndValues gives is the map again.
LEMMA StoredAgain ==
  ASSUME NEW m, IsMap(m)
  PROVE  P!LoadFrom(P!NoMap, P!Pairs(P!KeysAndValues(m))) = m
<1>. DEFINE keys == P!SetToSeq(DOMAIN m)
            pairs == P!Pairs(P!KeysAndValues(m))
<1>1. PICK n \in Nat : /\ keys \in [1 .. n -> DOMAIN m]
                       /\ \A k \in DOMAIN m : \E i \in 1 .. n : keys[i] = k
  BY KeysInSeq
<1>2. pairs = [i \in DOMAIN keys |-> [key |-> keys[i], value |-> [j \in DOMAIN keys |-> m[keys[j]]][i]]]
  BY DEF P!Pairs, P!KeysAndValues
<1>. HIDE DEF keys, pairs
<1>3. DOMAIN keys = 1 .. n
  BY <1>1
<1>4. pairs \in [1 .. n -> {[key |-> k, value |-> m[k]] : k \in DOMAIN m}]
  BY <1>1, <1>2, <1>3
<1>5. DOMAIN pairs = 1 .. n /\ Len(pairs) = n
  BY <1>4, IsASeq
<1>6. \A i \in 1 .. n : pairs[i].key = keys[i] /\ pairs[i].value = m[keys[i]] /\ keys[i] \in DOMAIN m
  BY <1>1, <1>2, <1>3
<1>7. IsListOf(pairs, n, m)
  BY <1>1, <1>5, <1>6 DEF IsListOf
<1>8. P!LoadFrom(P!NoMap, pairs) = m
  BY <1>7, LoadFromIs
<1>. QED BY <1>8 DEF pairs

\* A map on an sio device, with something behind it: it is read, and the rest is left.
LEMMA MapOnDevice ==
  ASSUME NEW X, Nat \subseteq X, NEW m, IsMap(m), DOMAIN m \subseteq X, \A k \in DOMAIN m : m[k] \in X, NEW rest \in Seq(X)
  PROVE  /\ P!WriteMapLike(m) \in Seq(X)
         /\ P!ReadMapLike(P!WriteMapLike(m) \o rest) = m
         /\ P!AfterMap(P!WriteMapLike(m) \o rest) = rest
<1>. DEFINE keys == P!SetToSeq(DOMAIN m)
            body == [i \in 1 .. 2 * Len(keys) |-> IF i % 2 = 1 THEN keys[(i + 1) \div 2] ELSE m[keys[i \div 2]]]
            device == P!WriteMapLike(m) \o rest
<1>1. PICK n \in Nat : /\ keys \in [1 .. n -> DOMAIN m] /\ Len(keys) = n
                       /\ \A k \in DOMAIN m : \E i \in 1 .. n : keys[i] = k
  BY KeysInSeq
<1>2. P!WriteMapLike(m) = <<Len(keys)>> \o body
  BY DEF P!WriteMapLike
<1>. HIDE DEF keys
<1>3. \A i \in 1 .. n : keys[i] \in DOMAIN m /\ keys[i] \in X /\ m[keys[i]] \in X
  BY <1>1
<1>4. body \in [1 .. 2 * n -> X]
  <2>1. \A i \in 1 .. 2 * n : /\ i % 2 = 1 => (i + 1) \div 2 \in 1 .. n
                              /\ i % 2 # 1 => i \div 2 \in 1 .. n
    OBVIOUS
  <2>. QED BY <1>1, <1>3, <2>1
<1>5. \A i \in 1 .. n : body[2 * i - 1] = keys[i] /\ body[2 * i] = m[keys[i]]
  <2>1. \A i \in 1 .. n : /\ 2 * i - 1 \in 1 .. 2 * n /\ (2 * i - 1) % 2 = 1 /\ ((2 * i - 1) + 1) \div 2 = i
                          /\ 2 * i \in 1 .. 2 * n /\ (2 * i) % 2 # 1 /\ (2 * i) \div 2 = i
    OBVIOUS
  <2>. QED BY <1>1, <2>1
<1>. HIDE DEF body
<1>6. body \in Seq(X) /\ Len(body) = 2 * n
  BY <1>1, <1>4, IsASeq
<1>7. PICK head \in Seq(X) : head = <<n>> /\ Len(head) = 1 /\ head[1] = n
  <2>1. <<n>> \in Seq(X) /\ Len(<<n>>) = 1 /\ <<n>>[1] = n
    BY <1>1
  <2>. QED BY <2>1
<1>8. PICK all \in Seq(X) : all = P!WriteMapLike(m) /\ Len(all) = 2 * n + 1 /\ all[1] = n
                            /\ \A j \in 1 .. 2 * n : all[j + 1] = body[j]
  <2>1. head \o body \in Seq(X) /\ Len(head \o body) = 2 * n + 1 /\ (head \o body)[1] = n
        /\ \A j \in 1 .. 2 * n : (head \o body)[j + 1] = body[j]
    BY <1>6, <1>7
  <2>2. head \o body = P!WriteMapLike(m)
    BY <1>1, <1>2, <1>7
  <2>. QED BY <2>1, <2>2
<1>9. PICK r \in Nat : r = Len(rest)
  OBVIOUS
<1>10. device = all \o rest
  BY <1>8
<1>11. device \in Seq(X) /\ Len(device) = 2 * n + 1 + r /\ device[1] = n
       /\ (\A j \in 1 .. 2 * n : device[j + 1] = body[j])
       /\ \A j \in 1 .. r : device[2 * n + 1 + j] = rest[j]
  <2>. DEFINE a == Len(all)
  <2>0. a \in Nat /\ a = 2 * n + 1
    BY <1>8
  <2>1. all \o rest \in Seq(X) /\ Len(all \o rest) = 2 * n + 1 + r
    <3>1. all \o rest \in Seq(X) /\ Len(all \o rest) = Len(all) + Len(rest)
      OBVIOUS
    <3>. HIDE DEF a
    <3>. QED BY <1>9, <2>0, <3>1 DEF a
  <2>2. \A j \in 1 .. 2 * n + 1 : (all \o rest)[j] = all[j]
    BY <1>8
  <2>3. \A j \in 1 .. r : (all \o rest)[2 * n + 1 + j] = rest[j]
    <3>1. \A j \in 1 .. Len(rest) : (all \o rest)[Len(all) + j] = rest[j]
      OBVIOUS
    <3>. QED BY <1>9, <2>0, <3>1
  <2>4. \A j \in 1 .. 2 * n : j + 1 \in 1 .. 2 * n + 1
    OBVIOUS
  <2>5. 1 \in 1 .. 2 * n + 1
    OBVIOUS
  <2>. QED BY <1>8, <1>10, <2>1, <2>2, <2>3, <2>4, <2>5
<1>. HIDE DEF device
<1>12. P!ReadMapLike(device) = m
  <2>. DEFINE pairs == [i \in 1 .. device[1] |-> [key |-> device[2 * i], value |-> device[2 * i + 1]]]
  <2>1. \A i \in 1 .. n : device[2 * i] = keys[i] /\ device[2 * i + 1] = m[keys[i]]
    <3>. SUFFICES ASSUME NEW i \in 1 .. n PROVE device[2 * i] = keys[i] /\ device[2 * i + 1] = m[keys[i]]
      OBVIOUS
    <3>1. 2 * i - 1 \in 1 .. 2 * n /\ 2 * i \in 1 .. 2 * n /\ (2 * i - 1) + 1 = 2 * i
      OBVIOUS
    <3>. QED BY <1>5, <1>11, <3>1
  <2>2. \A i \in 1 .. n : pairs[i] = [key |-> keys[i], value |-> m[keys[i]]]
    BY <1>11, <2>1
  <2>3. pairs \in [1 .. n -> {[key |-> k, value |-> m[k]] : k \in DOMAIN m}]
    BY <1>3, <1>11, <2>2
  <2>4. P!ReadMapLike(device) = P!LoadFrom(P!NoMap, pairs)
    BY DEF P!ReadMapLike
  <2>5. \A i \in 1 .. n : pairs[i].key = keys[i] /\ pairs[i].value = m[keys[i]] /\ keys[i] \in DOMAIN m
    BY <1>3, <1>11, <2>1
  <2>. HIDE DEF pairs
  <2>6. DOMAIN pairs = 1 .. n /\ Len(pairs) = n
    BY <2>3, IsASeq
  <2>7. IsListOf(pairs, n, m)
    <3>1. \A i \in 1 .. n : pairs[i].key \in DOMAIN m /\ pairs[i].value = m[pairs[i].key]
      BY ONLY <2>5
    <3>2. ASSUME NEW k \in DOMAIN m PROVE \E i \in 1 .. n : pairs[i].key = k
      <4>1. PICK i \in 1 .. n : keys[i] = k
        BY <1>1
      <4>. QED BY <2>5, <4>1
    <3>. QED BY ONLY <2>6, <3>1, <3>2 DEF IsListOf
  <2>8. P!LoadFrom(P!NoMap, pairs) = m
    BY <2>7, LoadFromIs
  <2>. QED BY <2>4, <2>8
<1>13. P!AfterMap(device) = rest
  <2>1. P!AfterMap(device) = SubSeq(device, 2 * n + 2, 2 * n + 1 + r)
    BY <1>11 DEF P!AfterMap
  <2>2. SubSeq(device, 2 * n + 2, 2 * n + 1 + r) = [j \in 1 .. r |-> device[j + (2 * n + 2) - 1]]
    <3>1. (2 * n + 1 + r) - (2 * n + 2) + 1 = r
      OBVIOUS
    <3>2. SubSeq(device, 2 * n + 2, 2 * n + 1 + r) =
            [j \in 1 .. (2 * n + 1 + r) - (2 * n + 2) + 1 |-> device[j + (2 * n + 2) - 1]]
      BY <1>11
    <3>. QED BY <3>1, <3>2
  <2>3. \A j \in 1 .. r : j + (2 * n + 2) - 1 = 2 * n + 1 + j
    OBVIOUS
  <2>4. rest = [j \in 1 .. r |-> rest[j]]
    BY <1>9
  <2>5. \A j \in 1 .. r : device[j + (2 * n + 2) - 1] = rest[j]
    BY <1>11, <2>3
  <2>. QED BY ONLY <2>1, <2>2, <2>4, <2>5
<1>. QED BY <1>8, <1>12, <1>13 DEF device

\* A block is read as it was written, by a program of the same version.
LEMMA BlockAgain ==
  ASSUME \A t \in Types : IsMap(maps[t]), maps = [t \in Types |-> maps[t]],
         NEW version \in {1, 2}, version < 2 /\ "double" \in Types => maps["double"] = P!NoMap
  PROVE  P!ReadGenericParameters(P!WriteGenericParameters(maps, version), version) = maps
<1>. DEFINE Of(t) == IF t \in Types THEN maps[t] ELSE P!NoMap
            four == {"int", "float", "string", "double"}
            X == Nat \cup (UNION {DOMAIN Of(t) : t \in four}) \cup (UNION {{Of(t)[k] : k \in DOMAIN Of(t)} : t \in four})
            doubles == IF version >= 2 THEN P!WriteMapLike(Of("double")) ELSE <<>>
            strings == P!WriteMapLike(Of("string")) \o doubles
            floats == P!WriteMapLike(Of("float")) \o strings
            block == P!WriteMapLike(Of("int")) \o floats
<1>1. \A t \in four : /\ IsMap(Of(t)) /\ DOMAIN Of(t) \subseteq X
                      /\ \A k \in DOMAIN Of(t) : Of(t)[k] \in X
  <2>. SUFFICES ASSUME NEW t \in four
                PROVE  /\ IsMap(Of(t)) /\ DOMAIN Of(t) \subseteq X
                       /\ \A k \in DOMAIN Of(t) : Of(t)[k] \in X
    OBVIOUS
  <2>1. IsMap(Of(t))
    BY NoMapIs
  <2>. HIDE DEF Of
  <2>2. DOMAIN Of(t) \subseteq X /\ \A k \in DOMAIN Of(t) : Of(t)[k] \in X
    OBVIOUS
  <2>. QED BY <2>1, <2>2
<1>2. P!WriteGenericParameters(maps, version) = block
  BY DEF P!WriteGenericParameters
<1>3. Nat \subseteq X /\ <<>> \in Seq(X)
  OBVIOUS
<1>. HIDE DEF X, Of
<1>4. P!WriteMapLike(Of("double")) \in Seq(X) /\ P!ReadMapLike(P!WriteMapLike(Of("double")) \o <<>>) = Of("double")
  BY <1>1, <1>3, MapOnDevice
<1>5. P!WriteMapLike(Of("double")) \o <<>> = P!WriteMapLike(Of("double"))
  BY <1>4
<1>6. doubles \in Seq(X) /\ (version >= 2 => P!ReadMapLike(doubles) = Of("double"))
  BY <1>3, <1>4, <1>5
<1>. HIDE DEF doubles
<1>7. strings \in Seq(X) /\ P!ReadMapLike(strings) = Of("string") /\ P!AfterMap(strings) = doubles
  <2>1. /\ P!WriteMapLike(Of("string")) \in Seq(X)
        /\ P!ReadMapLike(P!WriteMapLike(Of("string")) \o doubles) = Of("string")
        /\ P!AfterMap(P!WriteMapLike(Of("string")) \o doubles) = doubles
    BY <1>1, <1>3, <1>6, MapOnDevice
  <2>. QED BY <1>6, <2>1
<1>. HIDE DEF strings
<1>8. floats \in Seq(X) /\ P!ReadMapLike(floats) = Of("float") /\ P!AfterMap(floats) = strings
  <2>1. /\ P!WriteMapLike(Of("float")) \in Seq(X)
        /\ P!ReadMapLike(P!WriteMapLike(Of("float")) \o strings) = Of("float")
        /\ P!AfterMap(P!WriteMapLike(Of("float")) \o strings) = strings
    BY <1>1, <1>3, <1>7, MapOnDevice
  <2>. QED BY <1>7, <2>1
<1>. HIDE DEF floats
<1>9. P!ReadMapLike(block) = Of("int") /\ P!AfterMap(block) = floats
  BY <1>1, <1>3, <1>8, MapOnDevice
<1>. HIDE DEF block
<1>10. P!ReadGenericParameters(block, version) =
         [t \in Types |-> CASE t = "int" -> Of("int")
                            [] t = "float" -> Of("float")
                            [] t = "string" -> Of("string")
                            [] t = "double" -> IF version >= 2 THEN P!ReadMapLike(doubles) ELSE P!NoMap]
  BY <1>7, <1>8, <1>9 DEF P!ReadGenericParameters
<1>11. ASSUME NEW t \in Types
       PROVE  maps[t] = CASE t = "int" -> Of("int")
                          [] t = "float" -> Of("float")
                          [] t = "string" -> Of("string")
                          [] t = "double" -> IF version >= 2 THEN P!ReadMapLike(doubles) ELSE P!NoMap
  <2>1. Of(t) = maps[t] /\ t \in four
    BY ParametersAssumption DEF Of
  <2>2. CASE t = "double"
    <3>1. version >= 2 \/ version < 2
      OBVIOUS
    <3>. QED BY <1>6, <2>1, <2>2, <3>1
  <2>3. CASE t # "double"
    BY <2>1, <2>3
  <2>. QED BY <2>2, <2>3
<1>. HIDE DEF Of
<1>12. [t \in Types |-> maps[t]] =
         [t \in Types |-> CASE t = "int" -> Of("int")
                            [] t = "float" -> Of("float")
                            [] t = "string" -> Of("string")
                            [] t = "double" -> IF version >= 2 THEN P!ReadMapLike(doubles) ELSE P!NoMap]
  BY <1>11
<1>. QED BY <1>2, <1>10, <1>12

\* What the threads have of each other's.
KeyTypes ==
  /\ sets \in Nat
  /\ \A t \in Types : IsMap(maps[t])
  /\ DOMAIN keysGiven = Threads /\ DOMAIN keysBefore = Threads /\ DOMAIN before = Threads
  /\ DOMAIN loaded = Threads /\ DOMAIN storage = Threads
  /\ \A r \in Threads : storage[r] = [t \in Types |-> storage[r][t]]

\* A thread has dealt with no type unless it is about to.
Rests(r) == at[r] \in {"idle", "loaded"} => done[r] = {}

\* Keys are never removed ...
Asked(r) == at[r] = "keys" => \A t \in done[r] : keysBefore[r] \subseteq DOMAIN maps[t]

\* ... so that those that were given are there from then on.
Given(r) ==
  at[r] = "given" =>
    /\ keysBefore[r] \subseteq P!Range(keysGiven[r])
    /\ P!IsInjective(keysGiven[r])
    /\ \A t \in done[r] : P!Range(keysGiven[r]) \subseteq DOMAIN maps[t]

\* A writer began at some number of parameters.
Began(r) == at[r] \in {"fill", "loaded"} => before[r].sets \in Nat /\ before[r].sets <= sets

\* What it has written is a map as it was at a moment since then.
WrittenOf(r, t) ==
  \E m : /\ IsMap(m) /\ storage[r][t] = P!KeysAndValues(m)
         /\ DOMAIN before[r].maps[t] \subseteq DOMAIN m
         /\ sets = before[r].sets => m = maps[t]
Fills(r) ==
  at[r] = "fill" =>
    /\ \A t \in Types : DOMAIN before[r].maps[t] \subseteq DOMAIN maps[t]
    /\ \A t \in done[r] : WrittenOf(r, t)

\* And so is what a reader has.
HasRead(r) ==
  at[r] = "loaded" =>
    /\ \A t \in Types : DOMAIN before[r].maps[t] \subseteq DOMAIN loaded[r][t]
    /\ sets = before[r].sets => loaded[r] = maps

KeysOfThread(r) == Rests(r) /\ Asked(r) /\ Given(r) /\ Began(r) /\ Fills(r) /\ HasRead(r)

\* The inductive invariant, next to that of the copies.
KeysInv == KeyTypes /\ \A r \in Threads : KeysOfThread(r)

\* The types of the other invariant.
LEMMA ParTypesKnown ==
  ASSUME CopyInv
  PROVE  /\ maps = [t \in Types |-> maps[t]]
         /\ at = [q \in Threads |-> at[q]] /\ done = [q \in Threads |-> done[q]]
         /\ DOMAIN at = Threads /\ DOMAIN done = Threads
         /\ \A r \in Threads : done[r] \subseteq Types
<1>1. PICK M : ParTypes(M)
  BY DEF CopyInv
<1>. QED BY <1>1 DEF ParTypes

\* A thread of which nothing changes, nor any map.
LEMMA OtherThread ==
  ASSUME NEW q \in Threads, KeysOfThread(q), UNCHANGED <<maps, sets>>,
         at'[q] = at[q], done'[q] = done[q], keysGiven'[q] = keysGiven[q], keysBefore'[q] = keysBefore[q],
         before'[q] = before[q], storage'[q] = storage[q], loaded'[q] = loaded[q]
  PROVE  KeysOfThread(q)'
<1>1. \A t : WrittenOf(q, t) => WrittenOf(q, t)'
  BY DEF WrittenOf
<1>. QED BY <1>1 DEF KeysOfThread, Rests, Asked, Given, Began, Fills, HasRead

\* Set: the keys of the map stay, and the number of sets grows.
LEMMA SetK ==
  ASSUME CopyInv, KeysInv, NEW t \in Types, NEW k \in Keys, P!Set(t, k)
  PROVE  KeysInv'
<1>1. /\ sets' = sets + 1
      /\ UNCHANGED <<at, done, keysGiven, keysBefore, storage, before, loaded>>
      /\ \E value \in {<<>>, <<sets'>>} : maps' = [maps EXCEPT ![t] = P!InsertOrAssign(maps[t], k, value)]
  BY DEF P!Set, P!fileVars
<1>2. PICK value : maps' = [maps EXCEPT ![t] = P!InsertOrAssign(maps[t], k, value)]
  BY <1>1
<1>3. PICK m : m = P!InsertOrAssign(maps[t], k, value)
  OBVIOUS
<1>4. IsMap(m) /\ DOMAIN m = DOMAIN maps[t] \cup {k}
  <2>1. DOMAIN m = DOMAIN maps[t] \cup {k} /\ m = [x \in DOMAIN m |-> m[x]]
    BY <1>3 DEF P!InsertOrAssign
  <2>2. IsFiniteSet(DOMAIN maps[t])
    BY DEF KeysInv, KeyTypes, IsMap
  <2>3. IsFiniteSet(DOMAIN maps[t] \cup {k})
    BY <2>2, FS_AddElement
  <2>. QED BY <2>1, <2>3 DEF IsMap
<1>5. \A u \in Types : maps'[u] = IF u = t THEN m ELSE maps[u]
  BY <1>2, <1>3, ParTypesKnown
<1>6. \A u \in Types : DOMAIN maps[u] \subseteq DOMAIN maps'[u] /\ IsMap(maps'[u])
  BY <1>4, <1>5 DEF KeysInv, KeyTypes
<1>7. sets' \in Nat /\ \A n \in Nat : n <= sets => n <= sets' /\ n # sets'
  BY <1>1 DEF KeysInv, KeyTypes
<1>8. KeyTypes'
  BY <1>1, <1>6, <1>7 DEF KeysInv, KeyTypes
<1>9. ASSUME NEW r \in Threads
      PROVE  KeysOfThread(r)'
  <2>1. KeysOfThread(r) /\ done[r] \subseteq Types
    BY ParTypesKnown DEF KeysInv
  <2>2. Rests(r)' /\ Asked(r)' /\ Given(r)'
    BY <1>1, <1>6, <2>1 DEF KeysOfThread, Rests, Asked, Given
  <2>3. Began(r)' /\ (at[r] \in {"fill", "loaded"} => sets' # before'[r].sets)
    BY <1>1, <1>7, <2>1 DEF KeysOfThread, Began
  <2>4. HasRead(r)'
    BY <1>1, <2>1, <2>3 DEF KeysOfThread, HasRead
  <2>5. ASSUME at[r] = "fill", NEW u, WrittenOf(r, u) PROVE WrittenOf(r, u)'
    BY <1>1, <2>3, <2>5 DEF WrittenOf
  <2>6. Fills(r)'
    BY <1>1, <1>6, <2>1, <2>5 DEF KeysOfThread, Fills
  <2>. QED BY <2>2, <2>3, <2>4, <2>6 DEF KeysOfThread
<1>. QED BY <1>8, <1>9 DEF KeysInv

\* A step of one thread, which changes no map.
LEMMA ThreadK ==
  ASSUME KeysInv, NEW r \in Threads, KeyTypes', UNCHANGED <<maps, sets>>, KeysOfThread(r)',
         \A q \in Threads : q # r =>
           /\ at'[q] = at[q] /\ done'[q] = done[q] /\ keysGiven'[q] = keysGiven[q] /\ keysBefore'[q] = keysBefore[q]
           /\ before'[q] = before[q] /\ storage'[q] = storage[q] /\ loaded'[q] = loaded[q]
  PROVE  KeysInv'
<1>1. ASSUME NEW q \in Threads, q # r PROVE KeysOfThread(q)'
  BY <1>1, OtherThread DEF KeysInv
<1>. QED BY <1>1 DEF KeysInv

\* The copies have no keys to give.
LEMMA CopiesK ==
  ASSUME CopyInv, KeysInv, NEW r \in Threads,
         P!StartCopy(r) \/ P!EndCopy(r) \/ \E t \in Types : P!CopyMap(r, t)
  PROVE  KeysInv'
<1>1. /\ UNCHANGED <<maps, sets, keysGiven, keysBefore, storage, before, loaded>>
      /\ \E label \in {"idle", "copy"} : \E types :
           /\ at' = [at EXCEPT ![r] = label] /\ done' = [done EXCEPT ![r] = types]
           /\ label = "idle" => types = {}
  <2>1. CASE P!StartCopy(r)
    BY <2>1 DEF P!StartCopy, P!Goto, P!fileVars
  <2>2. CASE P!EndCopy(r)
    BY <2>2 DEF P!EndCopy, P!Goto, P!fileVars
  <2>3. ASSUME NEW t \in Types, P!CopyMap(r, t)
        PROVE  /\ UNCHANGED <<maps, sets, keysGiven, keysBefore, storage, before, loaded>>
               /\ \E label \in {"idle", "copy"} : \E types :
                    /\ at' = [at EXCEPT ![r] = label] /\ done' = [done EXCEPT ![r] = types]
                    /\ label = "idle" => types = {}
    <3>1. at' = at /\ at[r] = "copy" /\ done' = [done EXCEPT ![r] = done[r] \cup {t}]
      BY <2>3 DEF P!CopyMap
    <3>2. at' = [at EXCEPT ![r] = "copy"]
      BY <3>1, ParTypesKnown
    <3>. QED BY <3>2, <2>3, <3>1 DEF P!CopyMap, P!fileVars
  <2>. QED BY <2>1, <2>2, <2>3
<1>. PICK label \in {"idle", "copy"} :
       \E types : /\ at' = [at EXCEPT ![r] = label] /\ done' = [done EXCEPT ![r] = types]
                  /\ label = "idle" => types = {}
  BY <1>1
<1>2. PICK types : /\ at' = [at EXCEPT ![r] = label] /\ done' = [done EXCEPT ![r] = types]
                   /\ label = "idle" => types = {}
  OBVIOUS
<1>3. at'[r] = label /\ done'[r] = types /\ \A q \in Threads : q # r => at'[q] = at[q] /\ done'[q] = done[q]
  BY <1>2, ParTypesKnown
<1>4. KeyTypes'
  BY <1>1 DEF KeysInv, KeyTypes
<1>5. KeysOfThread(r)'
  BY <1>2, <1>3 DEF KeysOfThread, Rests, Asked, Given, Began, Fills, HasRead
<1>. QED BY <1>1, <1>3, <1>4, <1>5, ThreadK

\* getKeys: the size is stale, but the keys are those of the map.
LEMMA GetKeysK ==
  ASSUME CopyInv, KeysInv, NEW r \in Threads, NEW t \in Types, P!StartGetKeys(r, t) \/ P!GetKeys(r, t)
  PROVE  KeysInv'
<1>1. CASE P!StartGetKeys(r, t)
  <2>1. /\ UNCHANGED <<maps, sets, keysGiven, storage, before, loaded>>
        /\ at' = [at EXCEPT ![r] = "keys"] /\ done' = [done EXCEPT ![r] = {t}]
        /\ keysBefore' = [keysBefore EXCEPT ![r] = DOMAIN maps[t]]
    BY <1>1 DEF P!StartGetKeys, P!Goto, P!fileVars
  <2>2. KeyTypes'
    BY <2>1 DEF KeysInv, KeyTypes
  <2>3. /\ at'[r] = "keys" /\ done'[r] = {t} /\ keysBefore'[r] = DOMAIN maps[t]
        /\ \A q \in Threads : q # r => at'[q] = at[q] /\ done'[q] = done[q] /\ keysBefore'[q] = keysBefore[q]
    BY <2>1, ParTypesKnown DEF KeysInv, KeyTypes
  <2>4. KeysOfThread(r)'
    BY <2>1, <2>3 DEF KeysOfThread, Rests, Asked, Given, Began, Fills, HasRead
  <2>. QED BY <2>1, <2>2, <2>3, <2>4, ThreadK
<1>2. CASE P!GetKeys(r, t)
  <2>1. /\ UNCHANGED <<maps, sets, done, keysBefore, storage, before, loaded>>
        /\ at[r] = "keys" /\ done[r] = {t}
        /\ at' = [at EXCEPT ![r] = "given"]
        /\ keysGiven' = [keysGiven EXCEPT ![r] = P!SetToSeq(DOMAIN maps[t])]
    BY <1>2 DEF P!GetKeys, P!KeysOf, P!Goto, P!fileVars
  <2>2. KeyTypes'
    BY <2>1 DEF KeysInv, KeyTypes
  <2>3. /\ at'[r] = "given" /\ keysGiven'[r] = P!SetToSeq(DOMAIN maps[t])
        /\ \A q \in Threads : q # r => at'[q] = at[q] /\ keysGiven'[q] = keysGiven[q]
    BY <2>1, ParTypesKnown DEF KeysInv, KeyTypes
  <2>4. P!Range(P!SetToSeq(DOMAIN maps[t])) = DOMAIN maps[t] /\ P!IsInjective(P!SetToSeq(DOMAIN maps[t]))
    <3>. DEFINE s == P!SetToSeq(DOMAIN maps[t])
    <3>1. PICK n \in Nat : /\ s \in [1 .. n -> DOMAIN maps[t]]
                           /\ \A i, j \in 1 .. n : s[i] = s[j] => i = j
                           /\ \A x \in DOMAIN maps[t] : \E i \in 1 .. n : s[i] = x
      BY KeysInSeq DEF KeysInv, KeyTypes
    <3>. HIDE DEF s
    <3>2. P!Range(s) = DOMAIN maps[t] /\ P!IsInjective(s)
      BY <3>1 DEF P!Range, P!IsInjective
    <3>. QED BY <3>2 DEF s
  <2>5. keysBefore[r] \subseteq DOMAIN maps[t]
    BY <2>1 DEF KeysInv, KeysOfThread, Asked
  <2>6. KeysOfThread(r)'
    BY <2>1, <2>3, <2>4, <2>5 DEF KeysOfThread, Rests, Asked, Given, Began, Fills, HasRead
  <2>. QED BY <2>1, <2>2, <2>3, <2>6, ThreadK
<1>. QED BY <1>1, <1>2

\* A thread drops what it has.
LEMMA DropK ==
  ASSUME CopyInv, KeysInv, NEW r \in Threads, P!DropKeys(r) \/ P!DropLoaded(r)
  PROVE  KeysInv'
<1>1. /\ UNCHANGED <<maps, sets, storage>>
      /\ DOMAIN keysGiven' = DOMAIN keysGiven /\ DOMAIN keysBefore' = DOMAIN keysBefore
      /\ DOMAIN before' = DOMAIN before /\ DOMAIN loaded' = DOMAIN loaded
      /\ at'[r] = "idle" /\ done'[r] = {}
      /\ \A q \in Threads : q # r =>
           /\ at'[q] = at[q] /\ done'[q] = done[q] /\ keysGiven'[q] = keysGiven[q] /\ keysBefore'[q] = keysBefore[q]
           /\ before'[q] = before[q] /\ loaded'[q] = loaded[q]
  <2>1. Rests(r)
    BY DEF KeysInv, KeysOfThread
  <2>2. CASE P!DropKeys(r)
    BY <2>2, ParTypesKnown DEF P!DropKeys, P!Goto, P!fileVars, KeysInv, KeyTypes
  <2>3. CASE P!DropLoaded(r)
    BY <2>1, <2>3, ParTypesKnown DEF P!DropLoaded, P!Goto, P!fileVars, KeysInv, KeyTypes, Rests
  <2>. QED BY <2>2, <2>3
<1>2. KeyTypes'
  BY <1>1 DEF KeysInv, KeyTypes
<1>3. KeysOfThread(r)'
  BY <1>1 DEF KeysOfThread, Rests, Asked, Given, Began, Fills, HasRead
<1>. QED BY <1>1, <1>2, <1>3, ThreadK

\* A writer begins, and takes the keys and values of one type after the other.
LEMMA FillK ==
  ASSUME CopyInv, KeysInv, NEW r \in Threads, P!StartFill(r) \/ \E t \in Types : P!FillParams(r, t)
  PROVE  KeysInv'
<1>1. CASE P!StartFill(r)
  <2>1. /\ UNCHANGED <<maps, sets, done, keysGiven, keysBefore, storage, loaded>>
        /\ at[r] = "idle" /\ at' = [at EXCEPT ![r] = "fill"]
        /\ before' = [before EXCEPT ![r] = [maps |-> maps, sets |-> sets]]
    BY <1>1 DEF P!StartFill, P!Goto
  <2>2. KeyTypes'
    BY <2>1 DEF KeysInv, KeyTypes
  <2>3. /\ at'[r] = "fill" /\ before'[r].maps = maps /\ before'[r].sets = sets
        /\ \A q \in Threads : q # r => at'[q] = at[q] /\ before'[q] = before[q]
    BY <2>1, ParTypesKnown DEF KeysInv, KeyTypes
  <2>4. done'[r] = {} /\ sets \in Nat
    BY <2>1 DEF KeysInv, KeyTypes, KeysOfThread, Rests
  <2>5. KeysOfThread(r)'
    BY <2>1, <2>3, <2>4 DEF KeysOfThread, Rests, Asked, Given, Began, Fills, HasRead
  <2>. QED BY <2>1, <2>2, <2>3, <2>5, ThreadK
<1>2. ASSUME NEW t \in Types, P!FillParams(r, t) PROVE KeysInv'
  <2>1. /\ UNCHANGED <<maps, sets, at, keysGiven, keysBefore, before, loaded>>
        /\ at[r] = "fill"
        /\ storage' = [storage EXCEPT ![r][t] = P!KeysAndValues(maps[t])]
        /\ done' = [done EXCEPT ![r] = done[r] \cup {t}]
    BY <1>2 DEF P!FillParams
  <2>2. storage'[r] = [storage[r] EXCEPT ![t] = P!KeysAndValues(maps[t])]
        /\ DOMAIN storage' = Threads /\ \A q \in Threads : q # r => storage'[q] = storage[q]
    BY <2>1 DEF KeysInv, KeyTypes
  <2>3. storage[r] = [u \in Types |-> storage[r][u]]
    BY DEF KeysInv, KeyTypes
  <2>4. /\ storage'[r] = [u \in Types |-> storage'[r][u]]
        /\ \A u \in Types : storage'[r][u] = IF u = t THEN P!KeysAndValues(maps[t]) ELSE storage[r][u]
    <3>1. PICK old : old = storage[r]
      OBVIOUS
    <3>2. old = [u \in Types |-> old[u]] /\ storage'[r] = [old EXCEPT ![t] = P!KeysAndValues(maps[t])]
      BY <2>2, <2>3, <3>1
    <3>. QED BY <3>1, <3>2
  <2>5. KeyTypes'
    BY <2>1, <2>2, <2>4 DEF KeysInv, KeyTypes
  <2>6. done'[r] = done[r] \cup {t} /\ \A q \in Threads : q # r => done'[q] = done[q]
    BY <2>1, ParTypesKnown
  <2>7. IsMap(maps[t]) /\ DOMAIN before[r].maps[t] \subseteq DOMAIN maps[t] /\ Fills(r) /\ Began(r) /\ done[r] \subseteq Types
    BY <2>1, ParTypesKnown DEF KeysInv, KeyTypes, KeysOfThread, Fills
  <2>8. WrittenOf(r, t)'
    BY <2>1, <2>4, <2>7 DEF WrittenOf
  <2>9. ASSUME NEW u \in done[r], u # t PROVE WrittenOf(r, u)'
    <3>1. WrittenOf(r, u) /\ u \in Types
      BY <2>1, <2>7 DEF Fills
    <3>. QED BY <2>1, <2>4, <2>9, <3>1 DEF WrittenOf
  <2>10. Fills(r)'
    BY <2>1, <2>6, <2>7, <2>8, <2>9 DEF Fills
  <2>11. KeysOfThread(r)'
    BY <2>1, <2>7, <2>10 DEF KeysOfThread, Rests, Asked, Given, Began, HasRead
  <2>. QED BY <2>1, <2>2, <2>5, <2>6, <2>11, ThreadK
<1>. QED BY <1>1, <1>2

\* A thread that has read what was written, with before as it was or as it is now.
LEMMA LoadedK ==
  ASSUME CopyInv, KeysInv, NEW r \in Threads, NEW given,
         UNCHANGED <<maps, sets, keysGiven, keysBefore>>,
         at' = [at EXCEPT ![r] = "loaded"], loaded' = [loaded EXCEPT ![r] = given],
         done'[r] = {}, \A q \in Threads : q # r => done'[q] = done[q],
         DOMAIN before' = Threads, \A q \in Threads : q # r => before'[q] = before[q],
         DOMAIN storage' = Threads, \A q \in Threads : q # r => storage'[q] = storage[q],
         storage'[r] = [t \in Types |-> storage'[r][t]],
         before'[r].sets \in Nat, before'[r].sets <= sets,
         \A t \in Types : DOMAIN before'[r].maps[t] \subseteq DOMAIN given[t],
         sets = before'[r].sets => given = maps
  PROVE  KeysInv'
<1>1. DOMAIN loaded = Threads /\ \A q \in Threads : storage[q] = [t \in Types |-> storage[q][t]]
  BY DEF KeysInv, KeyTypes
<1>2. /\ at'[r] = "loaded" /\ loaded'[r] = given /\ DOMAIN loaded' = Threads
      /\ \A q \in Threads : q # r => at'[q] = at[q] /\ loaded'[q] = loaded[q]
  BY <1>1, ParTypesKnown
<1>3. \A q \in Threads : storage'[q] = [t \in Types |-> storage'[q][t]]
  <2>. SUFFICES ASSUME NEW q \in Threads, q # r PROVE storage'[q] = [t \in Types |-> storage'[q][t]]
    OBVIOUS
  <2>1. PICK old : old = storage[q] /\ old = storage'[q]
    OBVIOUS
  <2>2. old = [t \in Types |-> old[t]]
    BY <1>1, <2>1
  <2>. QED BY <2>1, <2>2
<1>4. KeyTypes'
  BY <1>2, <1>3 DEF KeysInv, KeyTypes
<1>5. KeysOfThread(r)'
  BY <1>2 DEF KeysOfThread, Rests, Asked, Given, Began, Fills, HasRead
<1>. QED BY <1>2, <1>4, <1>5, ThreadK

\* Each type of what a TTree or an RNTuple reader has is the map that was written.
LEMMA ReadEntryK ==
  ASSUME CopyInv, KeysInv, NEW r \in Threads, P!ReadEntry(r)
  PROVE  KeysInv'
<1>. DEFINE given == P!ReadEventMetaData(storage[r])
<1>1. /\ UNCHANGED <<maps, sets, keysGiven, keysBefore, before>>
      /\ at[r] = "fill" /\ done[r] = Types
      /\ at' = [at EXCEPT ![r] = "loaded"]
      /\ loaded' = [loaded EXCEPT ![r] = given]
      /\ storage' = [storage EXCEPT ![r] = [t \in Types |-> P!NoStorage]]
      /\ done' = [done EXCEPT ![r] = {}]
  BY DEF P!ReadEntry, P!ReadEntryParameters, P!Goto
<1>2. given = [t \in Types |-> P!LoadFrom(P!NoMap, P!Pairs(storage[r][t]))]
  BY DEF P!ReadEventMetaData
<1>. HIDE DEF given
<1>3. Began(r) /\ Fills(r)
  BY DEF KeysInv, KeysOfThread
<1>4. ASSUME NEW t \in Types
      PROVE  DOMAIN before[r].maps[t] \subseteq DOMAIN given[t] /\ (sets = before[r].sets => given[t] = maps[t])
  <2>1. PICK m : /\ IsMap(m) /\ storage[r][t] = P!KeysAndValues(m)
                 /\ DOMAIN before[r].maps[t] \subseteq DOMAIN m
                 /\ sets = before[r].sets => m = maps[t]
    BY <1>1, <1>3 DEF Fills, WrittenOf
  <2>2. given[t] = P!LoadFrom(P!NoMap, P!Pairs(P!KeysAndValues(m)))
    BY <1>2, <2>1
  <2>3. given[t] = m
    BY <2>1, <2>2, StoredAgain
  <2>. QED BY <2>1, <2>3
<1>5. sets = before[r].sets => given = maps
  <2>. SUFFICES ASSUME sets = before[r].sets PROVE given = maps
    OBVIOUS
  <2>1. \A t \in Types : given[t] = maps[t]
    BY <1>4
  <2>2. given = [t \in Types |-> given[t]] /\ maps = [t \in Types |-> maps[t]]
    BY <1>2, ParTypesKnown
  <2>3. [t \in Types |-> given[t]] = [t \in Types |-> maps[t]]
    BY <2>1
  <2>. QED BY <2>2, <2>3
<1>6. /\ done'[r] = {} /\ \A q \in Threads : q # r => done'[q] = done[q]
  BY <1>1, ParTypesKnown
<1>7. /\ DOMAIN storage' = Threads /\ (\A q \in Threads : q # r => storage'[q] = storage[q])
      /\ storage'[r] = [t \in Types |-> P!NoStorage] /\ DOMAIN before = Threads
  BY <1>1 DEF KeysInv, KeyTypes
<1>8. storage'[r] = [t \in Types |-> storage'[r][t]]
  BY <1>7
<1>9. before'[r].sets \in Nat /\ before'[r].sets <= sets
  BY <1>1, <1>3 DEF Began
<1>. QED BY <1>1, <1>4, <1>5, <1>6, <1>7, <1>8, <1>9, LoadedK

\* A block, or the object of an old file, has all of the maps as they are.
LEMMA ReadBlockK ==
  ASSUME CopyInv, KeysInv, NEW r \in Threads, P!ReadBlock(r)
  PROVE  KeysInv'
<1>1. /\ UNCHANGED <<maps, sets, done, keysGiven, keysBefore, storage>>
      /\ at[r] = "idle" /\ at' = [at EXCEPT ![r] = "loaded"]
      /\ before' = [before EXCEPT ![r] = [maps |-> maps, sets |-> sets]]
  BY DEF P!ReadBlock, P!Goto
<1>2. \A t \in Types : IsMap(maps[t])
  BY DEF KeysInv, KeyTypes
<1>3. loaded' = [loaded EXCEPT ![r] = maps]
  <2>1. CASE \E version \in {1, 2} :
               /\ version < 2 /\ "double" \in Types => maps["double"] = P!NoMap
               /\ loaded' = [loaded EXCEPT ![r] =
                               P!ReadGenericParameters(P!WriteGenericParameters(maps, version), version)]
    BY <1>2, <2>1, ParTypesKnown, BlockAgain
  <2>2. CASE loaded' = [loaded EXCEPT ![r] = P!ReadEntryParameters(3, maps)]
    BY <2>2 DEF P!ReadEntryParameters
  <2>. QED BY <2>1, <2>2 DEF P!ReadBlock
<1>4. /\ DOMAIN before' = Threads /\ (\A q \in Threads : q # r => before'[q] = before[q])
      /\ before'[r].maps = maps /\ before'[r].sets = sets /\ sets \in Nat
      /\ DOMAIN storage = Threads /\ storage[r] = [t \in Types |-> storage[r][t]]
  BY <1>1 DEF KeysInv, KeyTypes
<1>5. done[r] = {}
  BY <1>1 DEF KeysInv, KeysOfThread, Rests
<1>6. before'[r].sets \in Nat /\ before'[r].sets <= sets
  BY <1>4
<1>7. /\ UNCHANGED <<maps, sets, keysGiven, keysBefore>>
      /\ done'[r] = {} /\ \A q \in Threads : q # r => done'[q] = done[q]
      /\ DOMAIN storage' = Threads /\ \A q \in Threads : q # r => storage'[q] = storage[q]
      /\ storage'[r] = [t \in Types |-> storage'[r][t]]
  BY <1>1, <1>4, <1>5
<1>8. /\ \A t \in Types : DOMAIN before'[r].maps[t] \subseteq DOMAIN maps[t]
      /\ sets = before'[r].sets => maps = maps
  BY <1>4
<1>. QED BY <1>1, <1>3, <1>4, <1>6, <1>7, <1>8, LoadedK

\* The invariant at first.
LEMMA KeysInit ==
  ASSUME P!Init
  PROVE  KeysInv
<1>1. /\ maps = [t \in Types |-> P!LoadFrom(P!NoMap, FromFile[t])] /\ sets = 0
      /\ at = [r \in Threads |-> "idle"] /\ done = [r \in Threads |-> {}]
      /\ DOMAIN keysGiven = Threads /\ DOMAIN keysBefore = Threads /\ DOMAIN before = Threads /\ DOMAIN loaded = Threads
      /\ storage = [r \in Threads |-> [t \in Types |-> P!NoStorage]]
  BY DEF P!Init
<1>2. ASSUME NEW t \in Types PROVE IsMap(maps[t])
  <2>1. Len(FromFile[t]) \in Nat /\ DOMAIN FromFile[t] = 1 .. Len(FromFile[t])
    BY ParametersAssumption
  <2>2. IsMap(P!LoadFrom(P!NoMap, FromFile[t]))
    BY <2>1, LoadFromType
  <2>. QED BY <1>1, <2>2
<1>3. KeyTypes
  BY <1>1, <1>2 DEF KeyTypes
<1>. QED BY <1>1, <1>3 DEF KeysInv, KeysOfThread, Rests, Asked, Given, Began, Fills, HasRead

\* Every step of the parameters preserves it.
LEMMA KeysNext ==
  ASSUME CopyInv, KeysInv, P!Next
  PROVE  KeysInv'
<1>1. CASE \E t \in Types, k \in Keys : P!Set(t, k)
  BY <1>1, SetK
<1>2. ASSUME NEW r \in Threads, P!StartCopy(r) \/ P!EndCopy(r) \/ \E t \in Types : P!CopyMap(r, t)
      PROVE  KeysInv'
  BY <1>2, CopiesK
<1>3. ASSUME NEW r \in Threads, P!DropKeys(r) \/ P!DropLoaded(r)
      PROVE  KeysInv'
  BY <1>3, DropK
<1>4. ASSUME NEW r \in Threads, P!StartFill(r) \/ \E t \in Types : P!FillParams(r, t)
      PROVE  KeysInv'
  BY <1>4, FillK
<1>5. ASSUME NEW r \in Threads, P!ReadEntry(r) \/ P!ReadBlock(r)
      PROVE  KeysInv'
  BY <1>5, ReadEntryK, ReadBlockK
<1>6. ASSUME NEW r \in Threads, NEW t \in Types, P!StartGetKeys(r, t) \/ P!GetKeys(r, t)
      PROVE  KeysInv'
  BY <1>6, GetKeysK
<1>. QED BY <1>1, <1>2, <1>3, <1>4, <1>5, <1>6 DEF P!Next

\* The keys that are given and the parameters that are read are complete.
LEMMA KeysSuffices ==
  ASSUME CopyInv, KeysInv
  PROVE  KeysComplete
<1>1. ASSUME NEW r \in Threads, at[r] = "given", NEW t \in done[r], NEW key \in P!Range(keysGiven[r])
      PROVE  P!Get(t, key) # {}
  <2>1. key \in DOMAIN maps[t]
    BY <1>1 DEF KeysInv, KeysOfThread, Given
  <2>. QED BY <2>1 DEF P!Get
<1>. QED BY <1>1 DEF KeysComplete, P!KeysComplete, KeysInv, KeysOfThread, Given, HasRead

\* getKeys gives each key that was set before it was called, once, and one can get
\* a value for it, however stale the size is that it reserved space for.  A reader
\* of a TTree, an RNTuple or an sio block has all keys that were set before the
\* parameters were written, and the parameters themselves if none was set meanwhile.
THEOREM KeysAreComplete == MemorySpec => []KeysComplete
<1>1. MemoryInit => KeysInv
  BY KeysInit DEF MemoryInit
<1>2. CopyInv /\ KeysInv /\ [MemoryNext]_memoryVars => KeysInv'
  <2> SUFFICES ASSUME CopyInv, KeysInv, [MemoryNext]_memoryVars
               PROVE  KeysInv'
    OBVIOUS
  <2>1. CASE P!Next
    BY <2>1, KeysNext
  <2>2. CASE UNCHANGED parVars
    <3>1. KeyTypes'
      BY <2>2 DEF parVars, KeysInv, KeyTypes
    <3>2. ASSUME NEW r \in Threads PROVE KeysOfThread(r)'
      BY <2>2, OtherThread DEF parVars, KeysInv
    <3>. QED BY <3>1, <3>2 DEF KeysInv
  <2>. QED BY <2>1, <2>2 DEF MemoryNext, OnHandles, memoryVars
<1>. QED BY <1>1, <1>2, CopyInvariant, KeysSuffices, PTL DEF MemorySpec
-----------------------------------------------------------------------------
(* Arrow tables.                                                           *)

\* The values of a column, or the parameters, are in chunks one after the other.
Holds(chunks, values, X) ==
  chunks \in Seq(Seq(X)) /\ values \in Seq(X) /\ \E g : FlatAt(chunks, values, g)

\* They may all be in one chunk.
LEMMA OneChunk ==
  ASSUME NEW X, NEW values \in Seq(X)
  PROVE  Holds(<<values>>, values, X)
<1>. DEFINE g == [k \in 0 .. 1 |-> IF k = 0 THEN 0 ELSE Len(values)]
<1>1. <<values>> \in Seq(Seq(X)) /\ Len(<<values>>) = 1 /\ <<values>>[1] = values /\ Len(values) \in Nat
  OBVIOUS
<1>2. g \in [0 .. 1 -> Nat] /\ g[0] = 0 /\ g[1] = Len(values)
  BY <1>1
<1>. HIDE DEF g
<1>3. \A t \in 1 .. 1 : t = 1 /\ t - 1 = 0
  OBVIOUS
<1>4. \A t \in 1 .. 1 : g[t] = g[t - 1] + Len(<<values>>[t])
  BY <1>1, <1>2, <1>3
<1>5. \A t \in 1 .. 1 : \A l \in 1 .. Len(<<values>>[t]) : values[g[t - 1] + l] = <<values>>[t][l]
  BY <1>1, <1>2, <1>3
<1>6. FlatAt(<<values>>, values, g)
  BY <1>1, <1>2, <1>4, <1>5 DEF FlatAt
<1>. QED BY <1>1, <1>6 DEF Holds

\* What is concatenated is behind what is there.
LEMMA ChunkAdded ==
  ASSUME NEW X, NEW chunks, NEW values, Holds(chunks, values, X), NEW x \in X
  PROVE  Holds(chunks \o << <<x>> >>, Append(values, x), X)
<1>1. PICK g : FlatAt(chunks, values, g)
  BY DEF Holds
<1>2. PICK n \in Nat : n = Len(chunks) /\ chunks \in Seq(Seq(X)) /\ chunks \in [1 .. n -> Seq(X)]
  BY DEF Holds
<1>3. PICK m \in Nat : m = Len(values) /\ values \in Seq(X)
  BY DEF Holds
<1>4. PICK more : more = chunks \o << <<x>> >>
  OBVIOUS
<1>5. <<x>> \in Seq(X) /\ Len(<<x>>) = 1 /\ <<x>>[1] = x
  OBVIOUS
<1>6. PICK c \in Seq(X) : c = <<x>>
  BY <1>5
<1>7. more \in Seq(Seq(X)) /\ Len(more) = n + 1 /\ more[n + 1] = c /\ \A t \in 1 .. n : more[t] = chunks[t]
  <2>1. <<c>> \in Seq(Seq(X)) /\ Len(<<c>>) = 1 /\ <<c>>[1] = c
    BY <1>6
  <2>2. chunks \o <<c>> \in Seq(Seq(X)) /\ Len(chunks \o <<c>>) = n + 1
        /\ (chunks \o <<c>>)[n + 1] = c /\ \A t \in 1 .. n : (chunks \o <<c>>)[t] = chunks[t]
    BY <1>2, <2>1
  <2>. QED BY <1>4, <1>6, <2>2
<1>8. Append(values, x) \in Seq(X) /\ Len(Append(values, x)) = m + 1 /\ Append(values, x)[m + 1] = x
      /\ \A i \in 1 .. m : Append(values, x)[i] = values[i]
  BY <1>3
<1>9. /\ g \in [0 .. n -> Nat] /\ g[0] = 0 /\ m = g[n]
      /\ \A t \in 1 .. n : g[t] = g[t - 1] + Len(chunks[t])
      /\ \A t \in 1 .. n : \A l \in 1 .. Len(chunks[t]) : values[g[t - 1] + l] = chunks[t][l]
  BY <1>1, <1>2, <1>3 DEF FlatAt
<1>. DEFINE h == [t \in 0 .. n + 1 |-> IF t = n + 1 THEN m + 1 ELSE g[t]]
<1>10. h \in [0 .. n + 1 -> Nat] /\ h[n + 1] = m + 1 /\ \A t \in 0 .. n : h[t] = g[t]
  BY <1>9
<1>. HIDE DEF h
<1>11. h[0] = 0
  BY <1>9, <1>10
<1>12. \A t \in 1 .. n + 1 : t = n + 1 \/ (t \in 1 .. n /\ t \in 0 .. n /\ t - 1 \in 0 .. n)
  OBVIOUS
<1>13. n \in 0 .. n /\ (n + 1) - 1 = n
  OBVIOUS
<1>14. \A t \in 1 .. n + 1 : h[t] = h[t - 1] + Len(more[t])
  <2>1. h[n + 1] = h[(n + 1) - 1] + Len(more[n + 1])
    BY <1>5, <1>6, <1>7, <1>9, <1>10, <1>13
  <2>2. ASSUME NEW t \in 1 .. n PROVE h[t] = h[t - 1] + Len(more[t])
    <3>1. t - 1 \in 0 .. n /\ t \in 0 .. n
      OBVIOUS
    <3>2. h[t] = g[t] /\ h[t - 1] = g[t - 1]
      BY <1>10, <3>1
    <3>3. more[t] = chunks[t] /\ g[t] = g[t - 1] + Len(chunks[t])
      BY <1>7, <1>9
    <3>. QED BY <3>2, <3>3
  <2>. QED BY <1>12, <2>1, <2>2
<1>15. \A t \in 1 .. n : \A l \in 1 .. Len(chunks[t]) : g[t - 1] + l \in 1 .. m
  <2>. DEFINE lens == [t \in 1 .. n |-> Len(chunks[t])]
  <2>1. lens \in [1 .. n -> Nat] /\ \A t \in 1 .. n : lens[t] = Len(chunks[t])
    BY <1>2
  <2>2. lens \in Seq(Nat) /\ Len(lens) = n
    BY <2>1, IsASeq
  <2>. HIDE DEF lens
  <2>3. PartialSums(lens, g)
    BY <1>9, <2>1, <2>2 DEF PartialSums
  <2>. SUFFICES ASSUME NEW t \in 1 .. n, NEW l \in 1 .. Len(chunks[t]) PROVE g[t - 1] + l \in 1 .. m
    OBVIOUS
  <2>4. t \in 0 .. Len(lens) /\ Len(lens) \in t .. Len(lens)
    BY <2>2
  <2>5. g[t] <= g[n]
    BY <2>2, <2>3, <2>4, SumsGrow
  <2>6. g[t - 1] \in Nat /\ g[t] \in Nat /\ g[t] = g[t - 1] + Len(chunks[t]) /\ Len(chunks[t]) \in Nat
    <3>1. t - 1 \in 0 .. n /\ t \in 0 .. n
      OBVIOUS
    <3>2. chunks[t] \in Seq(X)
      BY <1>2
    <3>3. Len(chunks[t]) \in Nat
      BY <3>2
    <3>. QED BY <1>9, <3>1, <3>3
  <2>7. g[t - 1] + l \in 1 .. g[n]
    <3>1. g[n] \in Nat
      BY <1>3, <1>9
    <3>. QED BY ONLY <2>5, <2>6, <3>1, BelowIn, l \in 1 .. Len(chunks[t])
  <2>. QED BY <1>9, <2>7
<1>16. \A t \in 1 .. n + 1 : \A l \in 1 .. Len(more[t]) : Append(values, x)[h[t - 1] + l] = more[t][l]
  <2>1. ASSUME NEW t \in 1 .. n, NEW l \in 1 .. Len(chunks[t]) PROVE Append(values, x)[h[t - 1] + l] = more[t][l]
    <3>1. h[t - 1] = g[t - 1]
      BY <1>10, <1>12
    <3>2. g[t - 1] + l \in 1 .. m
      BY <1>15
    <3>3. Append(values, x)[g[t - 1] + l] = values[g[t - 1] + l]
      BY <1>8, <3>2
    <3>4. values[g[t - 1] + l] = chunks[t][l] /\ more[t] = chunks[t]
      BY <1>7, <1>9
    <3>. QED BY <3>1, <3>3, <3>4
  <2>2. ASSUME NEW l \in 1 .. Len(more[n + 1]) PROVE Append(values, x)[h[(n + 1) - 1] + l] = more[n + 1][l]
    <3>1. l = 1 /\ h[(n + 1) - 1] = m
      BY <1>5, <1>6, <1>7, <1>9, <1>10, <1>13, <2>2
    <3>. QED BY <1>5, <1>6, <1>7, <1>8, <3>1
  <2>. QED BY <1>7, <1>12, <2>1, <2>2
<1>17. FlatAt(more, Append(values, x), h)
  BY <1>7, <1>8, <1>10, <1>11, <1>14, <1>16 DEF FlatAt
<1>. QED BY <1>4, <1>7, <1>8, <1>17 DEF Holds

\* The lengths of the chunks, for the lemmas on sums.
Lengths(chunks) == [t \in 1 .. Len(chunks) |-> Len(chunks[t])]

LEMMA LengthsAre ==
  ASSUME NEW X, NEW chunks \in Seq(Seq(X)), NEW values, NEW g, FlatAt(chunks, values, g)
  PROVE  Lengths(chunks) \in Seq(Nat) /\ Len(Lengths(chunks)) = Len(chunks) /\ PartialSums(Lengths(chunks), g)
<1>1. PICK n \in Nat : n = Len(chunks) /\ \A t \in 1 .. n : Len(chunks[t]) \in Nat
  OBVIOUS
<1>. DEFINE lens == Lengths(chunks)
<1>2. lens \in [1 .. n -> Nat] /\ \A t \in 1 .. n : lens[t] = Len(chunks[t])
  BY <1>1 DEF Lengths
<1>. HIDE DEF lens
<1>3. lens \in Seq(Nat) /\ Len(lens) = n
  BY <1>2, IsASeq
<1>4. PartialSums(lens, g)
  BY <1>1, <1>2, <1>3 DEF PartialSums, FlatAt
<1>. QED BY <1>1, <1>3, <1>4 DEF lens

\* Each of the values is somewhere in the chunks.
LEMMA ValueLocated ==
  ASSUME NEW X, NEW chunks \in Seq(Seq(X)), NEW values \in Seq(X), NEW g, FlatAt(chunks, values, g),
         NEW n \in Nat, n < Len(values)
  PROVE  \E t \in 1 .. Len(chunks) : g[t - 1] <= n /\ n < g[t]
<1>. DEFINE lens == Lengths(chunks)
<1>1. lens \in Seq(Nat) /\ Len(lens) = Len(chunks) /\ PartialSums(lens, g)
  BY LengthsAre
<1>2. Len(values) = g[Len(chunks)]
  BY DEF FlatAt
<1>. HIDE DEF lens
<1>. QED BY <1>1, <1>2, Located

\* And it is what is at its place there.
LEMMA ValueAt ==
  ASSUME NEW X, NEW chunks \in Seq(Seq(X)), NEW values \in Seq(X), NEW g, FlatAt(chunks, values, g),
         NEW n \in Nat, NEW t \in 1 .. Len(chunks), g[t - 1] <= n, n < g[t]
  PROVE  chunks[t][n - g[t - 1] + 1] = values[n + 1]
<1>1. /\ g[t] = g[t - 1] + Len(chunks[t]) /\ g[t - 1] \in Nat /\ g[t] \in Nat /\ Len(chunks[t]) \in Nat
      /\ \A l \in 1 .. Len(chunks[t]) : values[g[t - 1] + l] = chunks[t][l]
  <2>1. t - 1 \in 0 .. Len(chunks) /\ t \in 0 .. Len(chunks)
    OBVIOUS
  <2>2. g[t - 1] \in Nat /\ g[t] \in Nat
    BY <2>1 DEF FlatAt
  <2>3. g[t] = g[t - 1] + Len(chunks[t]) /\ \A l \in 1 .. Len(chunks[t]) : values[g[t - 1] + l] = chunks[t][l]
    BY DEF FlatAt
  <2>4. chunks[t] \in Seq(X)
    OBVIOUS
  <2>5. Len(chunks[t]) \in Nat
    BY <2>4
  <2>. QED BY <2>2, <2>3, <2>5
<1>2. PICK low \in Nat : low = g[t - 1]
  BY <1>1
<1>3. PICK size \in Nat : size = Len(chunks[t])
  BY <1>1
<1>4. low <= n /\ n < low + size
  BY <1>1, <1>2, <1>3
<1>5. n - low + 1 \in 1 .. size /\ low + (n - low + 1) = n + 1
  BY <1>4
<1>6. PICK l \in Nat : l = n - low + 1
  BY <1>5
<1>7. values[low + l] = chunks[t][l]
  BY ONLY <1>1, <1>2, <1>3, <1>5, <1>6
<1>. QED BY ONLY <1>2, <1>5, <1>6, <1>7

\* CombineChunks has all values in one chunk.
LEMMA FlatIs ==
  ASSUME NEW X, NEW chunks, NEW values, Holds(chunks, values, X), values # <<>>
  PROVE  A!Flat(chunks) = <<values>>
<1>1. PICK g : FlatAt(chunks, values, g)
  BY DEF Holds
<1>2. chunks \in Seq(Seq(X)) /\ values \in Seq(X)
  BY DEF Holds
<1>3. PICK n \in Nat : n = Len(chunks) /\ chunks \in [1 .. n -> Seq(X)]
  BY <1>2
<1>4. n # 0
  <2>. SUFFICES ASSUME n = 0 PROVE FALSE
    OBVIOUS
  <2>1. Len(values) = 0
    BY <1>1, <1>3 DEF FlatAt
  <2>. QED BY <1>2, <2>1
<1>5. PICK flat, h : flat \in Seq(X) /\ flat = FlattenSeq(chunks) /\ FlatAt(chunks, flat, h)
  BY <1>3, <1>4, Flattened
<1>6. \A k \in 0 .. n : g[k] = h[k]
  <2>. DEFINE lens == Lengths(chunks)
  <2>1. lens \in Seq(Nat) /\ Len(lens) = n /\ PartialSums(lens, g) /\ PartialSums(lens, h)
    BY <1>1, <1>2, <1>3, <1>5, LengthsAre
  <2>. HIDE DEF lens
  <2>. QED BY <2>1, SumsSame
<1>7. Len(flat) = Len(values)
  <2>1. n \in 0 .. n
    OBVIOUS
  <2>. QED BY <1>1, <1>3, <1>5, <1>6, <2>1 DEF FlatAt
<1>8. ASSUME NEW i \in 1 .. Len(values) PROVE flat[i] = values[i]
  <2>1. PICK k \in Nat : i = k + 1 /\ k < Len(values)
    <3>1. Len(values) \in Nat
      BY <1>2
    <3>2. i - 1 \in Nat /\ i = (i - 1) + 1 /\ i - 1 < Len(values)
      BY <3>1
    <3>. QED BY <3>2
  <2>2. PICK t \in 1 .. Len(chunks) : g[t - 1] <= k /\ k < g[t]
    BY <1>1, <1>2, <2>1, ValueLocated
  <2>3. t - 1 \in 0 .. n /\ t \in 0 .. n
    BY <1>3
  <2>4. h[t - 1] = g[t - 1] /\ h[t] = g[t]
    BY <1>6, <2>3
  <2>5. chunks[t][k - g[t - 1] + 1] = values[k + 1]
    BY <1>1, <1>2, <2>2, ValueAt
  <2>6. chunks[t][k - h[t - 1] + 1] = flat[k + 1]
    BY <1>2, <1>5, <2>2, <2>4, ValueAt
  <2>. QED BY <2>1, <2>4, <2>5, <2>6
<1>9. flat = values
  <2>1. flat = [i \in 1 .. Len(flat) |-> flat[i]]
    BY <1>5
  <2>2. values = [i \in 1 .. Len(values) |-> values[i]]
    BY <1>2
  <2>. QED BY ONLY <1>7, <1>8, <2>1, <2>2
<1>10. A!FlattenSeq(chunks) = FlattenSeq(chunks)
  BY Zenon DEF A!FlattenSeq, FlattenSeq
<1>. QED BY <1>5, <1>9, <1>10 DEF A!Flat

\* getChunkOrThrow finds the row.
LEMMA AtRowIs ==
  ASSUME NEW X, NEW chunks, NEW values, Holds(chunks, values, X), NEW row \in Nat, row < Len(values)
  PROVE  A!AtRow(chunks, row) = values[row + 1]
<1>1. PICK g : FlatAt(chunks, values, g)
  BY DEF Holds
<1>2. chunks \in Seq(Seq(X)) /\ values \in Seq(X)
  BY DEF Holds
<1>3. PICK n \in Nat : n = Len(chunks) /\ DOMAIN chunks = 1 .. n
  BY <1>2
<1>. DEFINE end[c \in 0 .. Len(chunks)] == IF c = 0 THEN 0 ELSE end[c - 1] + Len(chunks[c])
            Here == CHOOSE i \in DOMAIN chunks : end[i - 1] <= row /\ row < end[i]
<1>4. A!AtRow(chunks, row) = chunks[Here][row - end[Here - 1] + 1]
  BY DEF A!AtRow
<1>5. g = [c \in 0 .. Len(chunks) |-> IF c = 0 THEN 0 ELSE g[c - 1] + Len(chunks[c])]
  <2>1. \A c \in 0 .. n : c = 0 \/ c \in 1 .. n
    OBVIOUS
  <2>2. g = [c \in 0 .. n |-> g[c]]
    BY <1>1, <1>3 DEF FlatAt
  <2>. QED BY <1>1, <1>3, <2>1, <2>2 DEF FlatAt
<1>6. end = [c \in 0 .. Len(chunks) |-> IF c = 0 THEN 0 ELSE end[c - 1] + Len(chunks[c])]
  BY <1>5
<1>. HIDE DEF end
<1>. DEFINE T == {k \in Nat : k <= n => end[k] = g[k]}
<1>7. 0 \in T
  BY <1>3, <1>5, <1>6
<1>8. ASSUME NEW k \in Nat, k \in T PROVE k + 1 \in T
  <2>1. SUFFICES ASSUME k + 1 <= n PROVE end[k + 1] = g[k + 1]
    OBVIOUS
  <2>2. k + 1 \in 0 .. n /\ k + 1 # 0 /\ (k + 1) - 1 = k /\ end[k] = g[k]
    BY <1>8, <2>1
  <2>. QED BY <1>3, <1>5, <1>6, <2>2
<1>. HIDE DEF T
<1>9. Nat \subseteq T
  BY <1>7, <1>8, Induction
<1>10. \A k \in 0 .. n : end[k] = g[k]
  BY <1>9 DEF T
<1>11. PICK t \in 1 .. n : g[t - 1] <= row /\ row < g[t]
  BY <1>1, <1>2, <1>3, ValueLocated
<1>12. \A i \in 1 .. n : i - 1 \in 0 .. n /\ i \in 0 .. n
  OBVIOUS
<1>13. t \in DOMAIN chunks /\ end[t - 1] <= row /\ row < end[t]
  BY <1>3, <1>10, <1>11, <1>12
<1>14. Here \in DOMAIN chunks /\ end[Here - 1] <= row /\ row < end[Here]
  <2>. HIDE DEF end
  <2>. QED BY <1>13
<1>. HIDE DEF Here
<1>15. end[Here - 1] = g[Here - 1] /\ end[Here] = g[Here]
  BY <1>3, <1>10, <1>12, <1>14
<1>16. Here \in 1 .. Len(chunks) /\ g[Here - 1] <= row /\ row < g[Here]
  BY <1>3, <1>14, <1>15
<1>17. chunks[Here][row - g[Here - 1] + 1] = values[row + 1]
  BY <1>1, <1>2, <1>16, ValueAt
<1>. QED BY <1>4, <1>15, <1>17

\* The entries of a parameter map, in some order, give the map again.
LEMMA MapExtracted ==
  ASSUME NEW m, IsMap(m)
  PROVE  A!ExtractMap(A!BuildParamMap(m)) = m
<1>. DEFINE S == {[key |-> k, value |-> m[k]] : k \in DOMAIN m}
            items == SetToSeq(S)
<1>1. A!BuildParamMap(m) = items
  BY DEF A!BuildParamMap, A!SetToSeq, SetToSeq, A!IsInjective, IsInjective, A!Cardinality, Cardinality
<1>2. IsFiniteSet(S)
  <2>. DEFINE f == [k \in DOMAIN m |-> [key |-> k, value |-> m[k]]]
  <2>1. f \in Surjection(DOMAIN m, S)
    BY DEF Surjection
  <2>. HIDE DEF f, S
  <2>. QED BY <2>1, FS_Surjection DEF IsMap
<1>3. \A e \in S : e.key \in DOMAIN m /\ e.value = m[e.key]
  OBVIOUS
<1>4. \A k \in DOMAIN m : \E e \in S : e.key = k
  <2>. SUFFICES ASSUME NEW k \in DOMAIN m PROVE \E e \in S : e.key = k
    OBVIOUS
  <2>1. [key |-> k, value |-> m[k]] \in S /\ [key |-> k, value |-> m[k]].key = k
    OBVIOUS
  <2>. HIDE DEF S
  <2>. QED BY <2>1
<1>. HIDE DEF S
<1>5. PICK n \in Nat : items \in [1 .. n -> S] /\ \A x \in S : \E i \in 1 .. n : items[i] = x
  BY <1>2, SetInSeq
<1>. HIDE DEF items
<1>6. {items[i].key : i \in DOMAIN items} = DOMAIN m
  <2>1. DOMAIN items = 1 .. n /\ \A i \in 1 .. n : items[i] \in S
    BY <1>5
  <2>2. \A i \in DOMAIN items : items[i].key \in DOMAIN m
    BY <1>3, <2>1
  <2>3. \A k \in DOMAIN m : \E i \in DOMAIN items : items[i].key = k
    BY <1>4, <1>5, <2>1
  <2>. QED BY <2>2, <2>3
<1>7. ASSUME NEW k \in DOMAIN m
      PROVE  items[CHOOSE i \in DOMAIN items : items[i].key = k].value = m[k]
  <2>1. \E i \in DOMAIN items : items[i].key = k
    BY <1>4, <1>5
  <2>2. PICK i \in DOMAIN items : i = (CHOOSE j \in DOMAIN items : items[j].key = k) /\ items[i].key = k
    BY <2>1
  <2>3. items[i].value = m[k]
    BY <1>3, <1>5, <2>2
  <2>. QED BY <2>2, <2>3
<1>8. A!ExtractMap(items) = [k \in DOMAIN m |-> items[CHOOSE i \in DOMAIN items : items[i].key = k].value]
  BY <1>6 DEF A!ExtractMap
<1>9. A!ExtractMap(items) = [k \in DOMAIN m |-> m[k]]
  BY <1>7, <1>8
<1>. QED BY <1>1, <1>9 DEF IsMap

\* What is in a column, and the parameters in their order.
CollOf(k, i) == Frames[rows[k]].collections[selection[i]]
AllValues == UNION {{Frames[f].collections[n].value : n \in DOMAIN Frames[f].collections} : f \in DOMAIN Frames}
AllParameters == {A!ConvertParameters(Frames[f].parameters) : f \in DOMAIN Frames}
ColumnValues(i) == [k \in DOMAIN rows |-> CollOf(k, i).value]
RowParameters == [k \in DOMAIN rows |-> A!ConvertParameters(Frames[rows[k]].parameters)]

\* Two frames that have a collection of a name agree on it.
LEMMA FramesAgree ==
  ASSUME NEW e \in DOMAIN Frames, NEW h \in DOMAIN Frames, NEW m \in DOMAIN Frames[e].collections,
         m \in DOMAIN Frames[h].collections
  PROVE  /\ Frames[e].collections[m].type = Frames[h].collections[m].type
         /\ Frames[e].collections[m].id = Frames[h].collections[m].id
         /\ Frames[e].collections[m].version = Frames[h].collections[m].version
<1>1. \A f \in DOMAIN Frames : \A n \in DOMAIN Frames[f].collections :
        \A g \in DOMAIN Frames : n \in DOMAIN Frames[g].collections =>
          LET c == Frames[f].collections[n]
              d == Frames[g].collections[n]
          IN  c.type = d.type /\ c.id = d.id /\ c.version = d.version
  BY FramesAssumption
<1>. QED BY ONLY <1>1, e \in DOMAIN Frames, h \in DOMAIN Frames,
                 m \in DOMAIN Frames[e].collections, m \in DOMAIN Frames[h].collections

\* The collections of all rows are of the types that the columns have, and the
\* metadata of the columns are those of the first row.
TableInv ==
  /\ rows \in Seq(DOMAIN Frames) /\ rows # <<>>
  /\ selection \in Selections
  /\ DOMAIN table.columns = DOMAIN selection
  /\ \A k \in DOMAIN rows :
       /\ A!CanConvert(Frames[rows[k]], selection)
       /\ \A i \in DOMAIN selection : CollOf(k, i).subset = CollOf(1, i).subset
  /\ \A i \in DOMAIN selection :
       /\ table.columns[i] =
            [name |-> selection[i], meta |-> A!Metadata(CollOf(1, i)), chunks |-> table.columns[i].chunks]
       /\ Holds(table.columns[i].chunks, ColumnValues(i), AllValues)
  /\ Holds(table.params, RowParameters, AllParameters)

\* The inductive invariant.
ArrowInv ==
  /\ table = A!NoTable => frame = A!NoFrame
  /\ table # A!NoTable => TableInv
  /\ RowIsFrame

\* With no frame there is nothing to say of it.
LEMMA NoFrameIs == frame = A!NoFrame => RowIsFrame
  BY DEF A!NoFrame, RowIsFrame, A!RowIsFrame

LEMMA NoFrameThen ==
  ASSUME frame' = A!NoFrame
  PROVE  RowIsFrame'
  BY DEF A!NoFrame, RowIsFrame, A!RowIsFrame

\* The collections and the parameters of a frame.
LEMMA FrameParts ==
  ASSUME NEW f \in DOMAIN Frames
  PROVE  /\ A!ConvertParameters(Frames[f].parameters) \in AllParameters
         /\ \A n \in DOMAIN Frames[f].collections : Frames[f].collections[n].value \in AllValues
         /\ \A t \in Types : IsMap(Frames[f].parameters[t])
         /\ Frames[f].parameters = [t \in Types |-> Frames[f].parameters[t]]
  BY FramesAssumption DEF AllParameters, AllValues, IsMap

\* A selection is a sequence.
LEMMA SelectionIs ==
  ASSUME NEW names \in Selections
  PROVE  \E n \in Nat : DOMAIN names = 1 .. n
  BY FramesAssumption

\* One more element.
LEMMA AppendIs ==
  ASSUME NEW X, NEW s \in Seq(X), NEW x \in X, NEW n \in Nat, Len(s) = n
  PROVE  Append(s, x) = [k \in 1 .. n + 1 |-> IF k = n + 1 THEN x ELSE s[k]]
<1>. DEFINE t == Append(s, x)
<1>1. t \in Seq(X)
  OBVIOUS
<1>2. Len(t) = n + 1 /\ t[n + 1] = x /\ \A k \in 1 .. n : t[k] = s[k]
  OBVIOUS
<1>. HIDE DEF t
<1>3. t = [k \in 1 .. Len(t) |-> t[k]]
  BY <1>1
<1>4. \A k \in 1 .. n + 1 : k = n + 1 \/ k \in 1 .. n
  OBVIOUS
<1>5. \A k \in 1 .. n + 1 : t[k] = IF k = n + 1 THEN x ELSE s[k]
  BY <1>2, <1>4
<1>6. t = [k \in 1 .. n + 1 |-> IF k = n + 1 THEN x ELSE s[k]]
  BY <1>2, <1>3, <1>5
<1>. QED BY <1>6 DEF t

\* Convert: a table with one row.
LEMMA ConvertA ==
  ASSUME ArrowInv, NEW f \in DOMAIN Frames, NEW names \in Selections, A!Convert(f, names)
  PROVE  ArrowInv'
<1>1. /\ frame' = A!NoFrame /\ rows' = <<f>> /\ selection' = names
      /\ table' = A!FrameToTable(Frames[f], names) /\ A!CanConvert(Frames[f], names)
  BY DEF ArrowInv, A!Convert
<1>2. /\ table'.columns = [i \in DOMAIN names |->
                             [name |-> names[i], meta |-> A!Metadata(Frames[f].collections[names[i]]),
                              chunks |-> << <<Frames[f].collections[names[i]].value>> >>]]
      /\ table'.params = << <<A!ConvertParameters(Frames[f].parameters)>> >>
  BY <1>1 DEF A!FrameToTable
<1>3. table' # A!NoTable
  <2>1. A!NoTable.params = <<>> /\ << <<A!ConvertParameters(Frames[f].parameters)>> >> # <<>>
    BY DEF A!NoTable
  <2>. QED BY <1>2, <2>1
<1>4. rows' \in Seq(DOMAIN Frames) /\ rows' # <<>> /\ DOMAIN rows' = {1} /\ rows'[1] = f
  <2>1. <<f>> \in Seq(DOMAIN Frames) /\ <<f>> # <<>> /\ DOMAIN <<f>> = 1 .. 1 /\ <<f>>[1] = f /\ 1 .. 1 = {1}
    OBVIOUS
  <2>. QED BY <1>1, <2>1
<1>5. \A i \in DOMAIN names : CollOf(1, i)' = Frames[f].collections[names[i]]
  BY <1>1, <1>4 DEF CollOf
<1>6. \A x : [k \in {1} |-> x] = <<x>>
  OBVIOUS
<1>7. ASSUME NEW i \in DOMAIN names
      PROVE  Holds(table'.columns[i].chunks, ColumnValues(i)', AllValues)
  <2>1. PICK x : x = Frames[f].collections[names[i]].value
    OBVIOUS
  <2>2. x \in AllValues
    BY <1>1, <2>1, FrameParts DEF A!CanConvert
  <2>3. ColumnValues(i)' = <<x>>
    <3>1. ColumnValues(i)' = [k \in {1} |-> x]
      BY <1>1, <1>4, <2>1 DEF ColumnValues, CollOf
    <3>. QED BY <1>6, <3>1
  <2>4. table'.columns[i].chunks = << <<x>> >>
    BY <1>2, <2>1
  <2>5. <<x>> \in Seq(AllValues)
    BY <2>2
  <2>. QED BY <2>3, <2>4, <2>5, OneChunk
<1>8. Holds(table'.params, RowParameters', AllParameters)
  <2>1. PICK x : x = A!ConvertParameters(Frames[f].parameters)
    OBVIOUS
  <2>2. x \in AllParameters
    BY <2>1, FrameParts
  <2>3. RowParameters' = <<x>>
    <3>1. RowParameters' = [k \in {1} |-> x]
      BY <1>1, <1>4, <2>1 DEF RowParameters
    <3>. QED BY <1>6, <3>1
  <2>4. <<x>> \in Seq(AllParameters)
    BY <2>2
  <2>. QED BY <1>2, <2>1, <2>3, <2>4, OneChunk
<1>9. TableInv'
  <2>1. AllValues' = AllValues /\ AllParameters' = AllParameters
    OBVIOUS
  <2>2. ASSUME NEW i \in DOMAIN names
        PROVE  table'.columns[i] =
                 [name |-> names[i], meta |-> A!Metadata(CollOf(1, i)'), chunks |-> table'.columns[i].chunks]
    BY <1>2, <1>5
  <2>3. DOMAIN table'.columns = DOMAIN names
    BY <1>2
  <2>. QED BY <1>1, <1>4, <1>7, <1>8, <2>2, <2>3 DEF TableInv
<1>. QED BY <1>1, <1>3, <1>9, NoFrameThen DEF ArrowInv

\* Concatenate: one more row, of the same types.
LEMMA ConcatenateA ==
  ASSUME ArrowInv, NEW f \in DOMAIN Frames, A!Concatenate(f)
  PROVE  ArrowInv'
<1>. DEFINE other == A!FrameToTable(Frames[f], selection)
<1>1. /\ table # A!NoTable /\ A!CanConvert(Frames[f], selection)
      /\ \A i \in DOMAIN table.columns : A!ArrowType(other.columns[i]) = A!ArrowType(table.columns[i])
      /\ table' = [columns |-> [i \in DOMAIN table.columns |->
                                  [table.columns[i] EXCEPT !.chunks = @ \o other.columns[i].chunks]],
                   params  |-> table.params \o other.params]
      /\ rows' = Append(rows, f) /\ frame' = A!NoFrame /\ selection' = selection
  BY DEF A!Concatenate
<1>2. TableInv
  BY <1>1 DEF ArrowInv
<1>3. /\ other.columns = [i \in DOMAIN selection |->
                            [name |-> selection[i], meta |-> A!Metadata(Frames[f].collections[selection[i]]),
                             chunks |-> << <<Frames[f].collections[selection[i]].value>> >>]]
      /\ other.params = << <<A!ConvertParameters(Frames[f].parameters)>> >>
  BY DEF A!FrameToTable
<1>. HIDE DEF other
<1>4. PICK n \in Nat : Len(rows) = n /\ n >= 1 /\ DOMAIN rows = 1 .. n /\ rows \in Seq(DOMAIN Frames)
  BY <1>2 DEF TableInv
<1>5. /\ rows' \in Seq(DOMAIN Frames) /\ rows' # <<>> /\ DOMAIN rows' = 1 .. n + 1 /\ rows'[n + 1] = f
      /\ \A k \in 1 .. n : rows'[k] = rows[k]
  <2>1. /\ Append(rows, f) \in Seq(DOMAIN Frames) /\ Append(rows, f) # <<>> /\ DOMAIN Append(rows, f) = 1 .. n + 1
        /\ Append(rows, f)[n + 1] = f /\ \A k \in 1 .. n : Append(rows, f)[k] = rows[k]
    BY <1>4
  <2>. QED BY <1>1, <2>1
<1>6. \A i : /\ CollOf(n + 1, i)' = Frames[f].collections[selection[i]]
             /\ \A k \in 1 .. n : CollOf(k, i)' = CollOf(k, i)
  BY <1>1, <1>5 DEF CollOf
<1>7. ASSUME NEW i \in DOMAIN selection
      PROVE  /\ table'.columns[i] =
                  [name |-> selection[i], meta |-> A!Metadata(CollOf(1, i)'), chunks |-> table'.columns[i].chunks]
             /\ table'.columns[i].chunks = table.columns[i].chunks \o << <<CollOf(n + 1, i)'.value>> >>
  <2>1. PICK chunks, meta, more :
          chunks = table.columns[i].chunks /\ meta = A!Metadata(CollOf(1, i)) /\ more = other.columns[i].chunks
    OBVIOUS
  <2>2. table.columns[i] = [name |-> selection[i], meta |-> meta, chunks |-> chunks]
    BY <1>2, <2>1 DEF TableInv
  <2>3. table'.columns[i] = [table.columns[i] EXCEPT !.chunks = chunks \o more]
    BY <1>1, <1>2, <2>1 DEF TableInv
  <2>4. more = << <<CollOf(n + 1, i)'.value>> >>
    BY <1>3, <1>6, <2>1
  <2>5. CollOf(1, i)' = CollOf(1, i)
    BY <1>4, <1>6
  <2>6. table'.columns[i] = [name |-> selection[i], meta |-> meta, chunks |-> chunks \o more]
    <3>1. PICK both : both = chunks \o more
      OBVIOUS
    <3>2. table'.columns[i] = [table.columns[i] EXCEPT !.chunks = both]
      BY ONLY <2>3, <3>1
    <3>3. table'.columns[i] = [name |-> selection[i], meta |-> meta, chunks |-> both]
      BY ONLY <2>2, <3>2
    <3>. QED BY ONLY <3>1, <3>3
  <2>7. table'.columns[i].chunks = chunks \o more
    BY <2>6
  <2>8. meta = A!Metadata(CollOf(1, i)')
    BY <2>1, <2>5
  <2>. QED BY <2>1, <2>4, <2>6, <2>7, <2>8
<1>8. ASSUME NEW i \in DOMAIN selection
      PROVE  Holds(table'.columns[i].chunks, ColumnValues(i)', AllValues)
  <2>1. PICK x : x = CollOf(n + 1, i)'.value
    OBVIOUS
  <2>2. x \in AllValues
    BY <1>1, <1>6, <2>1, FrameParts DEF A!CanConvert
  <2>3. Holds(table.columns[i].chunks, ColumnValues(i), AllValues)
    BY <1>2 DEF TableInv
  <2>4. ColumnValues(i)' = Append(ColumnValues(i), x)
    <3>1. PICK vs : vs = ColumnValues(i)
      OBVIOUS
    <3>2. vs \in Seq(AllValues) /\ DOMAIN vs = 1 .. n /\ \A k \in 1 .. n : vs[k] = CollOf(k, i).value
      BY <1>4, <2>3, <3>1 DEF Holds, ColumnValues
    <3>3. Len(vs) = n
      BY <1>4, <3>2
    <3>4. Append(vs, x) = [k \in 1 .. n + 1 |-> IF k = n + 1 THEN x ELSE vs[k]]
      BY <2>2, <3>2, <3>3, AppendIs
    <3>5. ColumnValues(i)' = [k \in 1 .. n + 1 |-> CollOf(k, i)'.value]
      BY <1>5 DEF ColumnValues
    <3>6. \A k \in 1 .. n + 1 : CollOf(k, i)'.value = IF k = n + 1 THEN x ELSE vs[k]
      <4>1. \A k \in 1 .. n + 1 : k = n + 1 \/ k \in 1 .. n
        OBVIOUS
      <4>. QED BY <1>6, <2>1, <3>2, <4>1
    <3>. QED BY <3>1, <3>4, <3>5, <3>6
  <2>5. table'.columns[i].chunks = table.columns[i].chunks \o << <<x>> >>
    BY <1>7, <2>1
  <2>. QED BY <2>2, <2>3, <2>4, <2>5, ChunkAdded
<1>9. Holds(table'.params, RowParameters', AllParameters)
  <2>1. PICK x : x = A!ConvertParameters(Frames[f].parameters)
    OBVIOUS
  <2>2. x \in AllParameters
    BY <2>1, FrameParts
  <2>3. Holds(table.params, RowParameters, AllParameters)
    BY <1>2 DEF TableInv
  <2>4. RowParameters' = Append(RowParameters, x)
    <3>1. PICK vs : vs = RowParameters
      OBVIOUS
    <3>2. vs \in Seq(AllParameters) /\ DOMAIN vs = 1 .. n /\ \A k \in 1 .. n : vs[k] = A!ConvertParameters(Frames[rows[k]].parameters)
      BY <1>4, <2>3, <3>1 DEF Holds, RowParameters
    <3>3. Len(vs) = n
      BY <1>4, <3>2
    <3>4. Append(vs, x) = [k \in 1 .. n + 1 |-> IF k = n + 1 THEN x ELSE vs[k]]
      BY <2>2, <3>2, <3>3, AppendIs
    <3>5. RowParameters' = [k \in 1 .. n + 1 |-> A!ConvertParameters(Frames[rows'[k]].parameters)]
      BY <1>5 DEF RowParameters
    <3>6. \A k \in 1 .. n + 1 : A!ConvertParameters(Frames[rows'[k]].parameters) = IF k = n + 1 THEN x ELSE vs[k]
      <4>1. \A k \in 1 .. n + 1 : k = n + 1 \/ k \in 1 .. n
        OBVIOUS
      <4>. QED BY <1>5, <2>1, <3>2, <4>1
    <3>. QED BY <3>1, <3>4, <3>5, <3>6
  <2>5. table'.params = table.params \o << <<x>> >>
    BY <1>1, <1>3, <2>1
  <2>. QED BY <2>2, <2>3, <2>4, <2>5, ChunkAdded
<1>10. ASSUME NEW i \in DOMAIN selection
       PROVE  CollOf(n + 1, i)'.subset = CollOf(1, i).subset
  <2>1. A!ArrowType(other.columns[i]) = A!ArrowType(table.columns[i]) /\ table.columns[i].meta = A!Metadata(CollOf(1, i))
    <3>1. i \in DOMAIN table.columns
      BY <1>2 DEF TableInv
    <3>2. table.columns[i] =
            [name |-> selection[i], meta |-> A!Metadata(CollOf(1, i)), chunks |-> table.columns[i].chunks]
      BY <1>2 DEF TableInv
    <3>3. table.columns[i].meta = A!Metadata(CollOf(1, i))
      BY <3>2
    <3>. QED BY <1>1, <3>1, <3>3
  <2>2. other.columns[i].meta = A!Metadata(CollOf(n + 1, i)')
    BY <1>3, <1>6
  <2>3. A!ArrowType(other.columns[i]).type = A!ArrowType(table.columns[i]).type
    BY <2>1
  <2>4. (IF CollOf(n + 1, i)'.subset THEN {} ELSE {CollOf(n + 1, i)'.type})
          = (IF CollOf(1, i).subset THEN {} ELSE {CollOf(1, i).type})
    BY <2>1, <2>2, <2>3 DEF A!ArrowType, A!Metadata
  <2>5. CollOf(n + 1, i)'.subset \in BOOLEAN /\ CollOf(1, i).subset \in BOOLEAN
    <3>1. rows[1] \in DOMAIN Frames /\ A!CanConvert(Frames[rows[1]], selection)
      BY <1>2, <1>4 DEF TableInv
    <3>2. selection[i] \in DOMAIN Frames[f].collections /\ selection[i] \in DOMAIN Frames[rows[1]].collections
      BY <1>1, <3>1 DEF A!CanConvert
    <3>3. \A e \in DOMAIN Frames : \A m \in DOMAIN Frames[e].collections :
             Frames[e].collections[m].subset \in BOOLEAN
      BY FramesAssumption
    <3>4. CollOf(1, i).subset \in BOOLEAN
      BY <3>1, <3>2, <3>3 DEF CollOf
    <3>5. Frames[f].collections[selection[i]].subset \in BOOLEAN
      BY <3>2, <3>3
    <3>. QED BY <1>6, <3>4, <3>5
  <2>6. \A a, b \in BOOLEAN : \A x, y : (IF a THEN {} ELSE {x}) = (IF b THEN {} ELSE {y}) => a = b
    OBVIOUS
  <2>. QED BY <2>4, <2>5, <2>6
<1>11. ASSUME NEW k \in DOMAIN rows'
       PROVE  /\ A!CanConvert(Frames[rows'[k]], selection)
              /\ \A i \in DOMAIN selection : CollOf(k, i)'.subset = CollOf(1, i)'.subset
  <2>1. \A i : CollOf(1, i)' = CollOf(1, i)
    BY <1>4, <1>6
  <2>2. CASE k = n + 1
    BY <1>1, <1>5, <1>10, <2>1, <2>2
  <2>3. CASE k # n + 1
    <3>1. k \in 1 .. n
      BY <1>4, <1>5, <2>3
    <3>. QED BY <1>2, <1>4, <1>5, <1>6, <2>1, <3>1 DEF TableInv
  <2>. QED BY <2>2, <2>3
<1>12. DOMAIN table'.columns = DOMAIN selection
  BY <1>1, <1>2 DEF TableInv
<1>13. TableInv'
  BY <1>1, <1>2, <1>5, <1>7, <1>8, <1>9, <1>11, <1>12 DEF TableInv
<1>14. table' # A!NoTable
  <2>1. table'.params # <<>>
    <3>1. Holds(table'.params, RowParameters', AllParameters)
      BY <1>9
    <3>2. PICK g : FlatAt(table'.params, RowParameters', g)
      BY <3>1 DEF Holds
    <3>3. Len(RowParameters') = n + 1
      <4>1. DOMAIN RowParameters' = 1 .. n + 1 /\ RowParameters' \in Seq(AllParameters)
        BY <1>5, <3>1 DEF RowParameters, Holds
      <4>. QED BY <4>1
    <3>4. CASE table'.params = <<>>
      <4>1. Len(table'.params) = 0
        BY <3>4
      <4>2. n + 1 = 0
        BY <3>2, <3>3, <4>1 DEF FlatAt
      <4>. QED BY <4>2
    <3>. QED BY <3>4
  <2>. QED BY <2>1 DEF A!NoTable
<1>. QED BY <1>1, <1>13, <1>14, NoFrameThen DEF ArrowInv

\* CombineChunks: each column is one chunk, with the same rows.
LEMMA CombineA ==
  ASSUME ArrowInv, A!CombineChunks
  PROVE  ArrowInv'
<1>1. /\ table # A!NoTable
      /\ table' = [columns |-> [i \in DOMAIN table.columns |->
                                  [table.columns[i] EXCEPT !.chunks = A!Flat(table.columns[i].chunks)]],
                   params  |-> A!Flat(table.params)]
      /\ frame' = A!NoFrame /\ UNCHANGED <<rows, selection>>
  BY DEF A!CombineChunks
<1>2. TableInv
  BY <1>1 DEF ArrowInv
<1>3. \A i : ColumnValues(i) # <<>> /\ RowParameters # <<>>
  <2>1. DOMAIN rows # {} /\ DOMAIN <<>> = {}
    BY <1>2 DEF TableInv
  <2>2. \A i : DOMAIN ColumnValues(i) = DOMAIN rows /\ DOMAIN RowParameters = DOMAIN rows
    BY DEF ColumnValues, RowParameters
  <2>. QED BY <2>1, <2>2
<1>4. ASSUME NEW i \in DOMAIN selection
      PROVE  /\ table'.columns[i] =
                  [name |-> selection[i], meta |-> A!Metadata(CollOf(1, i)), chunks |-> table'.columns[i].chunks]
             /\ Holds(table'.columns[i].chunks, ColumnValues(i), AllValues)
  <2>1. PICK col : col = table.columns[i]
    OBVIOUS
  <2>2. /\ col = [name |-> selection[i], meta |-> A!Metadata(CollOf(1, i)), chunks |-> col.chunks]
        /\ Holds(col.chunks, ColumnValues(i), AllValues)
    BY <1>2, <2>1 DEF TableInv
  <2>3. table'.columns[i] = [col EXCEPT !.chunks = A!Flat(col.chunks)]
    BY <1>1, <1>2, <2>1 DEF TableInv
  <2>4. A!Flat(col.chunks) = <<ColumnValues(i)>>
    BY <1>3, <2>2, FlatIs
  <2>5. Holds(<<ColumnValues(i)>>, ColumnValues(i), AllValues)
    BY <2>2, OneChunk DEF Holds
  <2>. QED BY <2>2, <2>3, <2>4, <2>5
<1>5. table'.params = <<RowParameters>> /\ Holds(<<RowParameters>>, RowParameters, AllParameters)
  <2>1. Holds(table.params, RowParameters, AllParameters)
    BY <1>2 DEF TableInv
  <2>2. A!Flat(table.params) = <<RowParameters>>
    BY <1>3, <2>1, FlatIs
  <2>3. Holds(<<RowParameters>>, RowParameters, AllParameters)
    BY <2>1, OneChunk DEF Holds
  <2>. QED BY <1>1, <2>2, <2>3
<1>6. \A k, i : CollOf(k, i)' = CollOf(k, i)
  BY <1>1 DEF CollOf
<1>7. (\A i : ColumnValues(i)' = ColumnValues(i)) /\ RowParameters' = RowParameters
  BY <1>1 DEF ColumnValues, RowParameters, CollOf
<1>8. DOMAIN table'.columns = DOMAIN selection
  BY <1>1, <1>2 DEF TableInv
<1>9. TableInv'
  <2>1. /\ rows' \in Seq(DOMAIN Frames) /\ rows' # <<>> /\ selection' \in Selections
        /\ DOMAIN table'.columns = DOMAIN selection'
    BY <1>1, <1>2, <1>8 DEF TableInv
  <2>2. \A k \in DOMAIN rows' : /\ A!CanConvert(Frames[rows'[k]], selection')
                               /\ \A i \in DOMAIN selection' : CollOf(k, i)'.subset = CollOf(1, i)'.subset
    BY <1>1, <1>2, <1>6 DEF TableInv
  <2>3. \A i \in DOMAIN selection' :
          /\ table'.columns[i] =
               [name |-> selection'[i], meta |-> A!Metadata(CollOf(1, i)'), chunks |-> table'.columns[i].chunks]
          /\ Holds(table'.columns[i].chunks, ColumnValues(i)', AllValues)
    BY <1>1, <1>4, <1>6, <1>7
  <2>4. Holds(table'.params, RowParameters', AllParameters)
    BY <1>5, <1>7
  <2>. QED BY <2>1, <2>2, <2>3, <2>4 DEF TableInv
<1>10. table' # A!NoTable
  <2>1. <<RowParameters>> # <<>>
    OBVIOUS
  <2>. QED BY <1>5, <2>1 DEF A!NoTable
<1>. QED BY <1>1, <1>9, <1>10, NoFrameThen DEF ArrowInv

\* TableToFrame throws for what the columns do not have, and gives the row.
LEMMA TableToFrameA ==
  ASSUME ArrowInv, NEW row \in -1 .. MaxRows, A!TableToFrame(row)
  PROVE  ArrowInv'
<1>1. table # A!NoTable /\ UNCHANGED <<table, rows, selection>> /\ TableInv
  BY DEF A!TableToFrame, ArrowInv
<1>. DEFINE columns == A!Range(table.columns)
            readable == {c \in columns : c.meta.type \in Converters}
<1>2. frame' = IF ~ A!Constructs(row) THEN A!Thrown(row)
               ELSE [status |-> "frame", row |-> row,
                     collections |-> {A!CollectionAt(c, row) : c \in readable},
                     broken |-> {c.name : c \in columns \ readable},
                     parameters |-> {A!ParametersAt(row)}]
  BY DEF A!TableToFrame
<1>3. PICK n \in Nat : Len(rows) = n /\ n >= 1 /\ DOMAIN rows = 1 .. n /\ rows \in Seq(DOMAIN Frames)
  BY <1>1 DEF TableInv
<1>4. RowParameters \in Seq(AllParameters) /\ Len(RowParameters) = n /\ RowParameters # <<>>
  <2>1. RowParameters \in Seq(AllParameters)
    BY <1>1 DEF TableInv, Holds
  <2>2. DOMAIN RowParameters = 1 .. n
    BY <1>3 DEF RowParameters
  <2>3. Len(RowParameters) = n
    BY <2>1, <2>2
  <2>. QED BY <1>3, <2>1, <2>3
<1>5. A!NumRows = n
  <2>1. Holds(table.params, RowParameters, AllParameters)
    BY <1>1 DEF TableInv
  <2>2. A!Flat(table.params) = <<RowParameters>>
    BY <1>4, <2>1, FlatIs
  <2>. QED BY <1>4, <2>2 DEF A!NumRows
<1>6. ASSUME NEW i \in DOMAIN selection
      PROVE  /\ table.columns[i].name = selection[i]
             /\ table.columns[i].meta = A!Metadata(CollOf(1, i))
             /\ i \in DOMAIN table.columns
  <2>1. PICK col : col = table.columns[i]
    OBVIOUS
  <2>2. col = [name |-> selection[i], meta |-> A!Metadata(CollOf(1, i)), chunks |-> col.chunks]
    BY <1>1, <2>1 DEF TableInv
  <2>3. col.name = selection[i] /\ col.meta = A!Metadata(CollOf(1, i))
    BY <2>2
  <2>. QED BY <1>1, <2>1, <2>3 DEF TableInv
<1>7. DOMAIN table.columns = DOMAIN selection
  BY <1>1 DEF TableInv
<1>8. \A k \in 1 .. n : /\ rows[k] \in DOMAIN Frames /\ rows[k] \in A!Range(rows)
                        /\ A!CanConvert(Frames[rows[k]], selection)
                        /\ \A i \in DOMAIN selection : selection[i] \in DOMAIN Frames[rows[k]].collections
  BY <1>1, <1>3 DEF TableInv, A!CanConvert, A!Range
<1>9. 1 \in 1 .. n
  BY <1>3
<1>10. CASE ~ A!Constructs(row)
  <2>1. frame'.status = "throw" /\ frame'.row = row
    BY <1>2, <1>10 DEF A!Thrown, A!NoFrame
  <2>2. \/ row \notin 0 .. n - 1
        \/ \E i, j \in DOMAIN selection : i # j /\
             (CollOf(1, i).id = CollOf(1, j).id \/ selection[i] = selection[j])
    <3>. SUFFICES ASSUME 0 <= row, row < n
                  PROVE  \E i, j \in DOMAIN selection : i # j /\
                           (CollOf(1, i).id = CollOf(1, j).id \/ selection[i] = selection[j])
      BY <1>3
    <3>1. PICK i \in DOMAIN selection, j \in DOMAIN selection :
            i # j /\ (table.columns[i].meta.id = table.columns[j].meta.id \/ table.columns[i].name = table.columns[j].name)
      BY <1>5, <1>7, <1>10 DEF A!Constructs
    <3>2. A!Metadata(CollOf(1, i)).id = CollOf(1, i).id /\ A!Metadata(CollOf(1, j)).id = CollOf(1, j).id
      BY DEF A!Metadata
    <3>. QED BY <1>6, <3>1, <3>2
  <2>3. ASSUME NEW i \in DOMAIN selection, NEW j \in DOMAIN selection, i # j,
               CollOf(1, i).id = CollOf(1, j).id \/ selection[i] = selection[j]
        PROVE  \/ ~ A!IsInjective(selection)
               \/ \E f \in A!Range(rows), p, q \in A!Range(selection) :
                    p # q /\ Frames[f].collections[p].id = Frames[f].collections[q].id
    <3>1. CASE selection[i] = selection[j]
      BY <2>3, <3>1 DEF A!IsInjective
    <3>2. CASE selection[i] # selection[j]
      <4>1. selection[i] \in A!Range(selection) /\ selection[j] \in A!Range(selection) /\ rows[1] \in A!Range(rows)
        BY <1>8, <1>9 DEF A!Range
      <4>. QED BY <2>3, <3>2, <4>1 DEF CollOf
    <3>. QED BY <3>1, <3>2
  <2>4. \/ row \notin 0 .. n - 1
        \/ ~ A!IsInjective(selection)
        \/ \E f \in A!Range(rows), p, q \in A!Range(selection) :
             p # q /\ Frames[f].collections[p].id = Frames[f].collections[q].id
    BY <2>2, <2>3
  <2>5. RowIsFrame'
    BY <1>1, <1>3, <2>1, <2>4 DEF RowIsFrame, A!RowIsFrame
  <2>. QED BY <1>1, <2>5 DEF ArrowInv, TableInv, ColumnValues, RowParameters, CollOf
<1>11. CASE A!Constructs(row)
  <2>1. PICK k \in 1 .. n : k = row + 1 /\ row \in Nat /\ row < n
    BY <1>5, <1>11 DEF A!Constructs
  <2>2. PICK f \in DOMAIN Frames : f = rows[k]
    BY <1>8
  <2>3. \A i, j \in DOMAIN selection : selection[i] = selection[j] => i = j
    BY <1>6, <1>7, <1>11 DEF A!Constructs
  <2>4. ASSUME NEW i \in DOMAIN selection
        PROVE  /\ A!AtRow(table.columns[i].chunks, row) = CollOf(k, i).value
               /\ CollOf(k, i) = Frames[f].collections[selection[i]]
               /\ CollOf(k, i).type = CollOf(1, i).type /\ CollOf(k, i).id = CollOf(1, i).id
               /\ CollOf(k, i).version = CollOf(1, i).version /\ CollOf(k, i).subset = CollOf(1, i).subset
    <3>1. Holds(table.columns[i].chunks, ColumnValues(i), AllValues)
      BY <1>1 DEF TableInv
    <3>2. Len(ColumnValues(i)) = n /\ ColumnValues(i)[k] = CollOf(k, i).value
      <4>1. DOMAIN ColumnValues(i) = 1 .. n /\ ColumnValues(i) \in Seq(AllValues)
        BY <1>3, <3>1 DEF Holds, ColumnValues
      <4>2. Len(ColumnValues(i)) = n
        BY <4>1
      <4>. QED BY <1>3, <4>2 DEF ColumnValues
    <3>3. A!AtRow(table.columns[i].chunks, row) = CollOf(k, i).value
      BY <2>1, <3>1, <3>2, AtRowIs
    <3>4. CollOf(k, i).subset = CollOf(1, i).subset
      BY <1>1, <1>3 DEF TableInv
    <3>5. /\ selection[i] \in DOMAIN Frames[rows[k]].collections /\ selection[i] \in DOMAIN Frames[rows[1]].collections
          /\ rows[k] \in DOMAIN Frames /\ rows[1] \in DOMAIN Frames
      BY <1>8, <1>9
    <3>6. CollOf(k, i).type = CollOf(1, i).type /\ CollOf(k, i).id = CollOf(1, i).id
          /\ CollOf(k, i).version = CollOf(1, i).version
      <4>1. PICK a \in DOMAIN Frames, b \in DOMAIN Frames : a = rows[k] /\ b = rows[1]
        BY <3>5
      <4>2. PICK s : s = selection[i]
        OBVIOUS
      <4>3. s \in DOMAIN Frames[a].collections /\ s \in DOMAIN Frames[b].collections
        BY <3>5, <4>1, <4>2
      <4>4. PICK c, d : c = Frames[a].collections[s] /\ d = Frames[b].collections[s]
        OBVIOUS
      <4>5. c.type = d.type /\ c.id = d.id /\ c.version = d.version
        BY <4>1, <4>3, <4>4, FramesAgree
      <4>6. CollOf(k, i) = c /\ CollOf(1, i) = d
        BY <4>1, <4>4, <4>2 DEF CollOf
      <4>. QED BY <4>5, <4>6
    <3>. QED BY <2>2, <3>3, <3>4, <3>6 DEF CollOf
  <2>5. ASSUME NEW i \in DOMAIN selection
        PROVE  /\ A!CollectionAt(table.columns[i], row) = A!Converted(f, selection[i])
               /\ table.columns[i].meta.type = Frames[f].collections[selection[i]].type
    <3>1. PICK c : c = table.columns[i]
      OBVIOUS
    <3>2. c.name = selection[i] /\ c.meta = A!Metadata(CollOf(1, i))
      BY <1>6, <3>1
    <3>3. /\ c.meta.type = CollOf(1, i).type /\ c.meta.subset = CollOf(1, i).subset
          /\ c.meta.id = CollOf(1, i).id /\ c.meta.version = CollOf(1, i).version
      BY <3>2 DEF A!Metadata
    <3>. QED BY <2>4, <3>1, <3>2, <3>3 DEF A!CollectionAt, A!Converted
  <2>6. columns = {table.columns[i] : i \in DOMAIN selection}
    BY <1>7 DEF A!Range
  <2>7. A!Range(selection) = {selection[i] : i \in DOMAIN selection}
    BY DEF A!Range
  <2>8. PICK given : given = frame'
    OBVIOUS
  <2>9. /\ given.status = "frame" /\ given.row = row
        /\ given.collections = {A!CollectionAt(c, row) : c \in readable}
        /\ given.broken = {c.name : c \in columns \ readable}
        /\ given.parameters = {A!ParametersAt(row)}
    BY <1>2, <1>11, <2>8
  <2>10. \A i \in DOMAIN selection : table.columns[i] \in readable <=> Frames[f].collections[selection[i]].type \in Converters
    BY <2>5, <2>6
  <2>11. \A p : p \in given.broken <=>
           \E i \in DOMAIN selection : p = selection[i] /\ Frames[f].collections[p].type \notin Converters
    <3>. HIDE DEF columns, readable
    <3>1. \A p : p \in given.broken <=> \E i \in DOMAIN selection : table.columns[i] \notin readable /\ p = table.columns[i].name
      BY <2>6, <2>9
    <3>. QED BY <1>6, <2>10, <3>1
  <2>12. \A x : x \in given.collections <=>
           \E i \in DOMAIN selection : x = A!Converted(f, selection[i]) /\ Frames[f].collections[selection[i]].type \in Converters
    <3>1. \A c : c \in readable <=> \E i \in DOMAIN selection : c = table.columns[i] /\ table.columns[i] \in readable
      BY <2>6
    <3>. HIDE DEF columns, readable
    <3>2. \A x : x \in given.collections <=>
            \E i \in DOMAIN selection : x = A!CollectionAt(table.columns[i], row) /\ table.columns[i] \in readable
      BY <2>9, <3>1
    <3>. QED BY <2>5, <2>10, <3>2
  <2>13. given.collections = {A!Converted(f, p) : p \in A!Range(selection) \ given.broken}
    <3>1. \A x : x \in {A!Converted(f, p) : p \in A!Range(selection) \ given.broken} <=>
            \E i \in DOMAIN selection : x = A!Converted(f, selection[i]) /\ selection[i] \notin given.broken
      BY <2>7
    <3>2. \A i \in DOMAIN selection : selection[i] \notin given.broken <=> Frames[f].collections[selection[i]].type \in Converters
      BY <2>11
    <3>3. \A x : x \in given.collections <=> x \in {A!Converted(f, p) : p \in A!Range(selection) \ given.broken}
      BY <2>12, <3>1, <3>2
    <3>. QED BY <3>3
  <2>14. \A p \in given.broken : Frames[f].collections[p].subset /\ Frames[f].collections[p].type \notin Converters
    BY <1>8, <2>2, <2>11 DEF A!CanConvert
  <2>15. given.parameters = {Frames[f].parameters}
    <3>1. Holds(table.params, RowParameters, AllParameters)
      BY <1>1 DEF TableInv
    <3>2. A!AtRow(table.params, row) = RowParameters[k]
      BY <1>4, <2>1, <3>1, AtRowIs
    <3>3. RowParameters[k] = A!ConvertParameters(Frames[f].parameters)
      BY <1>3, <2>2 DEF RowParameters
    <3>4. A!ParametersAt(row) = [t \in Types |-> A!ExtractMap(A!BuildParamMap(Frames[f].parameters[t]))]
      BY <3>2, <3>3 DEF A!ParametersAt, A!ConvertParameters
    <3>5. \A t \in Types : A!ExtractMap(A!BuildParamMap(Frames[f].parameters[t])) = Frames[f].parameters[t]
      BY FrameParts, MapExtracted
    <3>6. A!ParametersAt(row) = [t \in Types |-> Frames[f].parameters[t]]
      BY <3>4, <3>5
    <3>. QED BY <2>9, <3>6, FrameParts
  <2>. HIDE DEF columns, readable
  <2>16. RowIsFrame'
    <3>1. rows'[given.row + 1] = f /\ selection' = selection /\ given.status # "throw"
      BY <1>1, <2>1, <2>2, <2>9
    <3>. QED BY <2>8, <2>13, <2>14, <2>15, <3>1 DEF RowIsFrame, A!RowIsFrame, A!Converted
  <2>. QED BY <1>1, <2>16 DEF ArrowInv, TableInv, ColumnValues, RowParameters, CollOf
<1>. QED BY <1>10, <1>11

\* Every step of the tables preserves the invariant.
LEMMA ArrowNext ==
  ASSUME ArrowInv, A!Next
  PROVE  ArrowInv'
<1>1. CASE \E f \in DOMAIN Frames : \E names \in Selections : A!Convert(f, names)
  BY <1>1, ConvertA
<1>2. CASE \E f \in DOMAIN Frames : A!Concatenate(f)
  BY <1>2, ConcatenateA
<1>3. CASE A!CombineChunks
  BY <1>3, CombineA
<1>4. CASE \E row \in -1 .. MaxRows : A!TableToFrame(row)
  BY <1>4, TableToFrameA
<1>. QED BY <1>1, <1>2, <1>3, <1>4 DEF A!Next

\* convertTableToFrame gives a row of a table, however many rows are before it and
\* however they are in chunks, as the frame that convertFrameToTable was given, if
\* the frames agree on what a name stands for; it fails only for a row that is not
\* there, for two names with one ID or a name that is twice, and for subset
\* collections of a type that nobody has registered.
THEOREM RowsAreFrames == MemorySpec => []RowIsFrame
<1>1. MemoryInit => ArrowInv
  <2>1. A!Init => frame = A!NoFrame /\ table = A!NoTable
    BY DEF A!Init
  <2>. QED BY <2>1, NoFrameIs DEF MemoryInit, ArrowInv
<1>2. ArrowInv /\ [MemoryNext]_memoryVars => ArrowInv'
  <2> SUFFICES ASSUME ArrowInv, [MemoryNext]_memoryVars
               PROVE  ArrowInv'
    OBVIOUS
  <2>1. CASE A!Next
    BY <2>1, ArrowNext
  <2>2. CASE UNCHANGED arrowVars
    <3>1. UNCHANGED <<table, rows, selection, frame>>
      BY <2>2 DEF arrowVars
    <3>2. TableInv => TableInv'
      BY <3>1 DEF TableInv, ColumnValues, RowParameters, CollOf
    <3>3. RowIsFrame => RowIsFrame'
      BY <3>1 DEF RowIsFrame, A!RowIsFrame
    <3>. QED BY <3>1, <3>2, <3>3 DEF ArrowInv
  <2>. QED BY <2>1, <2>2 DEF MemoryNext, OnHandles, memoryVars
<1>3. ArrowInv => RowIsFrame
  BY DEF ArrowInv
<1>. QED BY <1>1, <1>2, <1>3, PTL DEF MemorySpec
================================================================================
