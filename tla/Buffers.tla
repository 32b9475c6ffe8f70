-------------------------------- MODULE Buffers --------------------------------
(***************************************************************************)
(* Who owns the data between a file and a collection.                      *)
(*                                                                         *)
(* A podio::CollectionReadBuffers has raw pointers and the functions that  *)
(* make a collection of them or delete them.  It is moved from the reader  *)
(* to the frame data, to the frame and through schema evolution; each of   *)
(* the variables on the way is destructed some time, also when an          *)
(* exception is thrown in between.                                         *)
(*                                                                         *)
(* A podio::UserDataCollection copies nothing for writing: the buffers of  *)
(* a writer have the address of its vector, or of the member _vecPtr that  *)
(* points to it.  A writer gets the buffers of all collections of a frame  *)
(* first, and what is there then is written when all of them are bound.    *)
(*                                                                         *)
(* The data are one vector: references and vector members are deleted      *)
(* along with it.  Contents are the number of the entry that was read and  *)
(* the number of values.                                                   *)
(***************************************************************************)
EXTENDS Naturals, FiniteSets, Sequences

CONSTANTS
  Slots,       \* the variables of type CollectionReadBuffers
  Places,      \* the variables of a collection type
  MaxVectors,  \* bound: vectors that are made
  MaxValues    \* bound: values in a user data collection

VARIABLES
  kinds,       \* of each vector on the heap: "user" or "links"
  frees,       \* how many times it was deleted
  slots,       \* the buffers; data is 0 for the nullptr
  places,      \* the collections
  bound,       \* of the collections that a writer has the buffers of: what they are bound to
  filled       \* what it wrote of each of them, and what the collection had then

bufVars == <<kinds, frees, slots, places, bound, filled>>

Vectors == DOMAIN kinds

\* A variable that is not there, buffers that were moved from, and a collection.
NoBuffers == [there |-> FALSE, data |-> 0, functions |-> FALSE]
MovedFrom == [there |-> TRUE, data |-> 0, functions |-> FALSE]
NoCollection == [kind |-> "none", data |-> 0, size |-> 0, vecPtr |-> "null"]
Nothing == [p \in {} |-> p]

Init ==
  /\ kinds = <<>>
  /\ frees = <<>>
  /\ slots = [b \in Slots |-> NoBuffers]
  /\ places = [p \in Places |-> NoCollection]
  /\ bound = Nothing
  /\ filled = Nothing

\* delete of a pointer that may be null.
Delete(v) == IF v = 0 THEN frees ELSE [frees EXCEPT ![v] = @ + 1]
-----------------------------------------------------------------------------
\* CollectionBufferFactory::createBuffers for user data or links, and the constructor.
CreateBuffers(b, kind) ==
  /\ ~ slots[b].there
  /\ Len(kinds) < MaxVectors
  /\ kinds' = Append(kinds, kind)
  /\ frees' = Append(frees, 0)
  /\ slots' = [slots EXCEPT ![b] = [there |-> TRUE, data |-> Len(kinds'), functions |-> TRUE]]
  /\ UNCHANGED <<places, bound, filled>>

\* The move constructor.
MoveConstruct(b, from) ==
  /\ ~ slots[b].there /\ slots[from].there
  /\ slots' = [slots EXCEPT ![b] = slots[from], ![from] = MovedFrom]
  /\ UNCHANGED <<kinds, frees, places, bound, filled>>

\* The data that deleteBuffers deletes, if the function is there.
OwnData(b) == IF slots[b].functions THEN slots[b].data ELSE 0

\* The move assignment: the own buffers are deleted first; nothing is done for
\* an assignment to itself.
MoveAssign(b, from) ==
  /\ slots[b].there /\ slots[from].there
  /\ IF b = from THEN UNCHANGED <<frees, slots>>
     ELSE /\ frees' = Delete(OwnData(b))
          /\ slots' = [slots EXCEPT ![b] = slots[from], ![from] = MovedFrom]
  /\ UNCHANGED <<kinds, places, bound, filled>>

\* The destructor.
Destroy(b) ==
  /\ slots[b].there
  /\ frees' = Delete(OwnData(b))
  /\ slots' = [slots EXCEPT ![b] = NoBuffers]
  /\ UNCHANGED <<kinds, places, bound, filled>>

\* createCollection for links: the collection adopts the vector.
AdoptLinks(b, p) ==
  /\ kinds[slots[b].data] = "links"
  /\ places' = [places EXCEPT ![p] = [NoCollection EXCEPT !.kind = "links", !.data = slots[b].data]]
  /\ UNCHANGED frees

\* createCollection for user data: the vector is moved from and deleted.
MoveUserData(b, p) ==
  /\ kinds[slots[b].data] = "user"
  /\ places' = [places EXCEPT ![p] = [NoCollection EXCEPT !.kind = "user", !.size = 1]]
  /\ frees' = Delete(slots[b].data)

\* Faulty variant: the pointer is kept.
Kept(b) == slots[b].data

\* buffers.data after createCollection.
Consumed(b) == 0

\* The buffers stay where they are, with their functions, until they are destructed.
CreateCollection(b, p) ==
  /\ slots[b].functions /\ slots[b].data # 0
  /\ places[p].kind = "none"
  /\ AdoptLinks(b, p) \/ MoveUserData(b, p)
  /\ slots' = [slots EXCEPT ![b].data = Consumed(b)]
  /\ UNCHANGED <<kinds, bound, filled>>

\* The frame has a collection that is written, and nobody can change it.
Written(p) == p \in DOMAIN bound

\* The collection goes out of scope, with the vector of links that it adopted.
DestroyCollection(p) ==
  /\ places[p].kind # "none" /\ ~ Written(p)
  /\ frees' = Delete(places[p].data)
  /\ places' = [places EXCEPT ![p] = NoCollection]
  /\ UNCHANGED <<kinds, slots, bound, filled>>
-----------------------------------------------------------------------------
\* UserDataCollection(), and from with some values.
NewUserData(p, n) ==
  /\ places[p].kind = "none"
  /\ places' = [places EXCEPT ![p] = [NoCollection EXCEPT !.kind = "user", !.size = n]]
  /\ UNCHANGED <<kinds, frees, slots, bound, filled>>

\* push_back and create (one value more), resize, clear, and the vector itself.
ChangeUserData(p, n) ==
  /\ places[p].kind = "user" /\ ~ Written(p)
  /\ places' = [places EXCEPT ![p].size = n]
  /\ UNCHANGED <<kinds, frees, slots, bound, filled>>

\* The move constructor, as Frame::put uses it: the vector moves, and _vecPtr is
\* copied like any pointer.  The other collection is still there.
MoveCollection(p, from) ==
  /\ places[p].kind = "none" /\ places[from].kind # "none" /\ ~ Written(from)
  /\ places' = [places EXCEPT ![p] = places[from], ![from] = [places[from] EXCEPT !.data = 0, !.size = 0]]
  /\ UNCHANGED <<kinds, frees, slots, bound, filled>>

\* Faulty variant: the pointer is set only once.
VecPtrOnce(p) == IF places[p].vecPtr = "null" THEN p ELSE places[p].vecPtr

\* UserDataCollection::getBuffers: "set the pointer to the correct internal vector".
VecPtr(p) == p

GetBuffers(p) ==
  /\ places[p].kind = "user"
  /\ places' = [places EXCEPT ![p].vecPtr = VecPtr(p)]
  /\ UNCHANGED <<kinds, frees, slots>>

\* What a writer binds: the member for a branch of a TTree, and the vector that it
\* points to for an RNTuple or a block.
Bind(p) ==
  /\ ~ Written(p) /\ GetBuffers(p)
  /\ \E address \in {"vecPtr", VecPtr(p)} :
       bound' = [q \in DOMAIN bound \cup {p} |-> IF q = p THEN address ELSE bound[q]]
  /\ filled' = Nothing

\* Somebody else gets the buffers: another writer, or a conversion.
AskBuffers(p) == GetBuffers(p) /\ UNCHANGED <<bound, filled>>

\* Where the values are read, and how many there are: any number, if there is no
\* collection.
Source(p) == IF bound[p] = "vecPtr" THEN places[p].vecPtr ELSE bound[p]
SizeAt(q, any) == IF q \in Places /\ places[q].kind = "user" THEN places[q].size ELSE any

\* What was bound is written.
Fill ==
  /\ DOMAIN bound # {}
  /\ \E any \in 0 .. MaxValues :
       filled' = [p \in DOMAIN bound |-> [size |-> SizeAt(Source(p), any), current |-> places[p].size]]
  /\ bound' = Nothing
  /\ UNCHANGED <<kinds, frees, slots, places>>

Next ==
  \/ \E b \in Slots :
       \/ \E kind \in {"user", "links"} : CreateBuffers(b, kind)
       \/ \E from \in Slots : MoveConstruct(b, from) \/ MoveAssign(b, from)
       \/ Destroy(b)
       \/ \E p \in Places : CreateCollection(b, p)
  \/ \E p \in Places :
       \/ \E n \in 0 .. MaxValues : NewUserData(p, n) \/ ChangeUserData(p, n)
       \/ \E from \in Places : MoveCollection(p, from)
       \/ AskBuffers(p) \/ Bind(p) \/ DestroyCollection(p)
  \/ Fill

Spec == Init /\ [][Next]_bufVars
-----------------------------------------------------------------------------
Owners(v) ==
  Cardinality({b \in Slots : slots[b].data = v}) + Cardinality({p \in Places : places[p].data = v})

\* At any moment, wherever an exception or a frame that nobody unpacks stops the
\* way of the buffers, every vector has one owner or was deleted, once: there is
\* no leak, no pointer to what is gone and no second delete ("we own the
\* buffers", CollectionBuffers.h:64).
BuffersOwnedOnce ==
  \A v \in Vectors : frees[v] + Owners(v) = 1

\* What is written of a user data collection is what it has when it is written:
\* its buffers lead to its own vector still, also if it was moved to where it is
\* since somebody got its buffers for the first time, and whatever was done to the
\* collection that it was moved from in between.
WrittenIsCurrent == \A p \in DOMAIN filled : filled[p].size = filled[p].current
=============================================================================
