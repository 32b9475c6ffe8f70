----------------------------- MODULE SharedHandles -----------------------------
(***************************************************************************)
(* podio::utils::MaybeSharedPtr: a handle points to an object and, when it *)
(* comes from the handle that made the object, to a control block with the *)
(* number of such handles and whether they own the object.  A collection   *)
(* that the object is added to takes it over; handles that come from the   *)
(* collection have no control block and no part in the clean-up.           *)
(*                                                                         *)
(* Every handle is a variable of one thread; a thread reads a handle of    *)
(* another only while that one leaves it alone.  Objects are added to a    *)
(* collection by one thread at a time: push_back tests and sets their id   *)
(* without protection, and data are shared only once they are complete     *)
(* (doc/advanced_topics.md:79).                                            *)
(***************************************************************************)
EXTENDS Integers, FiniteSets

CONSTANTS
  Handles,   \* the variables that hold a handle
  Objects    \* the objects that are made, each once

ASSUME HandlesAssumption == IsFiniteSet(Handles) /\ "null" \notin Objects

VARIABLES
  handle,    \* what a handle points to: m_ptr, and m_ctrlBlock or not
  dying,     \* the temporary that is destructed in the thread of a handle
  pc,        \* where its destructor is
  made,      \* the objects that are there or have been
  count,     \* ControlBlock::count, 0 once it is gone
  owned,     \* ControlBlock::owned
  entries,   \* the objects that the collection manages
  deleted,   \* how many times an object was deleted
  freed      \* how many times its control block was deleted

vars == <<handle, dying, pc, made, count, owned, entries, deleted, freed>>

Nothing == [ptr |-> "null", ctrl |-> FALSE]     \* moved from or destructed
Ptr(o) == [ptr |-> o, ctrl |-> FALSE]           \* MaybeSharedPtr(T*)
OwnedPtr(o) == [ptr |-> o, ctrl |-> TRUE]       \* MaybeSharedPtr(T*, MarkOwned)

Contents == {Nothing} \cup {Ptr(o) : o \in Objects} \cup {OwnedPtr(o) : o \in Objects}

TypeOK ==
  /\ handle \in [Handles -> Contents]
  /\ dying \in [Handles -> Contents]
  /\ pc \in [Handles -> {"idle", "push", "destruct", "last", "free"}]
  /\ made \subseteq Objects
  /\ count \in [Objects -> 0 .. 2 * Cardinality(Handles)]
  /\ owned \in [Objects -> BOOLEAN]
  /\ entries \subseteq made
  /\ deleted \in [Objects -> Nat]
  /\ freed \in [Objects -> Nat]

\* The references that are counted: the handles with the control block, and the
\* temporaries that have not been taken off yet.
Counted(o) ==
  Cardinality({h \in Handles : handle[h] = OwnedPtr(o)}) +
  Cardinality({h \in Handles : dying[h] = OwnedPtr(o) /\ pc[h] \in {"push", "destruct"}})
-----------------------------------------------------------------------------
Init ==
  /\ handle = [h \in Handles |-> Nothing]
  /\ dying = [h \in Handles |-> Nothing]
  /\ pc = [h \in Handles |-> "idle"]
  /\ made = {}
  /\ count = [o \in Objects |-> 0]
  /\ owned = [o \in Objects |-> FALSE]
  /\ entries = {}
  /\ deleted = [o \in Objects |-> 0]
  /\ freed = [o \in Objects |-> 0]

\* The control block of a content has one reference more, if there is a block.
Increment(c) ==
  count' = IF c.ctrl THEN [count EXCEPT ![c.ptr] = @ + 1] ELSE count

\* The handle gets content c, and what it had goes on to be destructed: operator=
\* swaps it into its parameter.
SwapIn(h, c) ==
  /\ pc[h] = "idle"
  /\ handle' = [handle EXCEPT ![h] = c]
  /\ dying' = [dying EXCEPT ![h] = handle[h]]
  /\ pc' = [pc EXCEPT ![h] = "destruct"]

\* An object is made with a handle that owns it, or a collection makes it (which
\* gives a handle without a control block).
Make(h, o) ==
  /\ o \notin made
  /\ made' = made \cup {o}
  /\ \/ /\ SwapIn(h, OwnedPtr(o))
        /\ count' = [count EXCEPT ![o] = 1]
        /\ owned' = [owned EXCEPT ![o] = TRUE]
        /\ UNCHANGED entries
     \/ /\ SwapIn(h, Ptr(o))
        /\ entries' = entries \cup {o}
        /\ UNCHANGED <<count, owned>>
  /\ UNCHANGED <<deleted, freed>>

\* Faulty variant: the new content replaces the old one, which is forgotten.
CopyOver(h, from) ==
  /\ h # from /\ pc[h] = "idle"
  /\ handle[from] # Nothing
  /\ handle' = [handle EXCEPT ![h] = handle[from]]
  /\ Increment(handle[from])
  /\ UNCHANGED <<dying, pc, made, owned, entries, deleted, freed>>

\* The copy constructor, into a new handle or into the parameter of operator=.
Copy(h, from) ==
  /\ h # from
  /\ handle[from] # Nothing
  /\ SwapIn(h, handle[from])
  /\ Increment(handle[from])
  /\ UNCHANGED <<made, owned, entries, deleted, freed>>

\* The move constructor, likewise: the other handle has nothing afterwards.
Move(h, from) ==
  /\ h # from
  /\ pc[h] = "idle" /\ pc[from] = "idle"
  /\ handle[from] # Nothing
  /\ handle' = [handle EXCEPT ![h] = handle[from], ![from] = Nothing]
  /\ dying' = [dying EXCEPT ![h] = handle[h]]
  /\ pc' = [pc EXCEPT ![h] = "destruct"]
  /\ UNCHANGED <<made, count, owned, entries, deleted, freed>>

\* A handle to an element of the collection.
FromCollection(h, o) ==
  /\ o \in entries
  /\ SwapIn(h, Ptr(o))
  /\ UNCHANGED <<made, count, owned, entries, deleted, freed>>

\* The handle goes out of scope.
Drop(h) ==
  /\ handle[h] # Nothing
  /\ SwapIn(h, Nothing)
  /\ UNCHANGED <<made, count, owned, entries, deleted, freed>>
-----------------------------------------------------------------------------
\* push_back gets a copy of the handle, of an object that is not tracked (with one
\* that is, it throws, and the copy is a Copy that is dropped) ...
StartPush(h) ==
  /\ pc[h] = "idle"
  /\ handle[h].ctrl
  /\ owned[handle[h].ptr]
  /\ \A g \in Handles : pc[g] = "push" => dying[g] # handle[h]
  /\ dying' = [dying EXCEPT ![h] = handle[h]]
  /\ pc' = [pc EXCEPT ![h] = "push"]
  /\ Increment(handle[h])
  /\ UNCHANGED <<handle, made, owned, entries, deleted, freed>>

\* Faulty variant: the entry is the pointer, as get() gives it.
Get(c) == UNCHANGED owned

\* MaybeSharedPtr::release: only the control block is kept track of.
Release(c) == owned' = [owned EXCEPT ![c.ptr] = FALSE]

\* ... and keeps the pointer that it releases.
Push(h) ==
  /\ pc[h] = "push"
  /\ Release(dying[h])
  /\ entries' = entries \cup {dying[h].ptr}
  /\ pc' = [pc EXCEPT ![h] = "destruct"]
  /\ UNCHANGED <<handle, dying, made, count, deleted, freed>>

\* The collection is cleared, or goes: it deletes what it manages.
ClearCollection ==
  /\ entries # {}
  /\ deleted' = [o \in Objects |-> IF o \in entries THEN deleted[o] + 1 ELSE deleted[o]]
  /\ entries' = {}
  /\ UNCHANGED <<handle, dying, pc, made, count, owned, freed>>
-----------------------------------------------------------------------------
\* Faulty variant: somebody else counts as nobody.
IsLastButOne(c, n) == n <= 1

\* Whether the reference that was taken off was the last.
IsLast(c, n) == n = 0

\* ~MaybeSharedPtr: the reference is taken off, in one atomic step.
Decrement(h) ==
  LET c == dying[h] IN
  /\ pc[h] = "destruct"
  /\ IF c.ctrl
     THEN /\ count' = [count EXCEPT ![c.ptr] = @ - 1]
          /\ pc' = [pc EXCEPT ![h] = IF IsLast(c, count[c.ptr] - 1) THEN "last" ELSE "idle"]
     ELSE /\ pc' = [pc EXCEPT ![h] = "idle"]
          /\ UNCHANGED count
  /\ dying' = IF pc'[h] = "idle" THEN [dying EXCEPT ![h] = Nothing] ELSE dying
  /\ UNCHANGED <<handle, made, owned, entries, deleted, freed>>

\* The last one deletes the object if nobody else manages it ...
DeleteObject(h) ==
  /\ pc[h] = "last"
  /\ deleted' = [deleted EXCEPT ![dying[h].ptr] = IF owned[dying[h].ptr] THEN @ + 1 ELSE @]
  /\ pc' = [pc EXCEPT ![h] = "free"]
  /\ UNCHANGED <<handle, dying, made, count, owned, entries, freed>>

\* ... and the control block in any case.
DeleteBlock(h) ==
  /\ pc[h] = "free"
  /\ freed' = [freed EXCEPT ![dying[h].ptr] = @ + 1]
  /\ dying' = [dying EXCEPT ![h] = Nothing]
  /\ pc' = [pc EXCEPT ![h] = "idle"]
  /\ UNCHANGED <<handle, made, count, owned, entries, deleted>>

Destruct(h) == Decrement(h) \/ DeleteObject(h) \/ DeleteBlock(h)

Next ==
  \/ \E h \in Handles :
       \/ \E o \in Objects : Make(h, o) \/ FromCollection(h, o)
       \/ \E from \in Handles : Copy(h, from) \/ Move(h, from)
       \/ Drop(h) \/ StartPush(h) \/ Push(h) \/ Destruct(h)
  \/ ClearCollection

\* A thread that is in a destructor or in push_back goes on.
Fairness == \A h \in Handles : WF_vars(Push(h)) /\ WF_vars(Destruct(h))

Spec == Init /\ [][Next]_vars /\ Fairness
-----------------------------------------------------------------------------
\* The control block is there as long as one handle has it, whatever threads drop
\* theirs, and it counts them: no handle decrements memory that is gone (the
\* remaining handles have to be "able to gracefully destruct",
\* MaybeSharedPtr.h:23).
BlockInUse ==
  \A o \in Objects :
    /\ count[o] = Counted(o)
    /\ freed[o] <= 1
    /\ Counted(o) > 0 => freed[o] = 0

\* "Other Objects with the same Obj* instance should not delete the managed Obj*"
\* (MaybeSharedPtr.h:21): an object in the collection is there even if all of its
\* handles are dropped while it is added, an object that the handles own is there
\* while one of them is, and no object is deleted twice.
ManagedObjectAlive ==
  \A o \in Objects :
    /\ deleted[o] <= 1
    /\ o \in entries => deleted[o] = 0
    /\ owned[o] /\ Counted(o) > 0 => deleted[o] = 0

Unreferenced(o) == o \in made \ entries /\ \A h \in Handles : handle[h] # OwnedPtr(o)
Reclaimed(o) == deleted[o] = 1 /\ count[o] = 0 /\ \A h \in Handles : dying[h] # OwnedPtr(o)

\* An object that neither the collection nor an owning handle has is deleted,
\* and so is its control block: nothing leaks in a race for the last reference.
AllReclaimed == \A o \in Objects : Unreferenced(o) ~> Reclaimed(o)
=============================================================================
