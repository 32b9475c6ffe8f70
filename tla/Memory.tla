--------------------------------- MODULE Memory ---------------------------------
(***************************************************************************)
(* What a process keeps in memory between files and frames: handles to     *)
(* objects, link collections, read buffers and user data, parameters, and  *)
(* Arrow tables.  They share nothing, so that each is looked at on its     *)
(* own: a behaviour is about one of them, and leaves the rest as it was.   *)
(***************************************************************************)
EXTENDS SharedHandles, Integers, Sequences

CONSTANTS
  Colls, MaybeSubsets, ObjectIDs, Values, Providers, MaxLinks,
  Slots, Places, MaxVectors, MaxValues,
  Types, Keys, Threads, FromFile, MaxSets,
  Frames, Converters, Selections, MaxRows

VARIABLES
  focus,   \* what the behaviour is about
  mode, objs, colls, asPrepared, file, resolved, rewritten, navigator,
  kinds, frees, slots, places, bound, filled,
  maps, sets, heldBy, at, done, copy, hint, keysGiven, keysBefore,
  storage, before, loaded,
  table, rows, selection, frame

L == INSTANCE LinkCollection
B == INSTANCE Buffers
P == INSTANCE Parameters WITH pc <- at
A == INSTANCE ArrowTable WITH ParamTypes <- Types

linkVars == <<mode, objs, colls, asPrepared, file, resolved, rewritten, navigator>>
bufVars == <<kinds, frees, slots, places, bound, filled>>
parVars == <<maps, sets, heldBy, at, done, copy, hint, keysGiven, keysBefore, storage, before, loaded>>
arrowVars == <<table, rows, selection, frame>>
memoryVars == <<focus, vars, linkVars, bufVars, parVars, arrowVars>>

\* There is a value for every link that is made; an object that has an ID has one
\* of its own, and no provider has a collection of those without.
ASSUME LinksAssumption ==
  /\ IsFiniteSet(Colls) /\ MaxLinks \in Nat
  /\ \A n \in 1 .. MaxLinks :
       Values[n].from \in DOMAIN ObjectIDs \cup {L!None} /\ Values[n].to \in DOMAIN ObjectIDs \cup {L!None}
  /\ L!None \notin DOMAIN ObjectIDs
  /\ \A x \in DOMAIN ObjectIDs :
       /\ ObjectIDs[x] \in [index : Int, coll : Int]
       /\ ObjectIDs[x].index # L!Invalid.index
       /\ \A y \in DOMAIN ObjectIDs : ObjectIDs[x] = ObjectIDs[y] => x = y \/ ObjectIDs[x] = L!Untracked
  /\ \A available \in Providers : L!Untracked.coll \notin available

\* No thread is called what a mutex has that nobody holds.
ASSUME ThreadsAssumption == P!Nobody \notin Threads

\* The types that GenericParameters supports; a file has keys and values in turn.
ASSUME ParametersAssumption ==
  /\ Types \subseteq {"int", "float", "string", "double"}
  /\ \A t \in Types : Len(FromFile[t]) \in Nat /\ DOMAIN FromFile[t] = 1 .. Len(FromFile[t])

\* All frames agree on what a name stands for.  A selection is a sequence.
ASSUME FramesAssumption ==
  /\ \A f \in DOMAIN Frames :
       /\ Frames[f].parameters = [t \in Types |-> Frames[f].parameters[t]]
       /\ \A t \in Types :
            LET map == Frames[f].parameters[t] IN IsFiniteSet(DOMAIN map) /\ map = [k \in DOMAIN map |-> map[k]]
       /\ \A n \in DOMAIN Frames[f].collections :
            /\ Frames[f].collections[n].subset \in BOOLEAN
            /\ \A e \in DOMAIN Frames : n \in DOMAIN Frames[e].collections =>
                 LET c == Frames[f].collections[n]
                     d == Frames[e].collections[n]
                 IN  c.type = d.type /\ c.id = d.id /\ c.version = d.version
  /\ \A names \in Selections : Len(names) \in Nat /\ DOMAIN names = 1 .. Len(names)

MemoryInit ==
  /\ focus \in {"handles", "links", "buffers", "parameters", "arrow"}
  /\ Init /\ L!Init /\ B!Init /\ P!Init /\ A!Init

OnHandles(action) == focus = "handles" /\ action /\ UNCHANGED <<focus, linkVars, bufVars, parVars, arrowVars>>

MemoryNext ==
  \/ OnHandles(Next)
  \/ focus = "links" /\ L!Next /\ UNCHANGED <<focus, vars, bufVars, parVars, arrowVars>>
  \/ focus = "buffers" /\ B!Next /\ UNCHANGED <<focus, vars, linkVars, parVars, arrowVars>>
  \/ focus = "parameters" /\ P!Next /\ UNCHANGED <<focus, vars, linkVars, bufVars, arrowVars>>
  \/ focus = "arrow" /\ A!Next /\ UNCHANGED <<focus, vars, linkVars, bufVars, parVars>>

MemoryFairness ==
  \A h \in Handles : WF_memoryVars(OnHandles(Push(h))) /\ WF_memoryVars(OnHandles(Destruct(h)))

MemorySpec == MemoryInit /\ [][MemoryNext]_memoryVars /\ MemoryFairness
-----------------------------------------------------------------------------
\* The ID of a link is its position and the ID of its collection, at any time
\* (module LinkCollection).
TrackedByPosition == L!TrackedByPosition

\* A link collection is read as it was prepared first (module LinkCollection).
ReadAsPrepared == L!ReadAsPrepared

\* A link collection that was read is written as it was (module LinkCollection).
RewrittenUnchanged == L!RewrittenUnchanged

\* A navigator gives every link from either side (module LinkCollection).
NavigatorComplete == L!NavigatorComplete

\* Every vector of data has one owner or was deleted once (module Buffers).
BuffersOwnedOnce == B!BuffersOwnedOnce

\* What is written of a user data collection is what it has (module Buffers).
WrittenIsCurrent == B!WrittenIsCurrent

\* A copy of the parameters is what they were at one moment (module Parameters).
CopyIsSnapshot == P!CopyIsSnapshot

\* getKeys gives the keys that were set before, each once (module Parameters).
KeysComplete == P!KeysComplete

\* A row of an Arrow table gives the frame that was converted (module ArrowTable).
RowIsFrame == A!RowIsFrame
=============================================================================
