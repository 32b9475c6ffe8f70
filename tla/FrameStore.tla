------------------------------ MODULE FrameStore ------------------------------
(***************************************************************************)
(* What a Frame promises about the collection of one name, whatever the    *)
(* threads that use it do: collections are stored once and for all, the    *)
(* raw data of a name is turned into a collection at most once, and the    *)
(* only thing that can come before it is a collection put by a user.       *)
(***************************************************************************)
CONSTANTS
  Names,      \* the collection names
  RawNames    \* the names the raw data has buffers for

VARIABLES
  extracting, \* TRUE when the raw data gives the buffers of a name only once
  state       \* where the collection of a name is

States ==
  {"absent",    \* no collection, no raw data
   "raw",       \* not yet unpacked
   "loading",   \* taken out of the raw data, not stored yet
   "unpacked",  \* stored, from the raw data
   "put"}       \* stored, put by a user

storeVars == <<extracting, state>>

StoreInit ==
  /\ extracting \in BOOLEAN
  /\ state = [n \in Names |-> IF n \in RawNames THEN "raw" ELSE "absent"]

\* The buffers are taken out of the raw data.
Take(n) ==
  /\ extracting
  /\ state[n] = "raw"
  /\ state' = [state EXCEPT ![n] = "loading"]
  /\ UNCHANGED extracting

\* The collection made of the buffers is stored; raw data that keeps its
\* buffers has no intermediate state.
Store(n) ==
  /\ state[n] = IF extracting THEN "loading" ELSE "raw"
  /\ state' = [state EXCEPT ![n] = "unpacked"]
  /\ UNCHANGED extracting

\* A user stores a collection under a name that has none stored.
PutNew(n) ==
  /\ state[n] \in {"absent", "raw", "loading"}
  /\ state' = [state EXCEPT ![n] = "put"]
  /\ UNCHANGED extracting

StoreNext == \E n \in Names : Take(n) \/ Store(n) \/ PutNew(n)

StoreSpec == StoreInit /\ [][StoreNext]_storeVars
=============================================================================
