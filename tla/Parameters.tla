------------------------------- MODULE Parameters -------------------------------
(***************************************************************************)
(* podio::GenericParameters: one map from keys to vectors of values for    *)
(* each type, and one mutex for each map.  A copy takes all of the         *)
(* mutexes; a writer asks for keys and values one type after the other;    *)
(* getKeys looks at the size of the map before it takes the mutex.         *)
(*                                                                         *)
(* One thread sets parameters, others read, or write them to a file.  What *)
(* follows a lock_guard in an operation is one step.  print and the block  *)
(* of an sio file take no mutex, so that nothing may be set meanwhile; the *)
(* block is one step, and print is left out, as is the assignment, which   *)
(* is of objects that no thread shares.                                    *)
(***************************************************************************)
EXTENDS Naturals, SequencesExt

CONSTANTS
  Types,      \* of values
  Keys,
  Threads,    \* those that read
  FromFile,   \* type -> keys and values that the file had
  MaxSets     \* bound: parameters that are set

VARIABLES
  maps,       \* type -> key -> vector of values
  sets,       \* how many were set; each is set to its number
  heldBy,     \* type -> the thread that copies under its mutex
  pc,
  done,       \* thread -> the types that it has dealt with
  copy,       \* thread -> the maps that it has copied
  hint,       \* thread -> the size that it has reserved
  keysGiven,  \* thread -> the result of getKeys
  keysBefore, \* thread -> the keys that were set before it asked
  storage,    \* thread -> type -> CategoryInfo::intParams and the like: keys and values
  before,     \* thread -> the maps, and how many were set, before it wrote
  loaded      \* thread -> the maps that a reader has of what it wrote

fileVars == <<storage, before, loaded>>
parVars == <<maps, sets, heldBy, pc, done, copy, hint, keysGiven, keysBefore, fileVars>>

Nobody == "nobody"
NoMap == [k \in {} |-> <<>>]
NoMaps == [t \in Types |-> NoMap]
NoStorage == [keys |-> <<>>, values |-> <<>>]

\* std::map::emplace, which keeps what is there, and insert_or_assign.
EmplaceValue(map, key, value) == [k \in DOMAIN map \cup {key} |-> IF k \in DOMAIN map THEN map[k] ELSE value]
InsertOrAssign(map, key, value) == [k \in DOMAIN map \cup {key} |-> IF k = key THEN value ELSE map[k]]

\* GenericParameters::loadFrom.
LoadFrom(map, pairs) ==
  LET after[n \in 0 .. Len(pairs)] ==
        IF n = 0 THEN map ELSE EmplaceValue(after[n - 1], pairs[n].key, pairs[n].value)
  IN  after[Len(pairs)]

\* GenericParameters::get of a vector, a std::optional: at most one.
Get(t, key) == {maps[t][k] : k \in {key} \cap DOMAIN maps[t]}

Init ==
  /\ maps = [t \in Types |-> LoadFrom(NoMap, FromFile[t])]
  /\ sets = 0
  /\ heldBy = [t \in Types |-> Nobody]
  /\ pc = [r \in Threads |-> "idle"]
  /\ done = [r \in Threads |-> {}]
  /\ copy = [r \in Threads |-> [t \in Types |-> NoMap]]
  /\ hint = [r \in Threads |-> 0]
  /\ keysGiven = [r \in Threads |-> <<>>]
  /\ keysBefore = [r \in Threads |-> {}]
  /\ storage = [r \in Threads |-> [t \in Types |-> NoStorage]]
  /\ before = [r \in Threads |-> [maps |-> NoMaps, sets |-> 0]]
  /\ loaded = [r \in Threads |-> NoMaps]

Free(t) == heldBy[t] = Nobody
Goto(r, label) == pc' = [pc EXCEPT ![r] = label]

\* GenericParameters::set, with a value or a vector.
Set(t, key) ==
  /\ sets < MaxSets
  /\ Free(t)
  /\ sets' = sets + 1
  /\ \E value \in {<<>>, <<sets'>>} : maps' = [maps EXCEPT ![t] = InsertOrAssign(@, key, value)]
  /\ UNCHANGED <<heldBy, pc, done, copy, hint, keysGiven, keysBefore, fileVars>>
-----------------------------------------------------------------------------
\* Faulty variant: no other map can change while the first is copied, but later.
LockFirst(r) == [t \in Types |-> IF t = CHOOSE u \in Types : TRUE THEN r ELSE heldBy[t]]

\* std::scoped_lock, which gets all of the mutexes or waits with none.
LockAll(r) == [t \in Types |-> r]

\* The copy constructor: it takes the mutexes, copies map after map ...
StartCopy(r) ==
  /\ pc[r] = "idle"
  /\ \A t \in Types : Free(t)
  /\ heldBy' = LockAll(r)
  /\ done' = [done EXCEPT ![r] = {}]
  /\ Goto(r, "copy")
  /\ UNCHANGED <<maps, sets, copy, hint, keysGiven, keysBefore, fileVars>>

CopyMap(r, t) ==
  /\ pc[r] = "copy"
  /\ t \notin done[r]
  /\ copy' = [copy EXCEPT ![r][t] = maps[t]]
  /\ done' = [done EXCEPT ![r] = @ \cup {t}]
  /\ UNCHANGED <<maps, sets, heldBy, pc, hint, keysGiven, keysBefore, fileVars>>

\* ... and lets them go.
EndCopy(r) ==
  /\ pc[r] = "copy"
  /\ done[r] = Types
  /\ heldBy' = [t \in Types |-> IF heldBy[t] = r THEN Nobody ELSE heldBy[t]]
  /\ copy' = [copy EXCEPT ![r] = [t \in Types |-> NoMap]]
  /\ done' = [done EXCEPT ![r] = {}]
  /\ Goto(r, "idle")
  /\ UNCHANGED <<maps, sets, hint, keysGiven, keysBefore, fileVars>>
-----------------------------------------------------------------------------
\* getKeys: the size is read without the mutex.  The read is in a race with a set
\* of the other thread, so that it gives anything up to the capacity.
StartGetKeys(r, t) ==
  /\ pc[r] = "idle"
  /\ \E n \in 0 .. MaxSets : hint' = [hint EXCEPT ![r] = n]
  /\ done' = [done EXCEPT ![r] = {t}]
  /\ keysBefore' = [keysBefore EXCEPT ![r] = DOMAIN maps[t]]
  /\ Goto(r, "keys")
  /\ UNCHANGED <<maps, sets, heldBy, copy, keysGiven, fileVars>>

\* Faulty variant: no keys if there is no space for them.
KeysReserved(map, n) == IF n > 0 THEN SetToSeq(DOMAIN map) ELSE <<>>

\* The keys that are appended to a vector with space for n of them.
KeysOf(map, n) == SetToSeq(DOMAIN map)

\* getKeys, the rest, and getKeysAndValues, which is like it but for the size.
GetKeys(r, t) ==
  /\ pc[r] = "keys" /\ done[r] = {t}
  /\ Free(t)
  /\ keysGiven' = [keysGiven EXCEPT ![r] = KeysOf(maps[t], hint[r])]
  /\ Goto(r, "given")
  /\ UNCHANGED <<maps, sets, heldBy, done, copy, hint, keysBefore, fileVars>>

\* The thread is done with the keys.
DropKeys(r) ==
  /\ pc[r] = "given"
  /\ keysGiven' = [keysGiven EXCEPT ![r] = <<>>]
  /\ keysBefore' = [keysBefore EXCEPT ![r] = {}]
  /\ hint' = [hint EXCEPT ![r] = 0]
  /\ done' = [done EXCEPT ![r] = {}]
  /\ Goto(r, "idle")
  /\ UNCHANGED <<maps, sets, heldBy, copy, fileVars>>

-----------------------------------------------------------------------------
\* What a type has in an entry of a TTree or an RNTuple: a vector of keys and one
\* of values, as getKeysAndValues gives them; readParams puts them together.
KeysAndValues(map) ==
  LET keys == SetToSeq(DOMAIN map) IN [keys |-> keys, values |-> [i \in DOMAIN keys |-> map[keys[i]]]]
Pairs(stored) == [i \in DOMAIN stored.keys |-> [key |-> stored.keys[i], value |-> stored.values[i]]]
ReadEventMetaData(entry) == [t \in Types |-> LoadFrom(NoMap, Pairs(entry[t]))]

\* The readParams and readEntryParameters of a TTree: before version 0.99.99 (4 in
\* module RootReader) there was one branch with the whole object.
ReadEntryParameters(version, entry) == IF version < 4 THEN entry ELSE ReadEventMetaData(entry)

\* writeMapLike and readMapLike on an sio device, a sequence here: the number of
\* elements, and keys and values in turn.
WriteMapLike(map) ==
  LET keys == SetToSeq(DOMAIN map)
  IN  <<Len(keys)>> \o [i \in 1 .. 2 * Len(keys) |->
                          IF i % 2 = 1 THEN keys[(i + 1) \div 2] ELSE map[keys[i \div 2]]]
ReadMapLike(device) ==
  LoadFrom(NoMap, [i \in 1 .. device[1] |-> [key |-> device[2 * i], value |-> device[2 * i + 1]]])
AfterMap(device) == SubSeq(device, 2 * device[1] + 2, Len(device))

\* writeGenericParameters and readGenericParameters: map after map in one order;
\* before version 0.2 of the block there were no doubles.
WriteGenericParameters(params, version) ==
  LET device(t) == WriteMapLike(IF t \in Types THEN params[t] ELSE NoMap)
  IN  device("int") \o (device("float") \o
        (device("string") \o (IF version >= 2 THEN device("double") ELSE <<>>)))
ReadGenericParameters(block, version) ==
  LET floats == AfterMap(block)
      strings == AfterMap(floats)
  IN  [t \in Types |-> CASE t = "int" -> ReadMapLike(block)
                         [] t = "float" -> ReadMapLike(floats)
                         [] t = "string" -> ReadMapLike(strings)
                         [] t = "double" -> IF version >= 2 THEN ReadMapLike(AfterMap(strings)) ELSE NoMap]

\* fillParams of the ROOT writers: one type after the other, each under its mutex.
StartFill(r) ==
  /\ pc[r] = "idle"
  /\ before' = [before EXCEPT ![r] = [maps |-> maps, sets |-> sets]]
  /\ Goto(r, "fill")
  /\ UNCHANGED <<maps, sets, heldBy, done, copy, hint, keysGiven, keysBefore, storage, loaded>>

FillParams(r, t) ==
  /\ pc[r] = "fill"
  /\ t \notin done[r]
  /\ Free(t)
  /\ storage' = [storage EXCEPT ![r][t] = KeysAndValues(maps[t])]
  /\ done' = [done EXCEPT ![r] = @ \cup {t}]
  /\ UNCHANGED <<maps, sets, heldBy, pc, copy, hint, keysGiven, keysBefore, before, loaded>>

\* What was written is read, by a TTree or an RNTuple reader.
ReadEntry(r) ==
  /\ pc[r] = "fill"
  /\ done[r] = Types
  /\ \/ loaded' = [loaded EXCEPT ![r] = ReadEntryParameters(4, storage[r])]
     \/ loaded' = [loaded EXCEPT ![r] = ReadEventMetaData(storage[r])]
  /\ storage' = [storage EXCEPT ![r] = [t \in Types |-> NoStorage]]
  /\ done' = [done EXCEPT ![r] = {}]
  /\ Goto(r, "loaded")
  /\ UNCHANGED <<maps, sets, heldBy, copy, hint, keysGiven, keysBefore, before>>

\* The block of an sio file, written and read, and a TTree entry of an old file;
\* an old program had no doubles to write into a block.
ReadBlock(r) ==
  /\ pc[r] = "idle"
  /\ before' = [before EXCEPT ![r] = [maps |-> maps, sets |-> sets]]
  /\ \/ \E version \in {1, 2} :
          /\ version < 2 /\ "double" \in Types => maps["double"] = NoMap
          /\ loaded' = [loaded EXCEPT ![r] =
                          ReadGenericParameters(WriteGenericParameters(maps, version), version)]
     \/ loaded' = [loaded EXCEPT ![r] = ReadEntryParameters(3, maps)]
  /\ Goto(r, "loaded")
  /\ UNCHANGED <<maps, sets, heldBy, done, copy, hint, keysGiven, keysBefore, storage>>

DropLoaded(r) ==
  /\ pc[r] = "loaded"
  /\ before' = [before EXCEPT ![r] = [maps |-> NoMaps, sets |-> 0]]
  /\ loaded' = [loaded EXCEPT ![r] = NoMaps]
  /\ Goto(r, "idle")
  /\ UNCHANGED <<maps, sets, heldBy, done, copy, hint, keysGiven, keysBefore, storage>>

Next ==
  \/ \E t \in Types, k \in Keys : Set(t, k)
  \/ \E r \in Threads :
       \/ StartCopy(r) \/ EndCopy(r) \/ DropKeys(r)
       \/ StartFill(r) \/ ReadEntry(r) \/ ReadBlock(r) \/ DropLoaded(r)
       \/ \E t \in Types : CopyMap(r, t) \/ StartGetKeys(r, t) \/ GetKeys(r, t) \/ FillParams(r, t)

Spec == Init /\ [][Next]_parVars
-----------------------------------------------------------------------------
\* A copy has "all internal maps ... at the same state" (GenericParameters.cc:8):
\* once the last map is copied the copy is what the parameters are, so that it
\* never has a parameter that was set later than one that it lacks.
CopyIsSnapshot ==
  \A r \in Threads : pc[r] = "copy" /\ done[r] = Types => copy[r] = maps

\* However stale the size is that space was reserved for, every key that was set
\* before getKeys was called is among those that it gives, none twice, and each of
\* them has a value to get from then on.  What a reader has of parameters that
\* were written has all keys that were set before, and the same values if none
\* was set meanwhile (GenericParameters.h:245).
KeysComplete ==
  \A r \in Threads :
    /\ pc[r] = "given" =>
         /\ keysBefore[r] \subseteq Range(keysGiven[r])
         /\ IsInjective(keysGiven[r])
         /\ \A t \in done[r], key \in Range(keysGiven[r]) : Get(t, key) # {}
    /\ pc[r] = "loaded" =>
         /\ \A t \in Types : DOMAIN before[r].maps[t] \subseteq DOMAIN loaded[r][t]
         /\ sets = before[r].sets => loaded[r] = maps
=============================================================================
