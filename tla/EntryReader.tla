------------------------------ MODULE EntryReader ------------------------------
(***************************************************************************)
(* What the readers promise (Reader.h): the entries of a category come in  *)
(* the order in which they were written, file after file; readNextEntry    *)
(* goes on after the entry that was read last, readEntry goes anywhere,    *)
(* and past the end there is nothing.  An entry comes whole: everything in *)
(* a frame was stored as that entry.                                       *)
(***************************************************************************)
EXTENDS Naturals, Sequences

CONSTANTS
  Categories,
  Names,     \* of collections
  Requests,  \* sets of names asked for
  Numbers    \* entry numbers asked for, more than the files have among them

VARIABLES
  stored,    \* per category, the entries: where it is, and the collections it has
  position,  \* per category, the entry that readNextEntry would read, from 0
  result     \* of the last call

vars == <<stored, position, result>>

NoResult == [status |-> "none", sources |-> {}, colls |-> {}]
Null == [NoResult EXCEPT !.status = "null"]
Thrown == [NoResult EXCEPT !.status = "throw"]

\* The collections that a request selects; nothing requested is everything.
Selected(request, names) == IF request = {} THEN names ELSE names \cap request

FrameOf(entry, request) ==
  [status |-> "frame", sources |-> {entry.at}, colls |-> Selected(request, entry.colls)]

Init ==
  /\ stored = [c \in Categories |-> <<>>]
  /\ position = [c \in Categories |-> 0]
  /\ result = NoResult

\* The files are opened once.
Open ==
  /\ result = NoResult
  /\ stored = [c \in Categories |-> <<>>]
  /\ stored' \in [Categories -> Seq([at : Seq(Nat), colls : SUBSET Names])]
  /\ UNCHANGED <<position, result>>

\* An entry, nothing past the end, or a refusal of a collection nobody has.
\* Where the reader stands after the latter two is not promised.
Read(c, n) ==
  \/ /\ position' = [position EXCEPT ![c] = n + 1]
     /\ n < Len(stored[c])
     /\ LET entry == stored[c][n + 1]
        IN  \E request \in Requests : result' = FrameOf(entry, request)
  \/ /\ position' \in {position, [position EXCEPT ![c] = n]}
     /\ result' = Null
     /\ n >= Len(stored[c])
  \/ /\ position' \in {position, [position EXCEPT ![c] = n], [position EXCEPT ![c] = n + 1]}
     /\ result' = Thrown
     /\ n < Len(stored[c])
     /\ \E request \in Requests : request # {}

ReadNextEntry == \E c \in Categories : Read(c, position[c])
ReadEntry == \E c \in Categories, n \in Numbers : Read(c, n)

Next ==
  \/ Open
  \/ /\ ReadNextEntry \/ ReadEntry
     /\ UNCHANGED stored

Spec == Init /\ [][Next]_vars
=============================================================================
