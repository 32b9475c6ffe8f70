------------------------------ MODULE DataSource ------------------------------
(***************************************************************************)
(* podio::DataSource: an RDataFrame over files, with a reader and a frame  *)
(* for each slot.  The event loop is ROOT's, and external: it asks for     *)
(* ranges of entries until there are none, and its threads work on them at *)
(* the same time, each with a slot of its own.                             *)
(*                                                                         *)
(* One event loop is modelled: Initialize does nothing, so a second one    *)
(* would find no ranges.                                                   *)
(***************************************************************************)
EXTENDS Naturals, SequencesExt, FiniteSets

CONSTANTS
  Columns,      \* the collections that the first event has
  EventsInFiles,\* numbers of events that the files may have
  Limits,       \* numbers of events that may be asked for
  AllEvents,    \* -1
  SlotNumbers   \* levels of parallelism that ROOT may ask for

VARIABLES
  phase,            \* of the life of the source: "new", "input", "slots", "loop", "failed"
  inFiles,          \* the number of events that the reader finds
  nEvents,          \* m_nEvents
  nSlots,           \* m_nSlots
  rangesAll,        \* m_rangesAll
  rangesAvailable,  \* m_rangesAvailable
  activeCollections,\* m_activeCollections
  frames,           \* m_frames: the entry of the frame of each slot
  collections,      \* m_Collections[column][slot]: the entry whose collection it points to
  work,             \* external: the ranges that were handed out, from where they are still to do
  slotWork,         \* external: the range that each slot is working on
  seen              \* how often the event loop saw each entry that it saw

vars == <<phase, inFiles, nEvents, nSlots, rangesAll, rangesAvailable, activeCollections,
          frames, collections, work, slotWork, seen>>

NoEntry == <<>>   \* nullptr, and a frame without data
Idle == [first |-> 0, last |-> 0]

Smaller(a, b) == IF a < b THEN a ELSE b

Init ==
  /\ phase = "new"
  /\ inFiles \in EventsInFiles
  /\ nEvents = 0
  /\ nSlots = 1
  /\ rangesAll = <<>>
  /\ rangesAvailable = <<>>
  /\ activeCollections = <<>>
  /\ frames = <<>>
  /\ collections = <<>>
  /\ work = {}
  /\ slotWork = <<>>
  /\ seen = <<>>

\* DataSource::SetupInput: the first event is read to see its collections, which
\* fails when there is none, before the number of events is looked at.
SetupInput(limit) ==
  /\ phase = "new"
  /\ \/ /\ inFiles = 0 \/ limit = 0
        /\ phase' = "failed"
        /\ UNCHANGED nEvents
     \/ /\ inFiles # 0 /\ limit # 0
        /\ nEvents' = IF limit = AllEvents THEN inFiles ELSE Smaller(limit, inFiles)
        /\ phase' = "input"
  /\ UNCHANGED <<inFiles, nSlots, rangesAll, rangesAvailable, activeCollections, frames, collections,
                 work, slotWork, seen>>

\* Faulty variant: the last range is as long as the others.
RangesEqual(events, slots) ==
  LET eventsPerSlot == events \div slots
  IN  [i \in 1 .. slots |-> [first |-> eventsPerSlot * (i - 1), last |-> eventsPerSlot * i]]

\* The ranges that SetNSlots makes: equal ones, and what is left over goes to
\* the last.
Ranges(events, slots) ==
  LET eventsPerSlot == events \div slots
  IN  [i \in 1 .. slots |->
         [first |-> eventsPerSlot * (i - 1), last |-> IF i = slots THEN events ELSE eventsPerSlot * i]]

\* DataSource::SetNSlots.
SetNSlots(n) ==
  /\ phase = "input"
  /\ nSlots' = n
  /\ \/ /\ n > nEvents
        /\ phase' = "failed"
        /\ UNCHANGED <<rangesAll, rangesAvailable, frames, collections, slotWork>>
     \/ /\ n <= nEvents
        /\ phase' = "slots"
        /\ rangesAll' = rangesAll \o Ranges(nEvents, n)
        /\ rangesAvailable' = rangesAll'
        /\ frames' = [s \in 1 .. n |-> NoEntry]
        /\ collections' = [c \in Columns |-> [s \in 1 .. n |-> NoEntry]]
        /\ slotWork' = [s \in 1 .. n |-> Idle]
  /\ UNCHANGED <<inFiles, nEvents, activeCollections, work, seen>>

\* DataSource::GetColumnReadersImpl for a column that there is; ROOT asks for
\* the columns that it needs, before the event loop.
GetColumnReaders(c) ==
  /\ phase = "slots"
  /\ ~Contains(activeCollections, c)
  /\ activeCollections' = Append(activeCollections, c)
  /\ UNCHANGED <<phase, inFiles, nEvents, nSlots, rangesAll, rangesAvailable, frames, collections,
                 work, slotWork, seen>>

\* What GetEntryRanges takes from the front of the available ranges: one for
\* each slot.
ToProcess == SubSeq(rangesAvailable, 1, Smaller(nSlots, Len(rangesAvailable)))
LeftAvailable ==
  IF Len(rangesAvailable) > nSlots THEN SubSeq(rangesAvailable, nSlots + 1, Len(rangesAvailable)) ELSE <<>>

\* DataSource::GetEntryRanges, called when the ranges before are done.
GetEntryRanges ==
  /\ phase \in {"slots", "loop"}
  /\ work = {}
  /\ \A s \in DOMAIN slotWork : slotWork[s] = Idle
  /\ phase' = "loop"
  /\ work' = ToSet(ToProcess)
  /\ rangesAvailable' = LeftAvailable
  /\ UNCHANGED <<inFiles, nEvents, nSlots, rangesAll, activeCollections, frames, collections, slotWork, seen>>

\* External, InitSlot: a thread takes a slot and a range.
InitSlot(s, r) ==
  /\ slotWork[s] = Idle
  /\ work' = work \ {r}
  /\ slotWork' = [slotWork EXCEPT ![s] = r]
  /\ UNCHANGED <<phase, inFiles, nEvents, nSlots, rangesAll, rangesAvailable, activeCollections, frames,
                 collections, seen>>

\* Faulty variant: the first slot is filled whichever is asked for.
FilledFirst(s, entry) ==
  [c \in Columns |-> IF Contains(activeCollections, c) THEN [collections[c] EXCEPT ![1] = <<entry>>]
                     ELSE collections[c]]

\* The columns of a slot that a new frame of it fills.
Filled(s, entry) ==
  [c \in Columns |-> IF Contains(activeCollections, c) THEN [collections[c] EXCEPT ![s] = <<entry>>]
                     ELSE collections[c]]

\* The event loop sees an entry.
Seen(entry) ==
  [e \in DOMAIN seen \cup {entry} |->
     IF e \notin DOMAIN seen THEN 1 ELSE IF e = entry THEN seen[e] + 1 ELSE seen[e]]

\* DataSource::SetEntry: the frame of the slot is replaced and its columns
\* point to the collections of the new one; then the event is processed.
SetEntry(s) ==
  LET entry == slotWork[s].first
  IN  /\ slotWork[s].first < slotWork[s].last
      /\ frames' = [frames EXCEPT ![s] = <<entry>>]
      /\ collections' = Filled(s, entry)
      /\ seen' = Seen(entry)
      /\ slotWork' = [slotWork EXCEPT ![s] = IF entry + 1 = @.last THEN Idle ELSE [@ EXCEPT !.first = entry + 1]]
      /\ UNCHANGED <<phase, inFiles, nEvents, nSlots, rangesAll, rangesAvailable, activeCollections, work>>

Next ==
  \/ \E limit \in Limits : SetupInput(limit)
  \/ \E n \in SlotNumbers : SetNSlots(n)
  \/ \E c \in Columns : GetColumnReaders(c)
  \/ GetEntryRanges
  \/ \E s \in DOMAIN slotWork :
       \/ \E r \in work : InitSlot(s, r)
       \/ SetEntry(s)

Spec == Init /\ [][Next]_vars
-----------------------------------------------------------------------------
\* Every event up to the limit is seen once, whatever the number of slots and
\* of events: no range overlaps another one, none is handed out twice, and
\* together they end at the limit (DataSource.cc:76, :108).
EachEventOnce ==
  /\ DOMAIN seen \subseteq 0 .. nEvents - 1
  /\ \A e \in DOMAIN seen : seen[e] = 1
  /\ phase = "loop" /\ work = {} /\ rangesAvailable = <<>> /\ (\A s \in DOMAIN slotWork : slotWork[s] = Idle)
       => DOMAIN seen = 0 .. nEvents - 1

\* The columns of a slot that are read point into the frame that the slot holds
\* now and never into one that was replaced, while other slots go on
\* (DataSource.cc:121, :125).
ColumnsFollowFrame ==
  \A c \in ToSet(activeCollections), s \in DOMAIN frames : collections[c][s] = frames[s]
=============================================================================
