------------------------------- MODULE DumpTool -------------------------------
(***************************************************************************)
(* podio-dump-tool as a client of podio::Reader: the arguments are parsed, *)
(* one file is opened, and the entries that were asked for are read one    *)
(* after the other, each printed before the next is read.  A runtime_error *)
(* of readFrame gives the exit code 1; any other exception, one that comes *)
(* earlier, and a null pointer end the process.                            *)
(***************************************************************************)
EXTENDS Readers

CONSTANTS
  Arguments,      \* [entries, category, model, stats]: entries are [form, numbers]
  SizeRange,      \* 2^64: what a size_t can hold
  MaxSize,        \* how many entries a vector can have
  ModelsInFiles   \* the names of the datamodels that a ROOT file holds

\* Numbers on the command line are size_t, a range has two of them.
ASSUME ArgumentsAssumption ==
  /\ SizeRange \in Nat \ {0}
  /\ MaxSize \in Nat \ {0}
  /\ \A a \in Arguments :
       /\ a.category \in Categories
       /\ a.entries.form \in {"all", "list", "range", "other"}
       /\ a.entries.numbers \in Seq(0 .. SizeRange - 1)
       /\ a.entries.form = "range" => Len(a.entries.numbers) = 2

VARIABLES
  tool,     \* "none", "parsed", "opened", "reading", or how it ended: "ok", "failed", "aborted"
  args,     \* ParsedArgs
  stats,    \* the names with size statistics, AllNames when there are none at all
  toRead,   \* the entries that are left of the loop
  printed   \* the entries whose frames were printed

toolVars == <<tool, args, stats, toRead, printed>>
readersVars == <<rootVars, sioVars, legacyVars, sourceVars, facadeVars>>

NoArguments == [entries |-> [form |-> "none", numbers |-> <<>>], category |-> Event, model |-> None, stats |-> FALSE]
AllNames == {"any"}

\* parseEventRange: "-1" is the largest size_t for now; the length of a range is
\* computed in a size_t, too.
Tombstone == SizeRange - 1
RangeLength(first, last) == (last + SizeRange - first + 1) % SizeRange
CanParse(entries) == entries.form # "other"
CanHold(entries) ==
  entries.form = "range" => RangeLength(entries.numbers[1], entries.numbers[2]) <= MaxSize
ParseEventRange(entries) ==
  IF entries.form = "all" THEN <<Tombstone>>
  ELSE IF entries.form = "list" THEN entries.numbers
  ELSE [i \in 1 .. RangeLength(entries.numbers[1], entries.numbers[2]) |-> entries.numbers[1] + i - 1]

FullEntryList(events, c) ==
  IF events = <<Tombstone>> THEN [i \in 1 .. Entries(c) |-> i - 1] ELSE events

\* Reader::getAvailableDatamodels.
AvailableDatamodels == IF kind = "sio" THEN holder ELSE ModelsInFiles

\* ROOTReader::getSizeStats: what a collection has in the file is looked at through
\* all of its branches, also those that are not in the file.
StatsCrash(c) ==
  \/ InitCrashes(c)
  \/ \E i \in DOMAIN InitCategory(c).stored : 0 \in Range(InitCategory(c).branches[i])

\* The name of a subset collection is that of its branch without its last seven
\* characters, which fits newer files; for an older one what is left may be the name
\* of another collection, and a shorter name has no seven characters.
CutNames(c) == {x.name : x \in {y \in Range(InitCategory(c).stored) : y.subset /\ Version <= 2}}
StatNames(c) == {x.name : x \in Range(InitCategory(c).stored)} \ CutNames(c)
LeftNames(c) == {left \in SUBSET CutNames(c) : left # {} => left # CutNames(c)}

\* The collections that the frame of the last call has, to be printed.
FrameNames == IF kind = "sio" THEN Sio!GetAvailableCollections(frameData') ELSE result'.colls
-----------------------------------------------------------------------------
ToolInit ==
  /\ MCInit
  /\ tool = "none"
  /\ args = NoArguments
  /\ stats = AllNames
  /\ toRead = <<>>
  /\ printed = <<>>

\* parseArgs, once the file is written.
ParseArgs(arguments) ==
  /\ tool = "none" /\ kind = "none" /\ writer # "open"
  /\ args' = arguments
  /\ tool' = IF ~CanParse(arguments.entries) THEN "failed"
             ELSE IF ~CanHold(arguments.entries) THEN "aborted" ELSE "parsed"
  /\ UNCHANGED <<stats, toRead, printed, readersVars>>

OpenReader ==
  /\ tool = "parsed"
  /\ \E l \in Lists : Len(l.files) = 1 /\ MakeReader(l)
  /\ tool' = IF kind' = "refused" THEN "aborted" ELSE "opened"
  /\ UNCHANGED <<args, stats, toRead, printed>>

\* dumpEDMDefinition.
DumpEDMDefinition ==
  /\ tool = "opened"
  /\ args.model # None
  /\ tool' = IF args.model \in AvailableDatamodels THEN "ok" ELSE "failed"
  /\ UNCHANGED <<args, stats, toRead, printed, readersVars>>

\* Reader::getSizeStats, for TTrees only, looks at the category if there is one.
StatsAsked ==
  args.stats /\ kind = "root" /\ session.format = "ttree" /\ args.category \in AvailableCategories

GetSizeStats ==
  \/ ~StatsAsked /\ UNCHANGED <<stats, catVars>>
  \/ /\ StatsAsked /\ ~StatsCrash(args.category)
     /\ \E left \in LeftNames(args.category) : stats' = StatNames(args.category) \cup left
     /\ SetCategory(args.category, InitCategory(args.category))

\* main, up to the loop.
ListEntries ==
  /\ tool = "opened"
  /\ args.model = None
  /\ GetSizeStats
  /\ toRead' = FullEntryList(ParseEventRange(args.entries), args.category)
  /\ tool' = "reading"
  /\ UNCHANGED <<args, printed, regVars, session, tupleVars, cursor, result, crashed,
                 sioVars, legacyVars, sourceVars, facadeVars>>

CrashInStats ==
  /\ tool = "opened"
  /\ args.model = None
  /\ StatsAsked
  /\ StatsCrash(args.category) \/ CutNames(args.category) # {}
  /\ tool' = "aborted"
  /\ UNCHANGED <<args, stats, toRead, printed, readersVars>>

\* readFrame and printFrame, which looks up the statistics of each collection.
PrintFrame ==
  /\ tool = "reading"
  /\ toRead # <<>>
  /\ ReadAll(args.category, Head(toRead), Narrowed(Head(toRead)))
  /\ tool' = IF reader' = "gone" \/ crashed' THEN "aborted"
             ELSE IF outcome'.status = "runtime_error" THEN "failed"
             ELSE IF stats # AllNames /\ ~(FrameNames \subseteq stats) THEN "aborted" ELSE "reading"
  /\ IF tool' = "reading"
     THEN toRead' = Tail(toRead) /\ printed' = Append(printed, Head(toRead))
     ELSE UNCHANGED <<toRead, printed>>
  /\ UNCHANGED <<args, stats>>

EndLoop ==
  /\ tool = "reading"
  /\ toRead = <<>>
  /\ tool' = "ok"
  /\ UNCHANGED <<args, stats, toRead, printed, readersVars>>

DumpNext ==
  \/ tool = "none" /\ ReadersNext /\ UNCHANGED toolVars
  \/ \E arguments \in Arguments : ParseArgs(arguments)
  \/ OpenReader \/ DumpEDMDefinition \/ ListEntries \/ CrashInStats \/ PrintFrame \/ EndLoop

DumpSpec == ToolInit /\ [][DumpNext]_<<readersVars, toolVars>>
-----------------------------------------------------------------------------
\* What the user of the tool asks for: a range goes up, or is empty.
Asked ==
  LET numbers == args.entries.numbers
  IN  CASE args.entries.form = "all"   -> [i \in 1 .. Entries(args.category) |-> i - 1]
        [] args.entries.form = "range" -> [i \in 1 .. numbers[2] - numbers[1] + 1 |-> numbers[1] + i - 1]
        [] OTHER -> numbers

\* What a TTree file needs to be read at all: the classes for the branches by index,
\* the names of as many relations as the buffers have for the others.
Described(c) ==
  \A x \in Range(StoredClasses(c)) :
    /\ Version <= 2 => x.type \in Classes
    /\ Creatable(x) => ~PastBranches(x)

\* An exit code of 0 means that all of the entries that were asked for were
\* printed, in their order; 1, and a part of them, that the next is not in the
\* file.  An entry from 2^32 on is taken for another one (Reader.h:58).  The tool ends
\* otherwise for a range that goes down by more than one or is longer than a vector
\* can be, for a file that cannot be opened, for types without a block or that the
\* libraries do not describe, and for size statistics of old files and of those
\* where a relation is missing (podio-dump-tool.cpp:281).
DumpedAsAsked ==
  LET there(n) == n < Entries(args.category)
      numbers == args.entries.numbers
      unheld == args.entries.form = "range" /\ numbers[2] - numbers[1] + 1 \notin 0 .. MaxSize
  IN  /\ \A n \in Range(printed) : there(n) \/ n >= EntryRange
      /\ tool = "ok" /\ args.model = None => printed = Asked
      /\ tool = "failed" /\ args.entries.form # "other" /\ args.model = None =>
           /\ IsPrefix(printed, Asked) /\ printed # Asked
           /\ ~there(Asked[Len(printed) + 1])
      /\ tool = "aborted" =>
           \/ unheld \/ kind = "refused" \/ reader = "gone"
           \/ session.format = "ttree" /\ ~Described(args.category)
           \/ StatsAsked /\ (StatsCrash(args.category) \/ CutNames(args.category) # {})

\* A reader gives the frames below getEntries (module Readers), and so the tool
\* dumps what it was asked for.
BelowEntriesIsFrame == FramesBelowEntries /\ DumpedAsAsked
=============================================================================
