------------------------------- MODULE MCReaders -------------------------------
(***************************************************************************)
(* A datamodel library, a second one under the same model name and one     *)
(* with evolution functions; files of the present and of three old         *)
(* versions, in chains of one to three; a type that no library knows, one  *)
(* that is stored with a newer version and one with its former name; an    *)
(* sio file of two categories; old files with and without a table of       *)
(* contents; arguments of the tool.                                        *)
(***************************************************************************)
EXTENDS DumpTool

CONSTANTS
  edm, edmCopy, users,                 \* libraries
  Hits, Strips, Tracks, Gone,          \* types, Strips of the past
  hits, tracks, gone, newer, missing,  \* collections
  cells, seed, events, runs, data, objIdx, noModel, full, part,
  edmBlocks, a, b, both, short, old, renamed, older, oldest, oldest2, na, nboth, nshort, sioFile, textFile

MCLibraries ==
  edm     :> [model |-> "EDM", types |-> {Hits, Tracks}, renamed |-> Strips :> [to |-> Hits, from |-> 1],
              schema |-> 2, version |-> "1.0", evolves |-> {}] @@
  edmCopy :> [model |-> "EDM", types |-> {Hits}, renamed |-> <<>>, schema |-> 2, version |-> "1.1", evolves |-> {}]

\* With functions for the evolution from version 1 that a user provides.
MCUserLibraries ==
  MCLibraries @@
  users :> [model |-> None, types |-> {}, renamed |-> <<>>, schema |-> 2, version |-> "",
            evolves |-> {[type |-> Hits, from |-> 1]}]

MCRelations == (Hits :> <<cells>>) @@ (Strips :> <<cells>>) @@ (Tracks :> <<seed>>) @@ (Gone :> <<>>)

Coll(name, type, schema, subset, parts) ==
  [name |-> name, type |-> type, schema |-> schema, subset |-> subset, parts |-> parts]
MCInfo == <<Coll(hits, Hits, 2, FALSE, 1), Coll(tracks, Tracks, 1, TRUE, 1), Coll(gone, Gone, 1, FALSE, 0)>>
MCOldInfo == <<Coll(hits, Hits, 1, FALSE, 1), Coll(tracks, Tracks, 1, FALSE, 0), Coll(newer, Hits, 3, FALSE, 1)>>

File(version, entries, info) == [version |-> version, entries |-> entries, info |-> info]
TwoEvents == File(4, events :> 2, events :> MCInfo)
OneEvent == File(4, events :> 1, events :> MCInfo)
EventAndRun == File(4, events :> 1 @@ runs :> 1, events :> MCInfo @@ runs :> <<>>)
MCFiles ==
  a :> TwoEvents @@ b :> TwoEvents @@ na :> TwoEvents @@
  both :> EventAndRun @@ nboth :> EventAndRun @@
  short :> OneEvent @@ nshort :> OneEvent @@
  old     :> File(3, events :> 2, events :> MCOldInfo) @@
  renamed :> File(4, events :> 1, events :> <<Coll(hits, Strips, 1, FALSE, 1)>>) @@
  older   :> File(2, events :> 1, events :> <<Coll(hits, Strips, 1, FALSE, 1), Coll(tracks, Tracks, 1, TRUE, 1)>>) @@
  oldest  :> File(1, events :> 2, events :> MCOldInfo) @@
  oldest2 :> File(1, events :> 1, events :> MCOldInfo)

All == {}
MCRNTuples == {na, nboth, nshort}
MCSuffix == [f \in DOMAIN MCFiles |-> "root"] @@ (sioFile :> "sio") @@ (textFile :> "txt")
RootLists ==
  {[files |-> fs, requests |-> {All}] : fs \in {<<a, short>>, <<both>>, <<renamed>>, <<older>>}} \cup
  {[files |-> fs, requests |-> {All, {missing}}] :
     fs \in {<<b, a, b>>, <<old>>, <<oldest, oldest2>>, <<nboth, nshort, na>>}} \cup
  {[files |-> <<a>>, requests |-> {All, {hits}, {tracks, gone}, {hits, missing}}],
   [files |-> <<na, nshort, na>>, requests |-> {All, {hits}, {tracks, gone}, {missing}}]}
MCLists ==
  RootLists \cup
  {[files |-> fs, requests |-> {}] :
     fs \in {<<>>, <<a, sioFile>>, <<textFile>>, <<sioFile>>, <<sioFile, sioFile>>}}
MCSourceLists == {l \in RootLists : l.files \in {<<a, short>>, <<na, nshort, na>>}}

SessionsOf(lists) ==
  {[format |-> IF l.files[1] \in MCRNTuples THEN "rntuple" ELSE "ttree",
    files |-> l.files, requests |-> l.requests] : l \in lists}
MCSessions == SessionsOf(RootLists)

\* A chain of two files that is read with and without a selection.
MCSelective == {[files |-> <<a, b>>, requests |-> {All, {hits}}]}
MCSelectiveSessions == SessionsOf(MCSelective)

MCSioFrames == (full :> {hits, tracks, cells}) @@ (part :> {hits})
MCModels == (hits :> edm) @@ (tracks :> edm) @@ (cells :> noModel)
\* A path in whose first directory nothing is found; two libraries of one name,
\* the first of which cannot be opened; and one that lacks a block.
MCSioPaths ==
  LET all == [name |-> edmBlocks, opens |-> TRUE, blocks |-> {hits, tracks}]
      less == [name |-> edmBlocks, opens |-> TRUE, blocks |-> {hits}]
  IN  {[own |-> TRUE, dirs |-> <<<<>>, <<all>>>>],
       [own |-> FALSE, dirs |-> <<<<[all EXCEPT !.opens = FALSE]>>, <<all, less>>>>],
       [own |-> FALSE, dirs |-> <<<<>>, <<less>>, <<all>>>>]}
MCSioRequests == {<<>>, <<tracks, hits>>}

\* Entries of all kinds, one that is taken for the first, one range that is empty
\* and one that is too long; a datamodel that is there, and one that is not.
Arg(form, numbers, c) ==
  [entries |-> [form |-> form, numbers |-> numbers], category |-> c, model |-> None, stats |-> FALSE]
MCArguments ==
  {Arg("all", <<>>, events), Arg("all", <<>>, runs), Arg("list", <<1, 0>>, events),
   Arg("list", <<0, 3>>, events), Arg("list", <<7>>, events), Arg("range", <<0, 1>>, events), Arg("range", <<1, 0>>, events),
   Arg("range", <<3, 1>>, events), Arg("other", <<>>, events),
   [Arg("list", <<0>>, events) EXCEPT !.stats = TRUE],
   [Arg("list", <<0>>, events) EXCEPT !.model = edm], [Arg("list", <<0>>, events) EXCEPT !.model = edmCopy]}

\* Events of old files: the entries of the trees of a chain, and the records of
\* an sio file; entries are asked for where the branches are up to date.
MCLegacySessions ==
  {[format |-> "ttree", content |-> <<2>>, hasToc |-> FALSE, numbers |-> {0, 1}],
   [format |-> "ttree", content |-> <<2, 1, 2>>, hasToc |-> FALSE, numbers |-> {0, 2, 3}],
   [format |-> "sio", hasToc |-> TRUE, numbers |-> {0, 1, 2, 3},
    content |-> <<"collection_ids", "event_record", "run_record", "event_record", "event_record", "toc">>],
   [format |-> "sio", hasToc |-> FALSE, numbers |-> {2},
    content |-> <<"collection_ids", "event_record", "run_record", "event_record">>]}
=============================================================================
