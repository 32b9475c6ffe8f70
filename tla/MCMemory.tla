-------------------------------- MODULE MCMemory --------------------------------
(***************************************************************************)
(* Small instances of what a process keeps in memory: the links, the file  *)
(* with parameters, and the frames.                                        *)
(***************************************************************************)
EXTENDS Memory, TLC

\* Two links, from an object with and one without an ID to the same object; the
\* collection of the first, or of none, cannot be had when they are read.
MCObjectIDs ==
  "hit" :> [index |-> 0, coll |-> 1] @@ "loose" :> [index |-> -1, coll |-> -1] @@ "track" :> [index |-> 3, coll |-> 2]
MCValues == <<[weight |-> 2, from |-> "hit", to |-> "track"], [weight |-> 3, from |-> "loose", to |-> "track"]>>
MCProviders == {{1, 2}, {1}}

\* A file that has one parameter twice.
MCFromFile == "int" :> <<[key |-> "a", value |-> <<7>>], [key |-> "a", value |-> <<8>>]>> @@ "double" :> <<>>

\* Two frames with the same names; a type without a converter, and two names
\* with one ID.
Coll(type, subset, id, value) ==
  [type |-> type, subset |-> subset, id |-> id, version |-> 1, value |-> value]
MCFrames ==
  "f1" :> [collections |-> "hits" :> Coll("Hits", FALSE, 1, "x1") @@ "sel" :> Coll("Hits", TRUE, 2, "y1") @@
                           "odd" :> Coll("Odd", TRUE, 3, "z1") @@ "twin" :> Coll("Hits", FALSE, 1, "w1"),
           parameters |-> "int" :> ("n" :> <<1>>) @@ "double" :> <<>>] @@
  "f2" :> [collections |-> "hits" :> Coll("Hits", FALSE, 1, "x2") @@ "sel" :> Coll("Hits", TRUE, 2, "y2") @@
                           "odd" :> Coll("Odd", FALSE, 3, "z2") @@ "twin" :> Coll("Hits", FALSE, 1, "w2"),
           parameters |-> "int" :> ("n" :> <<2>>) @@ "double" :> ("n" :> <<3, 4>> @@ "m" :> <<>>)]
MCSelections == {<<"hits">>, <<"sel", "hits">>, <<"hits", "odd">>, <<"hits", "twin">>, <<"none">>}
=============================================================================
