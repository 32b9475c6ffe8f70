----------------------------- MODULE MCRootWriter -----------------------------
(***************************************************************************)
(* Two categories of one file; two of the three names differ in case only, *)
(* and one frame lacks collections that the other one has.                 *)
(***************************************************************************)
EXTENDS RootWriter, TLC

CONSTANTS hits, Hits, tracks, full, part, events, runs

MCLower == (hits :> 1) @@ (Hits :> 1) @@ (tracks :> 2)
MCAvailable == (full :> {hits, Hits, tracks}) @@ (part :> {hits})
MCRequests ==
  {<<>>, <<hits>>, <<tracks, hits>>, <<hits, tracks>>, <<Hits, tracks>>,
   <<Hits, hits>>, <<hits, hits>>}
=============================================================================
