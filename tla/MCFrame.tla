------------------------------- MODULE MCFrame -------------------------------
(***************************************************************************)
(* Small frames for TLC.  The relations of the raw collections are cyclic, *)
(* and one leads to an ID that no table has.                               *)
(***************************************************************************)
EXTENDS Frame, TLC

CONSTANTS a, b, c, u, p, q

\* Three raw collections; the ID of p is in the table only after a put.
MCHash == (a :> 11) @@ (b :> 12) @@ (p :> 13) @@ (c :> 15)
MCFileTable == [ids |-> <<11, 12, 15>>, names |-> <<a, b, c>>]
MCRel == (a :> <<12, 13>>) @@ (b :> <<15, 99>>) @@ (c :> <<11, 12>>)

\* Four raw collections: c has a relation to u, which Arrow cannot read, and
\* a has one to p, which the table of the file names although the raw data
\* does not have it (a limited read).
OneHash == MCHash @@ (q :> 14) @@ (u :> 16)
OneFileTable ==
  [ids |-> <<11, 12, 13, 15, 16>>, names |-> <<a, b, p, c, u>>]
OneRel == (a :> <<12, 13, 11>>) @@ (b :> <<11, 99>>) @@ (c :> <<11, 16, 12>>) @@ (u :> <<12>>)
=============================================================================
