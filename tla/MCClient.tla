------------------------------ MODULE MCClient ------------------------------
(***************************************************************************)
(* Client on small instances: a collection of two pages (p1, p2), one that *)
(* links back to itself for ever (q), and a single resource (p2).          *)
(***************************************************************************)
EXTENDS Client, TLC

CONSTANTS p1, p2, q

ShortGraph == (p1 :> p2) @@ (p2 :> End)
LoopGraph == (p1 :> p2) @@ (p2 :> End) @@ (q :> q)
=============================================================================
