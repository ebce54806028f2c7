------------------------------ MODULE MCReport ------------------------------
(***************************************************************************)
(* Report on small instances: one id with two parts and one with a single  *)
(* part; periods of no, one and two chunks, alone and compared; a trend of *)
(* two buckets, and one over the cap.                                      *)
(***************************************************************************)
EXTENDS Report

CONSTANTS a, b, p, q

TwoParts == {[id |-> a, part |-> p], [id |-> a, part |-> q], [id |-> b, part |-> p]}

Plan(tool, entity, legs) == [tool |-> tool, entity |-> entity, legs |-> legs]

AllPlans ==
    {Plan("performance", "campaign", <<1>>), Plan("performance", "campaign", <<2>>),
     Plan("performance", "flow", <<2>>), Plan("performance", "flow", <<0>>),
     Plan("rollup", "flow", <<2>>),
     Plan("compare", "campaign", <<2, 1>>), Plan("compare", "flow", <<1, 1>>),
     Plan("trend", "campaign", <<1, 1>>), Plan("trend", "campaign", <<1, 1, 1>>)}

TrendPlans == {Plan("trend", "campaign", <<1, 1>>)}
=============================================================================
