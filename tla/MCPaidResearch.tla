---------------------------- MODULE MCPaidResearch ----------------------------
(***************************************************************************)
(* Instances of PaidResearch for TLC: two handlers with one operation per  *)
(* quote, for the interleavings of the route, the approval and the         *)
(* credits, or one handler with both operations, for the ways research     *)
(* ends.                                                                   *)
(***************************************************************************)
EXTENDS PaidResearch, TLC

CONSTANTS h1, h2, a1, a2, house, shop, grant, good, malformed

OnePlan == {<<"propertyRecords">>}
FullPlan == {<<"propertyRecords", "valuation">>}
JustRecords  == {"propertyRecords"}
MCOperations == {"propertyRecords", "valuation"}

Symmetry == Permutations({a1, a2}) \cup Permutations({h1, h2})
=============================================================================
