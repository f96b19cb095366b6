-------------------------- MODULE MCProviderResearch --------------------------
(***************************************************************************)
(* Instances of ProviderResearch for TLC: two handlers and two approvals   *)
(* for one address, with operation sets that share a lease or do not.      *)
(***************************************************************************)
EXTENDS ProviderResearch, TLC

CONSTANTS h1, h2, a1, a2, house, good, malformed

MCOperations == {"propertyRecords", "valuation"}
OnePlan      == {<<"propertyRecords">>}
FullPlan     == {<<"propertyRecords", "valuation">>}
TwoPlans     == {<<"propertyRecords">>, <<"propertyRecords", "valuation">>}

\* Handlers are interchangeable, and so are approvals.
Symmetry == Permutations({a1, a2}) \cup Permutations({h1, h2})
=============================================================================
