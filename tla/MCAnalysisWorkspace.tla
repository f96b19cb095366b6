-------------------------- MODULE MCAnalysisWorkspace --------------------------
(***************************************************************************)
(* Instances of AnalysisWorkspace for TLC: one property, and contents that *)
(* cannot be analyzed, can be analyzed, and differ from those in notes.    *)
(***************************************************************************)
EXTENDS AnalysisWorkspace, TLC

CONSTANTS house, s1, s2, empty, sum, noted, t1, t2, h1, h2

MCHome        == [s \in Scenarios |-> house]
MCCalculation == empty :> "incomplete" @@ sum :> "amounts" @@ noted :> "amounts" @@ None :> "none"

Symmetry == Permutations(Tabs) \cup Permutations(Handlers) \cup Permutations(Scenarios)
=============================================================================
