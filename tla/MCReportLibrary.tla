---------------------------- MODULE MCReportLibrary ----------------------------
(***************************************************************************)
(* Instances of ReportLibrary for TLC.                                     *)
(***************************************************************************)
EXTENDS ReportLibrary, TLC

Symmetry == Permutations(Documents) \cup Permutations(Contents) \cup Permutations(Handlers)
              \cup Permutations(Reports) \cup Permutations(Viewers)
=============================================================================
