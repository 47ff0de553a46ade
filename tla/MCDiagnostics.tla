--------------------------- MODULE MCDiagnostics ----------------------------
(* A document whose texts leave inline code and a fence open at their end.  *)
EXTENDS Diagnostics, TLC

MCText == {<<"tick", "link", "backticks">>, <<"link", "backticks">>}
MCScanner == Goroutine \cup {"main"}
MCSymmetry == Permutations(Goroutine)
=============================================================================
