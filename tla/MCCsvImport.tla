----------------------------- MODULE MCCsvImport -----------------------------
(* Small instances of CsvImport for TLC. *)
EXTENDS CsvImport, TLC

Symmetry == Permutations(Proc) \cup Permutations(Plan)
=============================================================================
