---------------------------- MODULE MCDiagnoseFile ----------------------------
(* DiagnoseFile for TLC: three objects, every mix of verdicts and every     *)
(* number of simple documents.                                             *)
EXTENDS DiagnoseFile

ThreeObjects == 3
=============================================================================
