----------------------------- MODULE MCSimpleYaml -----------------------------
(* SimpleYaml for TLC: all plain YAML texts of five lines and all other     *)
(* texts of three, with lines at three columns, and what the server makes   *)
(* of each.                                                                 *)
EXTENDS ErrorRanges, TextCompletion

ThreeColumns == {0, 2, 4}
=============================================================================
