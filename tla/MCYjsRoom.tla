------------------------------ MODULE MCYjsRoom ------------------------------
(* Instances of YjsRoom for TLC. *)
EXTENDS YjsRoom, TLC

(* Tabs and requests are interchangeable. *)
Symmetry == Permutations(Tabs) \cup Permutations(Workers)
=============================================================================
