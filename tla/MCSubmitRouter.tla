---------------------------- MODULE MCSubmitRouter ----------------------------
(* SubmitRouter for TLC: the submits, the origins and the pages are interchangeable. *)
EXTENDS SubmitRouter, TLC

RouterSymmetry == Permutations(Submits) \cup Permutations(Origins) \cup Permutations(Pages)
=============================================================================
