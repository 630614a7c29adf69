---------------------------- MODULE BatchApplyMC ----------------------------
(* The requests are alike, and so are the keys: the safety runs need one of *)
(* each arrangement.                                                        *)
EXTENDS BatchApply, TLC

Symmetry == Permutations(Requests) \cup Permutations(Keys)

=============================================================================
