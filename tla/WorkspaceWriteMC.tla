-------------------------- MODULE WorkspaceWriteMC --------------------------
(***************************************************************************)
(* Two writers of one state directory; which of them is which is of no     *)
(* consequence.                                                            *)
(***************************************************************************)
EXTENDS WorkspaceWrite, TLC

WriterSymmetry == Permutations(Servers)
=============================================================================
