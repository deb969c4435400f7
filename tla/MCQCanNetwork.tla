---------------------------- MODULE MCQCanNetwork ----------------------------
(* QCanNetwork for TLC. *)
EXTENDS QCanNetwork, TLC

SocketSymmetry == Permutations(Local) \cup Permutations(Web)
==============================================================================
