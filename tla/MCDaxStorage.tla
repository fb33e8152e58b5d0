--------------------------- MODULE MCDaxStorage ---------------------------
(***************************************************************************)
(* A resource that two nodes hand to each other.                           *)
(***************************************************************************)
EXTENDS DaxStorage, TLC

Symmetry == Permutations(Node) \cup Permutations(Msg)
=============================================================================
